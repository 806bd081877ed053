------------------------------ MODULE Provision ------------------------------
(***************************************************************************)
(* Start-up of the service: app.Run opens the store and runs doBootstrap,  *)
(* which makes it agree with agency.json: missing providers and agents are *)
(* created, existing agents updated, and, where there is an Agency client, *)
(* work plans without an agent wired to theirs.  Only then does it serve,  *)
(* registered with CodeValdCross or not.                                   *)
(*                                                                         *)
(* Several replicas may start at once over one store; a process may crash  *)
(* or a call fail between any two writes, with or without its effect; and  *)
(* the operator edits agency.json, plans and agents meanwhile.  UpdateAgent *)
(* and CreateAgent are taken in the steps a boot can be cut between; the   *)
(* module Catalogue has them against each other.                           *)
(***************************************************************************)
EXTENDS Naturals, FiniteSets, Sequences, SequencesExt

CONSTANTS
  Procs,          \* replicas of the service
  Files,          \* what agency.json may say: [providers, agents, wiring], where
                  \* providers is a sequence of names and agents one of
                  \* [name, provider, limit]; wiring is of the plans.  A code is
                  \* given by the place of the last entry that has it, 0 if none
                  \* has; a plan without an agent_code is wired to None
  ProviderNames, AgentNames,
  Plans,          \* work plans of CodeValdAgency
  None,
  MaxLimit,       \* bound: values of an agent's limits; 0 stands for unset
  MaxEvents       \* bound: crashes, calls that fail, edits by the operator, and
                  \* boots that begin while another one is under way

ASSUME FileAssumption == \A f \in Files :
  /\ f.providers \in Seq(ProviderNames)
  /\ f.agents \in Seq([name : AgentNames, provider : 0..Len(f.providers), limit : 0..MaxLimit])
  /\ f.wiring \in [Plans -> 0..Len(f.agents) \cup {None}]
ASSUME NoneAssumption == None \notin Nat
ASSUME BoundAssumption == MaxLimit \in Nat /\ MaxEvents \in Nat

VARIABLES
  file,       \* agency.json
  providers,  \* the LLMProvider entities' names; an entity's id is its place
  agents,     \* the Agent entities: [name, limit, edges, live]
  plans,      \* AgentId of each work plan; 0 for none
  proc,       \* each replica; see Fresh
  events,
  \* history, read by properties only
  clash,      \* two boots have written over each other
  hand        \* of each plan, the agent the operator gave it when no boot was about to

store == <<providers, agents, plans>>
vars == <<file, store, proc, events, clash, hand>>

\* A replica: where its start-up is, whether it has an Agency client, the file
\* it read, the ids it knows of the file's entries (0 for none), the agent at
\* hand, the edges it has still to remove, the plans it has still to wire.
\* whole: no call of this boot failed and nobody else has written since it
\* began; boots counts its starts.
Fresh(f) == [at |-> "down", agency |-> FALSE, file |-> f, late |-> FALSE,
             prov |-> <<>>, agent |-> <<>>,
             i |-> 1, made |-> 0, old |-> {}, todo |-> {},
             whole |-> FALSE, boots |-> 0]

Booting == {"bootstrap", "provide", "agents", "create", "write", "edges",
            "unlink", "link", "plans", "wire", "listen"}

-----------------------------------------------------------------------------
(* Faulty variants of definitions below; no behaviour uses them. *)

\* Providers are looked up by the code of the file, which no entity holds.
NamedByCode(ents, n) == {}

\* The entities with a name, and the ids the places of a file get from a map by
\* name built from their list: the same for the same name.
Named(ents, n) == {i \in DOMAIN ents : ents[i] = n}
AgentsNamed(n) == {i \in DOMAIN agents : agents[i].live /\ agents[i].name = n}
AgentNamesOf(f) == [i \in DOMAIN f.agents |-> f.agents[i].name]
IdsOf(found, names) ==
  {m \in [DOMAIN names -> 0..(Len(providers) + Len(agents))] :
     /\ \A k \in DOMAIN names : IF found[k] = {} THEN m[k] = 0 ELSE m[k] \in found[k]
     /\ \A k, l \in DOMAIN names : names[k] = names[l] => m[k] = m[l]}

-----------------------------------------------------------------------------
(* Steps of a replica p *)

At(p, l) == proc[p].at = l

\* What is left of a replica's locals when they go out of scope.
Scoped(r) ==
  CASE r.at \in {"plans", "wire"} -> [r EXCEPT !.i = 1, !.prov = <<>>]
    [] r.at \in {"listen", "serving"} ->
         [r EXCEPT !.i = 1, !.prov = <<>>, !.agent = <<>>, !.late = FALSE]
    [] r.at = "down" -> [Fresh(CHOOSE f \in Files : TRUE) EXCEPT !.boots = r.boots]
    [] OTHER -> r

\* p goes to l with its record r; the store is untouched.
Go(p, l, r) ==
  /\ proc' = [proc EXCEPT ![p] = Scoped([r EXCEPT !.at = l])]
  /\ UNCHANGED clash

\* A call of this boot failed, or somebody else has written.
NotWhole(p) == [proc[p] EXCEPT !.whole = FALSE]

\* p has written to the store and goes to l.
Wrote(p, l, r) ==
  /\ proc' = [q \in Procs |-> IF q = p THEN Scoped([r EXCEPT !.at = l])
                              ELSE [proc[q] EXCEPT !.whole = FALSE]]
  /\ clash' = (clash \/ \E q \in Procs \ {p} : proc[q].at \in Booting)

Event == events < MaxEvents /\ events' = events + 1

\* A call is answered, or is not: once bootstrapCtx has expired none is.
Answered(p) == ~proc[p].late /\ UNCHANGED events
Refused(p) == IF proc[p].late THEN UNCHANGED events ELSE Event

-----------------------------------------------------------------------------
(* app.Run up to the bootstrap *)

\* Run: the Agency client is there or not.  NewBackend: without the store the
\* process ends.
Start(p) ==
  /\ At(p, "down")
  /\ \/ /\ IF \E q \in Procs : proc[q].at \in Booting THEN Event ELSE UNCHANGED events
        /\ \E client \in BOOLEAN :
             Go(p, "bootstrap", [proc[p] EXCEPT !.agency = client, !.boots = @ + 1, !.whole = TRUE])
     \/ Event /\ Go(p, "down", proc[p])
  /\ UNCHANGED <<file, store, hand>>

-----------------------------------------------------------------------------
(* doBootstrap: providers *)

AfterProviders(prov) == IF \E k \in DOMAIN prov : prov[k] = 0 THEN "provide" ELSE "agents"

\* agency.json is read and the providers listed.
ListProviders(p) ==
  /\ At(p, "bootstrap")
  /\ \/ /\ Answered(p)
        /\ IF file.providers = <<>> /\ file.agents = <<>> THEN Go(p, "listen", [proc[p] EXCEPT !.file = file])
           ELSE \E m \in IdsOf([k \in DOMAIN file.providers |-> Named(providers, file.providers[k])], file.providers) :
                  Go(p, AfterProviders(m), [proc[p] EXCEPT !.file = file, !.prov = m])
     \/ Refused(p) /\ Go(p, "listen", [proc[p] EXCEPT !.file = file, !.whole = FALSE])
  /\ UNCHANGED <<file, store, hand>>

\* The first provider of the file that was not listed.  The map of the names
\* listed stays as it is.
CreateProvider(p) ==
  LET k == SelectInSeq(proc[p].prov, LAMBDA id : id = 0)
      more == Append(providers, proc[p].file.providers[k])
      known == [proc[p].prov EXCEPT ![k] = Len(providers) + 1]
  IN /\ At(p, "provide")
     /\ \/ /\ Answered(p) /\ providers' = more
           /\ Wrote(p, AfterProviders(known), [proc[p] EXCEPT !.prov = known])
        \/ /\ Refused(p)
           /\ \/ UNCHANGED providers /\ Go(p, "listen", NotWhole(p))
              \/ providers' = more /\ Wrote(p, "listen", NotWhole(p))
     /\ UNCHANGED <<file, agents, plans, hand>>

-----------------------------------------------------------------------------
(* doBootstrap: agents *)

Declared(p) == proc[p].file.agents[proc[p].i]
ProviderID(p) == IF Declared(p).provider = 0 THEN 0 ELSE proc[p].prov[Declared(p).provider]

\* Where the loop is with its i-th agent, the known ids being m.
AgentAt(i, m) == IF i > Len(m) THEN "plans" ELSE IF m[i] # 0 THEN "write" ELSE "create"

\* The loop goes on to the next agent.
NextAgent(p) == proc[p].i + 1
Onward(p) == AgentAt(NextAgent(p), proc[p].agent)

ListAgents(p) == LET names == AgentNamesOf(proc[p].file) IN
  /\ At(p, "agents")
  /\ \/ /\ Answered(p)
        /\ \E m \in IdsOf([k \in DOMAIN names |-> AgentsNamed(names[k])], names) :
             Go(p, AgentAt(1, m), [proc[p] EXCEPT !.agent = m])
     \/ Refused(p) /\ Go(p, "listen", NotWhole(p))
  /\ UNCHANGED <<file, store, hand>>

\* CreateAgent: the entity.  A provider the file does not declare ends the boot.
CreateAgent(p) ==
  LET new == [name |-> Declared(p).name, limit |-> Declared(p).limit, edges |-> {}, live |-> TRUE] IN
  /\ At(p, "create")
  /\ \/ ProviderID(p) = 0 /\ UNCHANGED <<agents, events>> /\ Go(p, "listen", NotWhole(p))
     \/ /\ ProviderID(p) # 0 /\ Answered(p) /\ agents' = Append(agents, new)
        /\ Wrote(p, "link", [proc[p] EXCEPT !.made = Len(agents) + 1])
     \/ /\ ProviderID(p) # 0 /\ Refused(p)
        /\ \/ UNCHANGED agents /\ Go(p, "listen", NotWhole(p))
           \/ agents' = Append(agents, new) /\ Wrote(p, "listen", NotWhole(p))
  /\ UNCHANGED <<file, providers, plans, hand>>

\* A failed update is only logged.
Skipped(p) == [proc[p] EXCEPT !.i = NextAgent(p), !.old = {}, !.whole = FALSE]
Skip(p) == Go(p, Onward(p), Skipped(p))

\* Faulty: an agent that exists is left as it is.
KeepAgent(p) ==
  /\ At(p, "write") /\ Go(p, Onward(p), [proc[p] EXCEPT !.i = NextAgent(p)])
  /\ UNCHANGED <<file, store, events, hand>>

\* Faulty: an agent that is gone is waited for.
WriteLiveAgent(p) ==
  /\ At(p, "write") /\ agents[proc[p].agent[proc[p].i]].live /\ Answered(p)
  /\ Wrote(p, "edges", proc[p])
  /\ UNCHANGED <<file, store, hand>>

\* UpdateAgent: the properties.  A zero limit means unset; a failure, also
\* that the agent is gone, costs this agent its update, unless the answer alone
\* was lost.
WriteAgent(p) ==
  LET a == proc[p].agent[proc[p].i]
      limit == Declared(p).limit
      written == [agents EXCEPT ![a].limit = IF limit = 0 THEN @ ELSE limit]
  IN
  /\ At(p, "write")
  /\ \/ /\ agents[a].live /\ Answered(p) /\ agents' = written
        /\ IF ProviderID(p) # 0 THEN Wrote(p, "edges", proc[p])
           ELSE Wrote(p, Onward(p), [proc[p] EXCEPT !.i = NextAgent(p)])
     \/ ~agents[a].live /\ Answered(p) /\ UNCHANGED agents /\ Skip(p)
     \/ Refused(p) /\ UNCHANGED agents /\ Skip(p)
     \/ agents[a].live /\ Refused(p) /\ agents' = written /\ Wrote(p, Onward(p), Skipped(p))
  /\ UNCHANGED <<file, providers, plans, hand>>

\* UpdateAgent: GetProvider and the edges there are.
ListEdges(p) ==
  /\ At(p, "edges")
  /\ \/ Answered(p) /\ LET es == agents[proc[p].agent[proc[p].i]].edges IN
                        Go(p, IF es = {} THEN "link" ELSE "unlink", [proc[p] EXCEPT !.old = es])
     \/ Refused(p) /\ Skip(p)
  /\ UNCHANGED <<file, store, hand>>

\* UpdateAgent: the listed edges go one by one; one that is gone is an error.
Unlink(p) ==
  LET a == proc[p].agent[proc[p].i]
      old == proc[p].old
      Without(e) == [agents EXCEPT ![a].edges = @ \ {e}]
  IN
  /\ At(p, "unlink")
  /\ \/ \E e \in old \cap agents[a].edges :
          /\ Answered(p) /\ agents' = Without(e)
          /\ Wrote(p, IF old = {e} THEN "link" ELSE "unlink", [proc[p] EXCEPT !.old = old \ {e}])
     \/ old \ agents[a].edges # {} /\ Answered(p) /\ UNCHANGED agents /\ Skip(p)
     \/ Refused(p) /\ UNCHANGED agents /\ Skip(p)
     \/ \E e \in old \cap agents[a].edges :
          Refused(p) /\ agents' = Without(e) /\ Wrote(p, Onward(p), Skipped(p))
  /\ UNCHANGED <<file, providers, plans, hand>>

\* UpdateAgent and CreateAgent: the new edge.  For a new agent a failure ends
\* the boot.
Link(p) ==
  LET new == proc[p].made # 0
      a == IF new THEN proc[p].made ELSE proc[p].agent[proc[p].i]
      known == [proc[p].agent EXCEPT ![proc[p].i] = a]
      edge == [to |-> ProviderID(p), by |-> p, boot |-> proc[p].boots]
      linked == [agents EXCEPT ![a].edges = @ \cup {edge}]
  IN /\ At(p, "link")
     /\ \/ /\ Answered(p) /\ agents' = linked
           /\ Wrote(p, Onward(p), [proc[p] EXCEPT !.i = NextAgent(p), !.agent = known, !.made = 0])
        \/ /\ Refused(p) /\ new /\ agents' \in {agents, linked}
           /\ Wrote(p, "listen", [proc[p] EXCEPT !.made = 0, !.whole = FALSE])
        \/ /\ Refused(p) /\ ~new /\ agents' \in {agents, linked}
           /\ Wrote(p, Onward(p), Skipped(p))
     /\ UNCHANGED <<file, providers, plans, hand>>

-----------------------------------------------------------------------------
(* doBootstrap: work plans *)

\* The file gives plan w an agent it declares.
Wires(f, w) == f.wiring[w] \notin {None, 0}

\* Faulty: plans with an agent are wired again.
AllWired(p) == {w \in Plans : Wires(proc[p].file, w)}

\* The plans to wire; those with an agent, and those whose agent is not
\* provisioned, are left alone.
Unwired(p) == {w \in Plans : Wires(proc[p].file, w) /\ plans[w] = 0}

\* Without an Agency client, or an agent_code in the file, wiring is skipped.
ListPlans(p) ==
  LET skips == ~proc[p].agency \/ \A w \in Plans : proc[p].file.wiring[w] = None IN
  /\ At(p, "plans")
  /\ \/ skips /\ UNCHANGED events /\ Go(p, "listen", proc[p])
     \/ /\ ~skips /\ Answered(p)
        /\ Go(p, IF Unwired(p) = {} THEN "listen" ELSE "wire", [proc[p] EXCEPT !.todo = Unwired(p)])
     \/ ~skips /\ Refused(p) /\ Go(p, "listen", NotWhole(p))
  /\ UNCHANGED <<file, store, hand>>

\* UpdateWorkPlan for one of them, in the order the Agency listed them.
WirePlan(p, w) ==
  LET rest == proc[p].todo \ {w}
      next == IF rest = {} THEN "listen" ELSE "wire"
      wired == [plans EXCEPT ![w] = proc[p].agent[proc[p].file.wiring[w]]]
  IN /\ At(p, "wire") /\ w \in proc[p].todo
     /\ \/ Answered(p) /\ plans' = wired /\ Wrote(p, next, [proc[p] EXCEPT !.todo = rest])
        \/ /\ Refused(p) /\ plans' \in {plans, wired}
           /\ Wrote(p, next, [proc[p] EXCEPT !.todo = rest, !.whole = FALSE])
     /\ UNCHANGED <<file, providers, agents, hand>>

-----------------------------------------------------------------------------
\* The port is opened and the service is up, or the process ends.
Listen(p) ==
  /\ At(p, "listen")
  /\ \/ UNCHANGED events /\ Go(p, "serving", proc[p])
     \/ Event /\ Go(p, "down", proc[p])
  /\ UNCHANGED <<file, store, hand>>

\* The 30 seconds of bootstrapCtx are over.
Expire(p) ==
  /\ proc[p].at \in Booting \ {"listen"} /\ ~proc[p].late
  /\ Event /\ Go(p, proc[p].at, [proc[p] EXCEPT !.late = TRUE])
  /\ UNCHANGED <<file, store, hand>>

Crash(p) ==
  /\ ~At(p, "down") /\ Event /\ Go(p, "down", proc[p])
  /\ UNCHANGED <<file, store, hand>>

-----------------------------------------------------------------------------
(* The operator *)

OperatorWrites ==
  /\ Event /\ proc' = [q \in Procs |-> [proc[q] EXCEPT !.whole = FALSE]] /\ UNCHANGED <<providers, clash>>

EditFile ==
  /\ OperatorWrites /\ file' \in Files \ {file}
  /\ UNCHANGED <<agents, plans, hand>>

\* DeleteAgent, when no run of it is active.
DeleteAgent(a) ==
  /\ OperatorWrites /\ agents[a].live
  /\ agents' = [agents EXCEPT ![a].live = FALSE, ![a].edges = {}]
  /\ UNCHANGED <<file, plans, hand>>

\* The plan gets an agent, or loses it.
EditPlan(w) ==
  /\ OperatorWrites
  /\ \E a \in 0..Len(agents) \ {plans[w]} :
       /\ plans' = [plans EXCEPT ![w] = a]
       /\ hand' = [hand EXCEPT ![w] = IF \E p \in Procs : w \in proc[p].todo THEN 0 ELSE a]
  /\ UNCHANGED <<file, agents>>

-----------------------------------------------------------------------------
Init ==
  /\ file \in Files
  /\ providers = <<>> /\ agents = <<>>
  /\ plans = [w \in Plans |-> 0]
  /\ proc = [p \in Procs |-> Fresh(CHOOSE f \in Files : TRUE)]
  /\ events = 0 /\ clash = FALSE /\ hand = plans

Step(p) ==
  \/ Start(p) \/ ListProviders(p) \/ CreateProvider(p)
  \/ ListAgents(p) \/ CreateAgent(p) \/ WriteAgent(p) \/ ListEdges(p) \/ Unlink(p) \/ Link(p)
  \/ ListPlans(p) \/ (\E w \in Plans : WirePlan(p, w)) \/ Listen(p)

Operator == EditFile \/ (\E a \in DOMAIN agents : DeleteAgent(a))
            \/ \E w \in Plans : EditPlan(w)

Next == (\E p \in Procs : Step(p) \/ Expire(p) \/ Crash(p)) \/ Operator

Spec == Init /\ [][Next]_vars

\* Every call ends, by an answer or by the deadline of its context, and a
\* process that ended is started again.
FairSpec == Spec /\ \A p \in Procs : WF_vars(Step(p))

-----------------------------------------------------------------------------
(* Properties *)

TypeOK ==
  /\ file \in Files
  /\ providers \in Seq(ProviderNames)
  /\ \A a \in DOMAIN agents :
       /\ agents[a].name \in AgentNames /\ agents[a].limit \in 0..MaxLimit /\ agents[a].live \in BOOLEAN
       /\ \A e \in agents[a].edges : e.to \in DOMAIN providers /\ e.by \in Procs /\ e.boot \in 1..(MaxEvents + 1)
  /\ plans \in [Plans -> 0..Len(agents)] /\ hand \in [Plans -> 0..Len(agents)]
  /\ events \in 0..MaxEvents /\ clash \in BOOLEAN
  /\ \A p \in Procs : LET r == proc[p] IN
       /\ r.at \in Booting \cup {"down", "serving"}
       /\ r.prov \in Seq(0..Len(providers)) /\ r.agent \in Seq(0..Len(agents)) /\ r.made \in 0..Len(agents)
       /\ r.i \in 1..(Len(r.file.agents) + 1) /\ r.todo \subseteq Plans
       /\ {r.agency, r.late, r.whole} \subseteq BOOLEAN /\ r.boots \in 0..(MaxEvents + 1)

\* A name is declared once by every agency.json.
Once(names, n) == \A k, l \in DOMAIN names : names[k] = n /\ names[l] = n => k = l
OneProvider(n) == \A f \in Files : Once(f.providers, n)
OneAgent(n) == \A f \in Files : Once(AgentNamesOf(f), n)

\* "Idempotent by name": however often the service was started, stopped half
\* way or cut off from the store, no name has two providers or two agents -
\* unless two replicas have booted over each other, or a file declared the name
\* twice (doBootstrap).
NamesUnique ==
  ~clash =>
    /\ \A i, j \in DOMAIN providers : providers[i] = providers[j] /\ OneProvider(providers[i]) => i = j
    /\ \A a, b \in DOMAIN agents :
         /\ agents[a].live /\ agents[b].live /\ agents[a].name = agents[b].name
         /\ OneAgent(agents[a].name)
         => a = b

\* What agency.json says of agents takes effect on a restart, and one good
\* boot repairs whatever failed boots, crashes and races left: a service that
\* came up with no call failing and nobody else writing has every agent that
\* is declared once with its declared provider alone and its declared limit,
\* if it declares one, and, if it has an Agency client, no declared plan
\* without an agent.
BootProvisions ==
  \A p \in Procs : LET f == proc[p].file IN
    At(p, "serving") /\ proc[p].whole =>
      /\ \A i \in DOMAIN f.agents : LET s == f.agents[i] IN
           Once(AgentNamesOf(f), s.name) =>
             \E a \in AgentsNamed(s.name) :
               /\ s.limit # 0 => agents[a].limit = s.limit
               /\ s.provider # 0 => /\ Cardinality(agents[a].edges) = 1
                                    /\ \A e \in agents[a].edges : providers[e.to] = f.providers[s.provider]
      /\ proc[p].agency => \A w \in Plans : Wires(f, w) => plans[w] # 0

\* A plan the operator wired keeps its agent whatever boots run, unless one had
\* listed the plan as unwired before ("already wired", read from the list).
OperatorWiringKept == \A w \in Plans : hand[w] # 0 => plans[w] = hand[w]

\* "Errors are logged but do not block startup": once calls are answered and
\* processes stay up, every replica comes to serve.
StartupNotBlocked == <>[](\A p \in Procs : At(p, "serving"))
=============================================================================
