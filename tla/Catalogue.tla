------------------------------ MODULE Catalogue ------------------------------
(***************************************************************************)
(* The catalogue of LLM providers and agents (ai.go) under concurrent      *)
(* calls: CreateProvider, UpdateProvider, DeleteProvider, CreateAgent,     *)
(* UpdateAgent, DeleteAgent, and the calls that make an agent's runs.  A   *)
(* call reads and writes the entity graph one operation at a time, without *)
(* a transaction: what it checked may no longer hold when it acts.         *)
(* Deletion is soft and leaves the edges of an entity alone; an edge that  *)
(* is already gone cannot be deleted again.                                *)
(***************************************************************************)
EXTENDS Naturals, FiniteSets

CONSTANTS
  Providers, Agents, Runs, Edges,   \* pools of entity and edge ids
  Fields,       \* mutable fields of a provider or an agent
  Values,       \* what a request may set a field to: a zero value means unset
  Calls,        \* concurrent RPC handlers
  None,
  MaxFaults     \* bound: failed store operations

ASSUME PoolAssumption == None \notin Providers \cup Agents \cup Fields \cup Values /\ Providers \cap Agents = {}
                         /\ Edges \cap Runs = {}
ASSUME BoundAssumption == MaxFaults \in Nat

VARIABLES
  life,         \* of a provider or agent: "unborn", "live" or "deleted"
  props,        \* its fields
  edge,         \* uses_provider edges: [agent, provider], or NoEdge
  cut,          \* edges that were deleted
  run,          \* a run: "none", "active", or "over": yielded, completed, failed
  runAgent,     \* its belongs_to_agent edge
  \* one call's position and local variables
  at,
  obj,          \* the provider or agent it works on
  want,         \* ProviderID of the request
  field, value, \* the field the request sets, and to what
  snap,         \* the properties it read
  old,          \* the edges it listed and still has to delete
  newRun,       \* the run it created
  faults,
  \* history, read by properties only
  stale,        \* calls whose snap was overwritten since they read it
  crossed,      \* agents whose provider two calls replaced at the same time
  late,         \* calls that rely on an entity deleted since they looked it up
  blind         \* edges and runs made by such calls, or between check and delete

graph == <<life, props, edge, cut, run, runAgent>>
locals == <<obj, want, field, value, snap, old, newRun>>
history == <<stale, crossed, late, blind>>
vars == <<graph, at, locals, faults, history>>

Objects == Providers \cup Agents
NoEdge == [agent |-> None, provider |-> None]
Links == [agent : Agents, provider : Providers]
Existing == {e \in Edges : edge[e] # NoEdge}
Unused(e) == edge[e] = NoEdge /\ e \notin cut
EdgesOf(a) == {e \in Existing : edge[e].agent = a}
EdgesTo(p) == {e \in Existing : edge[e].provider = p}
Blank == [f \in Fields |-> None]

Goto(c, l) == at' = [at EXCEPT ![c] = l]

\* The call returns and its locals are gone.
Idle(c) ==
  /\ Goto(c, "idle")
  /\ obj' = [obj EXCEPT ![c] = None] /\ want' = [want EXCEPT ![c] = None]
  /\ field' = [field EXCEPT ![c] = None] /\ value' = [value EXCEPT ![c] = None]
  /\ snap' = [snap EXCEPT ![c] = Blank] /\ old' = [old EXCEPT ![c] = {}]
  /\ newRun' = [newRun EXCEPT ![c] = None]

Return(c) == Idle(c) /\ late' = late \ {c}

Fault == faults < MaxFaults /\ faults' = faults + 1

\* A delete call has checked that o may go and has not deleted it yet.
Leaving(o) == \E d \in Calls : at[d] = "delete" /\ obj[d] = o

\* Call d has seen o live and will link to it, or make a run of it.
Relies(d, o) == \/ at[d] \in {"create", "list", "unlink", "link"} /\ want[d] = o
                \/ at[d] = "intake" /\ obj[d] = o

Relinking(d, a) == obj[d] = a /\ at[d] \in {"list", "unlink", "link"}

-----------------------------------------------------------------------------
(* Faulty variants of actions below; no behaviour uses them. *)

\* The old edges are looked up under another name and never found.
ListNoEdges(c) ==
  /\ at[c] = "list"
  /\ Goto(c, "unlink") /\ old' = [old EXCEPT ![c] = {}]
  /\ UNCHANGED <<graph, obj, want, field, value, snap, newRun, faults, history>>

\* UpdateAgent takes the new provider as it comes, without GetProvider.
VerifyProviderUnread(c) ==
  /\ at[c] = "verify" /\ Goto(c, "list")
  /\ crossed' = IF \E d \in Calls \ {c} : Relinking(d, obj[c]) THEN crossed \cup {obj[c]} ELSE crossed
  /\ UNCHANGED <<graph, locals, faults, stale, late, blind>>

\* The runs that count are those an edge already links to the agent, as the
\* comment in DeleteAgent would have it.
BeginDeleteAgentByEdge(c) ==
  /\ at[c] = "idle"
  /\ \E a \in Agents :
       /\ life[a] = "live" /\ \A r \in Runs : run[r] = "active" => runAgent[r] # a
       /\ obj' = [obj EXCEPT ![c] = a]
  /\ Goto(c, "delete")
  /\ UNCHANGED <<graph, want, field, value, snap, old, newRun, faults, history>>

\* The fields the request leaves empty are written too.
WriteUpdateZeroes(c) ==
  /\ at[c] = "write" /\ life[obj[c]] = "live"
  /\ props' = [props EXCEPT ![obj[c]] = [f \in Fields |-> IF f = field[c] THEN value[c] ELSE None]]
  /\ Return(c)
  /\ stale' = (stale \cup {d \in Calls : at[d] = "write" /\ obj[d] = obj[c]}) \ {c}
  /\ UNCHANGED <<life, edge, cut, run, runAgent, faults, crossed, blind>>

-----------------------------------------------------------------------------
Init ==
  /\ life = [o \in Objects |-> "unborn"]
  /\ props = [o \in Objects |-> Blank]
  /\ edge = [e \in Edges |-> NoEdge] /\ cut = {}
  /\ run = [r \in Runs |-> "none"] /\ runAgent = [r \in Runs |-> None]
  /\ at = [c \in Calls |-> "idle"]
  /\ obj = [c \in Calls |-> None] /\ want = [c \in Calls |-> None]
  /\ field = [c \in Calls |-> None] /\ value = [c \in Calls |-> None]
  /\ snap = [c \in Calls |-> Blank] /\ old = [c \in Calls |-> {}]
  /\ newRun = [c \in Calls |-> None]
  /\ faults = 0
  /\ stale = {} /\ crossed = {} /\ late = {} /\ blind = {}

-----------------------------------------------------------------------------
(* CreateProvider, CreateAgent *)

CreateProvider(c) ==
  /\ at[c] = "idle"
  /\ \E p \in Providers : life[p] = "unborn" /\ life' = [life EXCEPT ![p] = "live"]
  /\ UNCHANGED <<props, edge, cut, run, runAgent, at, locals, faults, history>>

\* GetProvider, before the agent is created.
BeginCreateAgent(c) ==
  /\ at[c] = "idle"
  /\ \E p \in Providers : life[p] = "live" /\ want' = [want EXCEPT ![c] = p]
  /\ Goto(c, "create")
  /\ UNCHANGED <<graph, obj, field, value, snap, old, newRun, faults, history>>

CreateAgent(c) ==
  /\ at[c] = "create"
  /\ \E a \in Agents :
       /\ life[a] = "unborn"
       /\ life' = [life EXCEPT ![a] = "live"]
       /\ obj' = [obj EXCEPT ![c] = a]
  /\ Goto(c, "link")
  /\ UNCHANGED <<props, edge, cut, run, runAgent, want, field, value, snap, old, newRun, faults, history>>

\* The uses_provider edge; the last write of CreateAgent and UpdateAgent.
Link(c) ==
  /\ at[c] = "link"
  /\ \E e \in Edges :
       /\ Unused(e) /\ edge' = [edge EXCEPT ![e] = [agent |-> obj[c], provider |-> want[c]]]
       /\ blind' = IF c \in late \/ Leaving(want[c]) THEN blind \cup {e} ELSE blind
  /\ Return(c)
  /\ UNCHANGED <<life, props, cut, run, runAgent, faults, stale, crossed>>

-----------------------------------------------------------------------------
(* UpdateProvider, UpdateAgent *)

\* GetEntity and the copy of its properties.  A request sets one field, or
\* asks an agent for another provider, or both.
BeginUpdate(c) ==
  /\ at[c] = "idle"
  /\ \E o \in Objects, f \in Fields \cup {None}, v \in Values \cup {None}, p \in Providers \cup {None} :
       /\ life[o] = "live" /\ (o \in Providers => p = None) /\ (f = None <=> v = None)
       /\ f # None \/ p # None
       /\ obj' = [obj EXCEPT ![c] = o] /\ want' = [want EXCEPT ![c] = p]
       /\ field' = [field EXCEPT ![c] = f] /\ value' = [value EXCEPT ![c] = v]
       /\ snap' = [snap EXCEPT ![c] = props[o]]
  /\ Goto(c, "write")
  /\ UNCHANGED <<graph, old, newRun, faults, history>>

\* cloneProps with the field the request sets.
Rewritten(c) == [f \in Fields |-> IF f = field[c] THEN value[c] ELSE snap[c][f]]

\* What the rest of UpdateAgent no longer uses.
DropRequest(c) ==
  /\ field' = [field EXCEPT ![c] = None] /\ value' = [value EXCEPT ![c] = None]
  /\ snap' = [snap EXCEPT ![c] = Blank]
  /\ UNCHANGED <<obj, want, old, newRun>>

\* Every property is written back: the requested one changed, the others as
\* they were read.  An entity deleted since is not found.
WriteUpdate(c) ==
  /\ at[c] = "write"
  /\ \/ /\ life[obj[c]] = "live"
        /\ props' = [props EXCEPT ![obj[c]] = Rewritten(c)]
        /\ IF want[c] = None THEN Return(c) ELSE Goto(c, "verify") /\ DropRequest(c) /\ UNCHANGED late
        /\ stale' = (stale \cup {d \in Calls : at[d] = "write" /\ obj[d] = obj[c]}) \ {c}
     \/ /\ life[obj[c]] # "live"
        /\ Return(c) /\ UNCHANGED props
        /\ stale' = stale \ {c}
  /\ UNCHANGED <<life, edge, cut, run, runAgent, faults, crossed, blind>>

\* GetProvider for the new provider; the fields are already written.
VerifyProvider(c) ==
  /\ at[c] = "verify"
  /\ \/ /\ life[want[c]] = "live" /\ Goto(c, "list") /\ UNCHANGED <<locals, late>>
        /\ crossed' = IF \E d \in Calls \ {c} : Relinking(d, obj[c]) THEN crossed \cup {obj[c]} ELSE crossed
     \/ life[want[c]] # "live" /\ Return(c) /\ UNCHANGED crossed
  /\ UNCHANGED <<graph, faults, stale, blind>>

ListEdges(c) ==
  /\ at[c] = "list"
  /\ Goto(c, "unlink") /\ old' = [old EXCEPT ![c] = EdgesOf(obj[c])]
  /\ UNCHANGED <<graph, obj, want, field, value, snap, newRun, faults, history>>

\* The listed edges are deleted one by one; one that is gone already ends the
\* call before the new edge is made.
Unlink(c) ==
  /\ at[c] = "unlink"
  /\ \/ \E e \in old[c] \cap Existing :
          /\ cut' = cut \cup {e} /\ edge' = [edge EXCEPT ![e] = NoEdge]
          /\ old' = [old EXCEPT ![c] = @ \ {e}]
          /\ UNCHANGED <<at, obj, want, field, value, snap, newRun, late>>
     \/ old[c] \cap cut # {} /\ Return(c) /\ UNCHANGED <<edge, cut>>
     \/ old[c] = {} /\ Goto(c, "link") /\ UNCHANGED <<edge, cut, locals, late>>
  /\ UNCHANGED <<life, props, run, runAgent, faults, stale, crossed, blind>>

-----------------------------------------------------------------------------
(* DeleteProvider, DeleteAgent *)

\* No uses_provider edge leads to the provider.
BeginDeleteProvider(c) ==
  /\ at[c] = "idle"
  /\ \E p \in Providers : life[p] = "live" /\ EdgesTo(p) = {} /\ obj' = [obj EXCEPT ![c] = p]
  /\ Goto(c, "delete")
  /\ UNCHANGED <<graph, want, field, value, snap, old, newRun, faults, history>>

ActiveRuns == {r \in Runs : run[r] = "active"}

\* The agent goes when no run of the agency is active, whoever's run it is.
BeginDeleteAgent(c) ==
  /\ at[c] = "idle"
  /\ \E a \in Agents :
       /\ life[a] = "live"
       /\ obj' = [obj EXCEPT ![c] = a]
  /\ ActiveRuns = {} /\ Goto(c, "delete")
  /\ UNCHANGED <<graph, want, field, value, snap, old, newRun, faults, history>>

DeleteEntity(c) ==
  /\ at[c] = "delete"
  /\ life' = [life EXCEPT ![obj[c]] = "deleted"]
  /\ Idle(c)
  /\ late' = late \cup {d \in Calls : Relies(d, obj[c])}
  /\ UNCHANGED <<props, edge, cut, run, runAgent, faults, stale, crossed, blind>>

-----------------------------------------------------------------------------
(* The runs of an agent *)

\* IntakeRun reads the agent, its edge and its provider, then asks the LLM.
BeginIntakeRun(c) ==
  /\ at[c] = "idle"
  /\ \E a \in Agents :
       /\ life[a] = "live" /\ \E e \in EdgesOf(a) : life[edge[e].provider] = "live"
       /\ obj' = [obj EXCEPT ![c] = a]
  /\ Goto(c, "intake")
  /\ UNCHANGED <<graph, want, field, value, snap, old, newRun, faults, history>>

\* yieldRun: the run stops being active; its successor is still to be made.
YieldRun(c) ==
  /\ at[c] = "idle"
  /\ \E r \in ActiveRuns :
       /\ runAgent[r] # None
       /\ run' = [run EXCEPT ![r] = "over"]
       /\ obj' = [obj EXCEPT ![c] = runAgent[r]]
       /\ late' = IF r \in blind THEN late \cup {c} ELSE late
  /\ Goto(c, "intake")
  /\ UNCHANGED <<life, props, edge, cut, runAgent, want, field, value, snap, old, newRun, faults,
                 stale, crossed, blind>>

\* The run is created active, in pending_intake or pending_execution.
CreateRun(c) ==
  /\ at[c] = "intake"
  /\ \E r \in Runs :
       /\ run[r] = "none"
       /\ run' = [run EXCEPT ![r] = "active"]
       /\ newRun' = [newRun EXCEPT ![c] = r]
       /\ blind' = IF c \in late \/ Leaving(obj[c]) THEN blind \cup {r} ELSE blind
  /\ Goto(c, "linkRun")
  /\ UNCHANGED <<life, props, edge, cut, runAgent, obj, want, field, value, snap, old, faults,
                 stale, crossed, late>>

LinkRun(c) ==
  /\ at[c] = "linkRun"
  /\ runAgent' = [runAgent EXCEPT ![newRun[c]] = obj[c]]
  /\ Return(c)
  /\ UNCHANGED <<life, props, edge, cut, run, faults, stale, crossed, blind>>

\* An execution reaches completed or failed (RunLifecycle says how).
EndRun(r) ==
  /\ run[r] = "active" /\ runAgent[r] # None
  /\ run' = [run EXCEPT ![r] = "over"]
  /\ UNCHANGED <<life, props, edge, cut, runAgent, at, locals, faults, history>>

\* Any store operation but the first fails and the call returns its error;
\* what it wrote before stays.
StoreFails(c) ==
  /\ at[c] # "idle" /\ Fault
  /\ Return(c)
  /\ stale' = stale \ {c}
  /\ UNCHANGED <<graph, crossed, blind>>

-----------------------------------------------------------------------------
Step(c) ==
  \/ CreateProvider(c) \/ BeginCreateAgent(c) \/ CreateAgent(c) \/ Link(c)
  \/ BeginUpdate(c) \/ WriteUpdate(c) \/ VerifyProvider(c) \/ ListEdges(c) \/ Unlink(c)
  \/ BeginDeleteProvider(c) \/ BeginDeleteAgent(c) \/ DeleteEntity(c)
  \/ BeginIntakeRun(c) \/ YieldRun(c) \/ CreateRun(c) \/ LinkRun(c)
  \/ StoreFails(c)

Next == (\E c \in Calls : Step(c)) \/ \E r \in Runs : EndRun(r)

Spec == Init /\ [][Next]_vars

-----------------------------------------------------------------------------
(* Properties *)

TypeOK ==
  /\ life \in [Objects -> {"unborn", "live", "deleted"}]
  /\ props \in [Objects -> [Fields -> Values \cup {None}]]
  /\ edge \in [Edges -> Links \cup {NoEdge}] /\ cut \subseteq Edges
  /\ run \in [Runs -> {"none", "active", "over"}]
  /\ runAgent \in [Runs -> Agents \cup {None}]
  /\ at \in [Calls -> {"idle", "create", "link", "write", "verify", "list", "unlink",
                       "delete", "intake", "linkRun"}]
  /\ obj \in [Calls -> Objects \cup {None}] /\ want \in [Calls -> Providers \cup {None}]
  /\ field \in [Calls -> Fields \cup {None}] /\ value \in [Calls -> Values \cup {None}]
  /\ snap \in [Calls -> [Fields -> Values \cup {None}]] /\ old \in [Calls -> SUBSET Edges]
  /\ newRun \in [Calls -> Runs \cup {None}]
  /\ faults \in Nat
  /\ stale \subseteq Calls /\ crossed \subseteq Agents
  /\ late \subseteq Calls /\ blind \subseteq Edges \cup Runs

\* An agent nobody is relinking has exactly one provider, unless two calls
\* replaced it at the same time or a store failure left the replacement half
\* done (the delete-then-create of UpdateAgent, the two writes of CreateAgent).
AgentHasItsProvider ==
  \A a \in Agents : /\ life[a] = "live" /\ a \notin crossed /\ faults = 0
                    /\ \A c \in Calls : ~Relinking(c, a)
                    => Cardinality(EdgesOf(a)) = 1

\* No edge leads to a deleted provider, unless its call had looked the provider
\* up before the deletion, or made the edge between the deletion's check and its
\* write: a call that looks it up later makes no edge, and an edge made before
\* the check keeps the provider (CreateAgent, UpdateAgent, DeleteProvider).
ProviderKept == \A e \in Existing : life[edge[e].provider] = "deleted" => e \in blind

\* No active run belongs to a deleted agent, unless its call had read the agent
\* before the deletion or made the run between the deletion's check and its
\* write, or it succeeds such a run: a run that is created but not linked to its
\* agent yet keeps the agent too (IntakeRun, yieldRun, DeleteAgent).
RunKeepsAgent ==
  \A r \in ActiveRuns : runAgent[r] # None /\ life[runAgent[r]] = "deleted" => r \in blind

\* A field changes only when a request names it, unless the call that writes
\* had read the entity before another one wrote it (cloneProps).
FieldsFollowRequests ==
  [][\A o \in Objects, f \in Fields : props'[o][f] # props[o][f] =>
       \E c \in Calls : at[c] = "write" /\ at'[c] # "write" /\ obj[c] = o
                        /\ (field[c] = f \/ c \in stale)]_vars
=============================================================================
