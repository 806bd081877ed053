------------------------ MODULE PromptContext_proofs ------------------------
(* The prompt of a session for any tree, any limit, any answers and edits:  *)
(* its parts, the results of its precalls, the repository its files are     *)
(* from, and - last and longest - the file dictionary, which is the branch. *)
EXTENDS PromptContext, FiniteSetTheorems, SequenceTheorems, TLAPS

-----------------------------------------------------------------------------
(* The order of the requests *)

\* Stages up to the repositories, the todo, and its results.
ToRepositories == {"catalogue", "task", "project", "repositories"}
ToCount == ToRepositories \cup {"todo", "count"}
ToSearch == ToCount \cup {"precalls", "search"}

\* A stage is reached only for a run that names what it fetches.
StageInv ==
  /\ at \in Stages \cup {Hung}
  /\ at \in {"task", "project"} => Parsed /\ run.task
  /\ at \in Stages \ {"catalogue", "history", "done"} => Parsed
  /\ at \in {"todo", "count", "precalls", "search"} => run.todo
  /\ at = "count" => run.task
  /\ at \in ToRepositories \cup {"todo", "count"} => "todo" \notin failed

\* The walk of the tree goes on, or ends.
LEMMA WalkStage == \A es : Walk(es) => at' \in {"tree", "files", "history"}
BY DEF Walk

LEMMA StageStep == StageInv /\ [Next]_vars => StageInv'
<1> SUFFICES ASSUME StageInv, [Next]_vars PROVE StageInv'
  OBVIOUS
<1> USE DEF StageInv, Hung, Stages, Parsed, Goto, Miss, ToRepositories
<1>1. CASE FetchCatalogue
  BY <1>1 DEF FetchCatalogue
<1>2. CASE FetchTask
  BY <1>2 DEF FetchTask
<1>3. CASE FetchProject
  BY <1>3 DEF FetchProject
<1>4. CASE FetchRepositories
  BY <1>4 DEF FetchRepositories, Branch, BeginWalk
<1>5. CASE FetchTodo
  BY <1>5 DEF FetchTodo, Branch, AfterMeta
<1>6. CASE FetchRunCount
  BY <1>6 DEF FetchRunCount, Branch, AfterMeta
<1>7. CASE FetchPrecalls
  BY <1>7 DEF FetchPrecalls, Branch
<1>8. CASE Search
  BY <1>8 DEF Search, Branch
<1>9. CASE ListDirectory
  <2>1. at' \in {"tree", "files", "history"} /\ at = "tree" /\ UNCHANGED <<run, failed>>
    BY <1>9, WalkStage DEF ListDirectory
  <2> QED
    BY <2>1
<1>10. CASE ReadFile
  BY <1>10 DEF ReadFile
<1>11. CASE LoadHistory
  BY <1>11 DEF LoadHistory
<1>12. CASE EditTodo
  BY <1>12 DEF EditTodo, Edit
<1>13. ASSUME NEW f \in Files, Commit(f) PROVE StageInv'
  BY <1>13 DEF Commit, Edit
<1>15. CASE Hang
  BY <1>15 DEF Hang, Hung, locals, walk, world, changes
<1>14. CASE UNCHANGED vars
  BY <1>14 DEF vars
<1> QED
  BY <1>1, <1>2, <1>3, <1>4, <1>5, <1>6, <1>7, <1>8, <1>9, <1>10, <1>11, <1>12, <1>13, <1>14, <1>15
     DEF Next, Assemble, Others

LEMMA InitStage == Init => StageInv
BY DEF Init, StageInv, Stages, ToRepositories

LEMMA Staged == Spec => []StageInv
BY InitStage, StageStep, PTL DEF Spec

-----------------------------------------------------------------------------
(* The parts with a request of their own *)

\* Until its stage is over a part is open: not in the prompt, not refused.
Part(x, stage, open) ==
  IF at \in open THEN x \notin has /\ stage \notin failed
  ELSE x \in has <=> Applies(x) /\ Needs(x) \cap failed = {}

PartInv ==
  at # Hung =>
    /\ Part("catalogue", "catalogue", {"catalogue"})
    /\ Part("task", "task", {"catalogue", "task"})
    /\ Part("repositories", "repositories", ToRepositories)
    /\ Part("meta", "todo", ToRepositories \cup {"todo"})
    /\ Part("count", "count", ToCount)
    /\ Part("history", "history", Stages \ {"done"})

LEMMA PartStep == StageInv /\ PartInv /\ [Next]_vars => PartInv'
<1> SUFFICES ASSUME StageInv, PartInv, [Next]_vars PROVE PartInv'
  OBVIOUS
<1> USE DEF StageInv, Hung, Stages, Parsed, Goto, Miss, PartInv, Part, Applies, Needs, ToRepositories, ToCount
<1>1. CASE FetchCatalogue
  BY <1>1 DEF FetchCatalogue, locals, walk, world, changes
<1>2. CASE FetchTask
  BY <1>2 DEF FetchTask, walk, world, changes
<1>3. CASE FetchProject
  BY <1>3 DEF FetchProject, walk, world, changes
<1>4. CASE FetchRepositories
  BY <1>4 DEF FetchRepositories, Branch, world, changes
<1>5. CASE FetchTodo
  BY <1>5 DEF FetchTodo, Branch, AfterMeta, world, changes
<1>6. CASE FetchRunCount
  BY <1>6 DEF FetchRunCount, locals, Branch, AfterMeta, world, changes
<1>7. CASE FetchPrecalls
  BY <1>7 DEF FetchPrecalls, Branch, world, changes
<1>8. CASE Search
  BY <1>8 DEF Search, Branch, world, changes
<1>9. CASE ListDirectory
  <2>1. at' \in {"tree", "files", "history"} /\ at = "tree"
    BY <1>9, WalkStage DEF ListDirectory
  <2>2. UNCHANGED <<run, world, locals, dict, has, failed, changes>>
    BY <1>9 DEF ListDirectory
  <2> QED
    BY <2>1, <2>2 DEF world, locals, changes
<1>10. CASE ReadFile
  BY <1>10 DEF ReadFile, locals, world, changes
<1>11. CASE LoadHistory
  BY <1>11 DEF LoadHistory, locals, walk, world, changes
<1>12. CASE EditTodo
  BY <1>12 DEF EditTodo, Edit, locals, walk
<1>13. ASSUME NEW f \in Files, Commit(f) PROVE PartInv'
  BY <1>13 DEF Commit, Edit, locals, walk
<1>15. CASE Hang
  BY <1>15 DEF Hang, Hung, locals, walk, world, changes
<1>14. CASE UNCHANGED vars
  BY <1>14 DEF vars, world, locals, walk, changes
<1> QED
  BY <1>1, <1>2, <1>3, <1>4, <1>5, <1>6, <1>7, <1>8, <1>9, <1>10, <1>11, <1>12, <1>13, <1>14, <1>15
     DEF Next, Assemble, Others

-----------------------------------------------------------------------------
(* The results are those of the todo's precalls *)

\* A todo nobody edited is read twice alike; what is kept between the reads
\* is what it holds.
PrecallInv ==
  ~redone /\ at # Hung =>
    /\ todoRec # 0 => Parsed /\ run.todo
    /\ at \in {"count", "precalls", "search"} => precalls = todoRec
    /\ at \in {"precalls", "search"} => repoName # 0
    /\ at \in ToSearch => results = 0
    /\ at \in ToRepositories => repoName = 0
    /\ at \notin ToSearch =>
         /\ results \in {0, todoRec}
         /\ Parsed /\ run.todo /\ repoName # 0 /\ {"todo", "precalls", "search"} \cap failed = {}
              => results = todoRec

LEMMA PrecallStep == StageInv /\ PrecallInv /\ [Next]_vars => PrecallInv'
<1> SUFFICES ASSUME StageInv, PrecallInv, [Next]_vars PROVE PrecallInv'
  OBVIOUS
<1> USE DEF StageInv, Hung, Stages, Parsed, Goto, Miss, PrecallInv, ToRepositories, ToCount, ToSearch
<1>1. CASE FetchCatalogue
  BY <1>1 DEF FetchCatalogue, locals, walk, world, changes
<1>2. CASE FetchTask
  BY <1>2 DEF FetchTask, walk, world, changes
<1>3. CASE FetchProject
  BY <1>3 DEF FetchProject, walk, world, changes
<1>4. CASE FetchRepositories
  BY <1>4 DEF FetchRepositories, Branch, world, changes
<1>5. CASE FetchTodo
  BY <1>5 DEF FetchTodo, Branch, AfterMeta, world, changes
<1>6. CASE FetchRunCount
  BY <1>6 DEF FetchRunCount, locals, Branch, AfterMeta, world, changes
<1>7. CASE FetchPrecalls
  BY <1>7 DEF FetchPrecalls, Branch, world, changes
<1>8. CASE Search
  BY <1>8 DEF Search, Branch, world, changes
<1>9. CASE ListDirectory
  <2>1. at' \in {"tree", "files", "history"} /\ at = "tree"
    BY <1>9, WalkStage DEF ListDirectory
  <2>2. UNCHANGED <<run, world, locals, dict, has, failed, changes>>
    BY <1>9 DEF ListDirectory
  <2> QED
    BY <2>1, <2>2 DEF world, locals, changes
<1>10. CASE ReadFile
  BY <1>10 DEF ReadFile, locals, world, changes
<1>11. CASE LoadHistory
  BY <1>11 DEF LoadHistory, locals, walk, world, changes
<1>12. CASE EditTodo
  BY <1>12 DEF EditTodo, Edit, locals, walk
<1>13. ASSUME NEW f \in Files, Commit(f) PROVE PrecallInv'
  BY <1>13 DEF Commit, Edit, locals, walk
<1>15. CASE Hang
  BY <1>15 DEF Hang, Hung, locals, walk, world, changes
<1>14. CASE UNCHANGED vars
  BY <1>14 DEF vars, world, locals, walk, changes
<1> QED
  BY <1>1, <1>2, <1>3, <1>4, <1>5, <1>6, <1>7, <1>8, <1>9, <1>10, <1>11, <1>12, <1>13, <1>14, <1>15
     DEF Next, Assemble, Others

\* The results in the prompt are those of the precalls the todo holds, unless
\* it was edited between its two reads, and they are missing only when a
\* request for them failed or no repository is known.
THEOREM ResultsFollowTodo == Spec => []PrecallsFollowTodo
<1>1. Init => PrecallInv
  BY DEF Init, PrecallInv, ToRepositories, ToCount, ToSearch
<1>2. PrecallInv => PrecallsFollowTodo
  BY DEF PrecallInv, PrecallsFollowTodo, ToRepositories, ToCount, ToSearch, Hung
<1> QED
  BY <1>1, <1>2, PrecallStep, Staged, PTL DEF Spec

-----------------------------------------------------------------------------
(* The files are those of the project's repository *)

\* Files are read for a task that was read, in the repository chosen then; the
\* project's name is kept until the choice.
Wants == taskRec.project /\ "project" \notin failed
RepoInv ==
  /\ task \in {Absent, taskRec}
  /\ at \in {"catalogue", "task"} => dict = <<>> /\ repoName = 0 /\ task = Absent
  /\ at = "project" => task = taskRec
  /\ at \in ToRepositories => dict = <<>> /\ repoName = 0
  /\ at = "repositories" /\ task.branch /\ Wants => wanted = projectRepo
  /\ at \in {"tree", "files"} \/ dict # <<>> => task.branch /\ repoName # 0
  /\ at \notin ToRepositories /\ repoName # 0 /\ task.branch /\ Wants /\ projectRepo \in 1..repoList
       => repoName = projectRepo

LEMMA RepoStep == StageInv /\ RepoInv /\ [Next]_vars => RepoInv'
<1> SUFFICES ASSUME StageInv, RepoInv, [Next]_vars PROVE RepoInv'
  OBVIOUS
<1> USE DEF StageInv, Hung, Stages, Parsed, Goto, Miss, RepoInv, ToRepositories, Wants, Absent
<1>1. CASE FetchCatalogue
  BY <1>1 DEF FetchCatalogue, locals, walk, world, changes
<1>2. CASE FetchTask
  BY <1>2 DEF FetchTask, walk, world, changes
<1>3. CASE FetchProject
  BY <1>3 DEF FetchProject, walk, world, changes
<1>4. CASE FetchRepositories
  BY <1>4 DEF FetchRepositories, Branch, world, changes, ChooseRepo
<1>5. CASE FetchTodo
  BY <1>5 DEF FetchTodo, Branch, AfterMeta, world, changes
<1>6. CASE FetchRunCount
  BY <1>6 DEF FetchRunCount, locals, Branch, AfterMeta, world, changes
<1>7. CASE FetchPrecalls
  BY <1>7 DEF FetchPrecalls, Branch, world, changes
<1>8. CASE Search
  BY <1>8 DEF Search, Branch, world, changes
<1>9. CASE ListDirectory
  <2>1. at' \in {"tree", "files", "history"} /\ at = "tree"
    BY <1>9, WalkStage DEF ListDirectory
  <2>2. UNCHANGED <<run, world, locals, dict, has, failed, changes>>
    BY <1>9 DEF ListDirectory
  <2> QED
    BY <2>1, <2>2 DEF world, locals, changes
<1>10. CASE ReadFile
  BY <1>10 DEF ReadFile, locals, world, changes
<1>11. CASE LoadHistory
  BY <1>11 DEF LoadHistory, locals, walk, world, changes
<1>12. CASE EditTodo
  BY <1>12 DEF EditTodo, Edit, locals, walk
<1>13. ASSUME NEW f \in Files, Commit(f) PROVE RepoInv'
  BY <1>13 DEF Commit, Edit, locals, walk
<1>15. CASE Hang
  BY <1>15 DEF Hang, Hung, locals, walk, world, changes
<1>14. CASE UNCHANGED vars
  BY <1>14 DEF vars, world, locals, walk, changes
<1> QED
  BY <1>1, <1>2, <1>3, <1>4, <1>5, <1>6, <1>7, <1>8, <1>9, <1>10, <1>11, <1>12, <1>13, <1>14, <1>15
     DEF Next, Assemble, Others

\* The files the model is told to write back are those of its project's
\* repository, when the project was read and names one that is listed.
THEOREM FilesOfTheProject == Spec => []RightRepository
<1>1. Init => RepoInv
  BY DEF Init, RepoInv, ToRepositories
<1>2. RepoInv /\ StageInv => RightRepository
  BY DEF RepoInv, RightRepository, ToRepositories, Wants
<1> QED
  BY <1>1, <1>2, RepoStep, Staged, PTL DEF Spec

-----------------------------------------------------------------------------
(* The order of the paths of a tree *)

Places == Dirs \cup Files

\* A path is a sequence of names.
LEMMA PlaceIsPath == \A x \in Places : x \in Seq(STRING) /\ Len(x) \in Nat /\ DOMAIN x = 1..Len(x)
BY TreeAssumption DEF Places

\* x leads to y when it is what y begins with.
LEMMA PrefixByParts ==
  ASSUME NEW x \in Seq(STRING), NEW y \in Seq(STRING)
  PROVE  IsPrefix(x, y) <=> Len(x) <= Len(y) /\ \A i \in 1..Len(x) : x[i] = y[i]
<1>1. SubSeq(x, 1, Len(x)) = [i \in 1..Len(x) |-> x[i]]
  OBVIOUS
<1>2. Len(x) <= Len(y) => SubSeq(y, 1, Len(x)) = [i \in 1..Len(x) |-> y[i]]
  OBVIOUS
<1> QED
  BY <1>1, <1>2 DEF IsPrefix

LEMMA PrefixReflexive == \A x \in Places : IsPrefix(x, x)
BY PrefixByParts, PlaceIsPath

LEMMA PrefixTransitive ==
  \A x, y, z \in Places : IsPrefix(x, y) /\ IsPrefix(y, z) => IsPrefix(x, z)
BY PrefixByParts, PlaceIsPath

\* Of two prefixes of a path the shorter one is a prefix of the other.
LEMMA PrefixesCompare ==
  ASSUME NEW x \in Places, NEW y \in Places, NEW z \in Places,
         IsPrefix(x, z), IsPrefix(y, z), Len(x) <= Len(y)
  PROVE  IsPrefix(x, y) /\ (Len(x) = Len(y) => x = y)
<1>1. IsPrefix(x, y)
  BY PrefixByParts, PlaceIsPath
<1>2. ASSUME Len(x) = Len(y) PROVE x = y
  <2>1. \A i \in 1..Len(x) : x[i] = y[i]
    BY <1>1, PrefixByParts, PlaceIsPath
  <2> QED
    BY <1>2, <2>1, PlaceIsPath
<1> QED
  BY <1>1, <1>2

LEMMA RootLeadsToAll == \A x \in Places : IsPrefix(Root, x)
BY PrefixByParts, PlaceIsPath, TreeAssumption DEF Places, Root

\* What a directory lists lies in it, one name deeper.
LEMMA EntryLiesIn ==
  ASSUME NEW d \in Dirs, NEW i \in DOMAIN Entries[d]
  PROVE  Entries[d][i] \in Places /\ IsPrefix(d, Entries[d][i]) /\ Len(Entries[d][i]) = Len(d) + 1
<1> DEFINE e == Entries[d][i]
<1>1. e \in Places /\ e # Root /\ Front(e) = d
  <2>1. e \in ToSet(Entries[d])
    BY DEF ToSet
  <2> QED
    BY <2>1, TreeAssumption DEF Places
<1>2. e \in Seq(STRING) /\ Len(e) \in Nat \ {0}
  BY <1>1, PlaceIsPath DEF Root
<1>3. d = [k \in 1..(Len(e) - 1) |-> e[k]]
  BY <1>1, <1>2 DEF Front
<1>4. d \in Seq(STRING) /\ Len(d) = Len(e) - 1
  BY <1>2, <1>3, PlaceIsPath DEF Places
<1>5. IsPrefix(d, e)
  BY <1>2, <1>3, <1>4, PrefixByParts
<1> QED
  BY <1>1, <1>2, <1>4, <1>5

\* A directory lists the way to whatever lies in it.
LEMMA EntryLeadsTo ==
  ASSUME NEW d \in Dirs, NEW y \in Places, IsPrefix(d, y), d # y
  PROVE  \E i \in DOMAIN Entries[d] : IsPrefix(Entries[d][i], y)
<1>1. /\ d \in Seq(STRING) /\ y \in Seq(STRING) /\ Len(d) \in Nat /\ Len(y) \in Nat
      /\ DOMAIN d = 1..Len(d) /\ DOMAIN y = 1..Len(y)
  BY PlaceIsPath DEF Places
<1>2. Len(d) < Len(y) /\ \A i \in 1..Len(d) : d[i] = y[i]
  <2>1. Len(d) <= Len(y) /\ \A i \in 1..Len(d) : d[i] = y[i]
    BY <1>1, PrefixByParts
  <2>2. Len(d) # Len(y)
    BY <1>1, <2>1, SeqEqual
  <2>3. Len(d) \in Nat /\ Len(y) \in Nat
    BY <1>1
  <2> QED
    BY <2>1, <2>2, <2>3
<1> DEFINE c == SubSeq(y, 1, Len(d) + 1)
<1>3. c = [i \in 1..(Len(d) + 1) |-> y[i]] /\ c \in Seq(STRING) /\ Len(c) = Len(d) + 1
  BY <1>1, <1>2
<1>4. c \in Places
  <2>1. CASE Len(d) + 1 = Len(y)
    <3>1. \A i \in 1..Len(c) : c[i] = y[i]
      BY <1>3
    <3>2. c = y
      BY <1>1, <1>3, <2>1, <3>1, SeqEqual
    <3> QED
      BY <3>2
  <2>2. CASE Len(d) + 1 < Len(y)
    BY <1>1, <2>2, TreeAssumption DEF Places
  <2>3. Len(d) \in Nat /\ Len(y) \in Nat
    BY <1>1
  <2> QED
    BY <1>2, <2>1, <2>2, <2>3
<1>5. Front(c) = d
  <2>1. Front(c) = [i \in 1..Len(d) |-> c[i]]
    BY <1>1, <1>3 DEF Front
  <2>2. \A i \in 1..Len(d) : c[i] = d[i]
    BY <1>1, <1>2, <1>3
  <2> QED
    BY <1>1, <2>1, <2>2
<1>6. c # Root
  <2>1. Len(Root) = 0
    BY DEF Root
  <2> QED
    BY <1>1, <1>3, <2>1
<1>7. c \in ToSet(Entries[d])
  BY <1>4, <1>5, <1>6, TreeAssumption DEF Places
<1>8. PICK i \in DOMAIN Entries[d] : Entries[d][i] = c
  BY <1>7 DEF ToSet
<1>9. IsPrefix(c, y)
  <2>1. Len(c) <= Len(y) /\ \A k \in 1..Len(c) : c[k] = y[k]
    BY <1>1, <1>2, <1>3
  <2> QED
    BY <1>1, <1>3, <2>1, PrefixByParts
<1> QED
  BY <1>8, <1>9

\* Nothing lies in a file.
LEMMA FileIsLeaf == \A f \in Files, y \in Places : IsPrefix(f, y) => y = f
<1> SUFFICES ASSUME NEW f \in Files, NEW y \in Places, IsPrefix(f, y), y # f PROVE FALSE
  OBVIOUS
<1>1. /\ f \in Seq(STRING) /\ y \in Seq(STRING) /\ Len(f) \in Nat /\ Len(y) \in Nat
      /\ DOMAIN f = 1..Len(f) /\ DOMAIN y = 1..Len(y)
  BY PlaceIsPath DEF Places
<1>2. Len(f) <= Len(y) /\ \A i \in 1..Len(f) : f[i] = y[i]
  BY <1>1, PrefixByParts
<1>3. Len(f) < Len(y)
  BY <1>1, <1>2, SeqEqual
<1>4. SubSeq(y, 1, Len(f)) = f
  <2>1. SubSeq(y, 1, Len(f)) = [i \in 1..Len(f) |-> y[i]]
    BY <1>1, <1>3
  <2> QED
    BY <1>1, <1>2, <2>1
<1>5. f \in Dirs
  <2>1. Len(f) \in 0..(Len(y) - 1)
    BY <1>1, <1>3
  <2> QED
    BY <1>4, <2>1, TreeAssumption DEF Places
<1> QED
  BY <1>5, TreeAssumption

\* What comes before comes before with all that lies in it.
LEMMA BeforeWithin ==
  ASSUME NEW x \in Places, NEW y \in Places, NEW u \in Places, NEW v \in Places,
         Before(x, y), IsPrefix(x, u), IsPrefix(y, v)
  PROVE  Before(u, v)
<1>0. PICK d \in Dirs : \E i, j \in DOMAIN Entries[d] :
        i < j /\ IsPrefix(Entries[d][i], x) /\ IsPrefix(Entries[d][j], y)
  BY DEF Before
<1>1. PICK i \in DOMAIN Entries[d], j \in DOMAIN Entries[d] :
        i < j /\ IsPrefix(Entries[d][i], x) /\ IsPrefix(Entries[d][j], y)
  BY <1>0
<1>2. IsPrefix(Entries[d][i], u) /\ IsPrefix(Entries[d][j], v)
  BY <1>1, EntryLiesIn, PrefixTransitive
<1> QED
  BY <1>1, <1>2 DEF Before

\* No two paths come before one another, and none before itself.
LEMMA BeforeIsStrict ==
  ASSUME NEW x \in Places, NEW y \in Places, Before(x, y), Before(y, x)
  PROVE  FALSE
<1>0. PICK d \in Dirs : \E i, j \in DOMAIN Entries[d] :
        i < j /\ IsPrefix(Entries[d][i], x) /\ IsPrefix(Entries[d][j], y)
  BY DEF Before
<1>1. PICK i \in DOMAIN Entries[d], j \in DOMAIN Entries[d] :
        i < j /\ IsPrefix(Entries[d][i], x) /\ IsPrefix(Entries[d][j], y)
  BY <1>0
<1>a. PICK g \in Dirs : \E k, l \in DOMAIN Entries[g] :
        k < l /\ IsPrefix(Entries[g][k], y) /\ IsPrefix(Entries[g][l], x)
  BY DEF Before
<1>2. PICK k \in DOMAIN Entries[g], l \in DOMAIN Entries[g] :
        k < l /\ IsPrefix(Entries[g][k], y) /\ IsPrefix(Entries[g][l], x)
  BY <1>a
<1> DEFINE ei == Entries[d][i]  ej == Entries[d][j]  gk == Entries[g][k]  gl == Entries[g][l]
<1>3. /\ ei \in Places /\ ej \in Places /\ gk \in Places /\ gl \in Places
      /\ Len(ei) = Len(d) + 1 /\ Len(ej) = Len(d) + 1 /\ Len(gk) = Len(g) + 1 /\ Len(gl) = Len(g) + 1
      /\ IsPrefix(d, ei) /\ IsPrefix(d, ej) /\ IsPrefix(g, gk) /\ IsPrefix(g, gl)
  BY EntryLiesIn
<1>4. d \in Places /\ g \in Places /\ Len(d) \in Nat /\ Len(g) \in Nat
  BY PlaceIsPath DEF Places
<1>5. DOMAIN Entries[d] \subseteq Nat /\ DOMAIN Entries[g] \subseteq Nat
  BY TreeAssumption DEF Places
<1>6. ei # ej /\ gk # gl
  BY <1>1, <1>2, <1>5, TreeAssumption DEF IsInjective
<1> HIDE DEF ei, ej, gk, gl
<1>7. IsPrefix(ei, x) /\ IsPrefix(ej, y) /\ IsPrefix(gk, y) /\ IsPrefix(gl, x)
  BY <1>1, <1>2 DEF ei, ej, gk, gl
<1>8. ASSUME Len(d) < Len(g) PROVE FALSE
  <2>1. IsPrefix(g, x) /\ IsPrefix(g, y)
    BY <1>3, <1>4, <1>7, PrefixTransitive
  <2>2. IsPrefix(ei, g) /\ IsPrefix(ej, g)
    BY <1>3, <1>4, <1>7, <1>8, <2>1, PrefixesCompare
  <2>3. ei = ej
    BY <1>3, <1>4, <2>2, PrefixesCompare
  <2> QED
    BY <1>6, <2>3
<1>9. ASSUME Len(g) < Len(d) PROVE FALSE
  <2>1. IsPrefix(d, x) /\ IsPrefix(d, y)
    BY <1>3, <1>4, <1>7, PrefixTransitive
  <2>2. IsPrefix(gk, d) /\ IsPrefix(gl, d)
    BY <1>3, <1>4, <1>7, <1>9, <2>1, PrefixesCompare
  <2>3. gk = gl
    BY <1>3, <1>4, <2>2, PrefixesCompare
  <2> QED
    BY <1>6, <2>3
<1>10. ASSUME Len(g) = Len(d) PROVE FALSE
  <2>1. ei = gl /\ ej = gk
    BY <1>3, <1>4, <1>7, <1>10, PrefixesCompare
  <2>2. d = g
    BY <1>3, <1>4, <1>7, <1>10, PrefixTransitive, PrefixesCompare
  <2>3. i = l /\ j = k
    BY <1>5, <2>1, <2>2, TreeAssumption DEF IsInjective, ei, ej, gk, gl
  <2> QED
    BY <1>1, <1>2, <1>5, <2>2, <2>3
<1> QED
  BY <1>4, <1>8, <1>9, <1>10

-----------------------------------------------------------------------------
(* What a listing returns *)

\* A set of numbers has a least one.
LEMMA LeastNumber == ASSUME NEW T \in SUBSET Nat, T # {} PROVE \E x \in T : \A y \in T : x <= y
<1>1. PICK x \in T : \A y \in T : <<y, x>> \notin OpToRel(<, Nat)
  BY NatLessThanWellFounded, WFMin
<1>2. \A y \in T : ~(y < x)
  BY <1>1 DEF OpToRel
<1> QED
  BY <1>2

\* InOrder enumerates a finite set of numbers.
LEMMA InOrderIs ==
  ASSUME NEW S \in SUBSET Nat, IsFiniteSet(S)
  PROVE  LET p == InOrder(S) IN
         /\ Cardinality(S) \in Nat /\ p \in [1..Cardinality(S) -> S]
         /\ \A j, k \in DOMAIN p : j < k => p[j] < p[k]
         /\ \A i \in S : \E k \in DOMAIN p : p[k] = i
<1> DEFINE n == Cardinality(S)
           upTo(i) == {j \in S : j <= i}
           rank == [i \in S |-> Cardinality(upTo(i))]
           inOrder(p) == \A j, k \in DOMAIN p : j < k => p[j] < p[k]
<1>1. n \in Nat /\ IsFiniteSet(1..n) /\ Cardinality(1..n) = n
  <2>1. n \in Nat
    BY FS_CardinalityType
  <2> QED
    BY <2>1, FS_Interval
<1>a. \A i \in S : upTo(i) \in SUBSET S /\ i \in upTo(i) /\ i \in Nat
  OBVIOUS
<1>b. \A i, j \in S : i < j => upTo(i) \in SUBSET upTo(j) /\ j \notin upTo(i)
  <2> SUFFICES ASSUME NEW i \in S, NEW j \in S, i < j, NEW k \in upTo(i)
               PROVE  k \in upTo(j) /\ j # k
    OBVIOUS
  <2>1. i \in Nat /\ j \in Nat /\ k \in Nat /\ k <= i /\ k \in S
    OBVIOUS
  <2> QED
    BY <2>1
<1> HIDE DEF upTo, n
<1>2. \A i \in S : IsFiniteSet(upTo(i)) /\ Cardinality(upTo(i)) \in 1..n
  <2> SUFFICES ASSUME NEW i \in S PROVE IsFiniteSet(upTo(i)) /\ Cardinality(upTo(i)) \in 1..n
    OBVIOUS
  <2>2. IsFiniteSet(upTo(i)) /\ Cardinality(upTo(i)) <= n
    BY <1>a, FS_Subset DEF n
  <2>3. Cardinality(upTo(i)) \in Nat /\ Cardinality(upTo(i)) # 0
    BY <1>a, <2>2, FS_CardinalityType, FS_EmptySet
  <2> QED
    BY <1>1, <2>2, <2>3
<1>3. \A i, j \in S : i < j => Cardinality(upTo(i)) < Cardinality(upTo(j))
  <2> SUFFICES ASSUME NEW i \in S, NEW j \in S, i < j PROVE Cardinality(upTo(i)) < Cardinality(upTo(j))
    OBVIOUS
  <2>1. upTo(i) \in SUBSET upTo(j) /\ j \in upTo(j) /\ j \notin upTo(i)
    BY <1>a, <1>b
  <2>2. Cardinality(upTo(i)) <= Cardinality(upTo(j)) /\ Cardinality(upTo(i)) # Cardinality(upTo(j))
    BY <1>2, <2>1, FS_Subset
  <2>3. Cardinality(upTo(i)) \in Nat /\ Cardinality(upTo(j)) \in Nat
    BY <1>1, <1>2
  <2> QED
    BY <2>2, <2>3
<1>4. rank \in Surjection(S, 1..n)
  <2>1. rank \in [S -> 1..n]
    BY <1>2
  <2>2. rank \in Injection(S, 1..n)
    <3>1. \A i, j \in S : rank[i] = rank[j] => i = j
      <4> SUFFICES ASSUME NEW i \in S, NEW j \in S, i # j PROVE rank[i] # rank[j]
        OBVIOUS
      <4>1. rank[i] \in Nat /\ rank[j] \in Nat
        BY <1>1, <2>1
      <4>2. i < j \/ j < i
        OBVIOUS
      <4> QED
        BY <1>3, <4>1, <4>2
    <3> QED
      BY <2>1, <3>1 DEF Injection, IsInjective
  <2> QED
    BY <1>1, <2>2, FS_Injection DEF n
<1>5. PICK p \in [1..n -> S] : inOrder(p)
  <2> DEFINE p == [k \in 1..n |-> CHOOSE i \in S : rank[i] = k]
  <2>1. \A k \in 1..n : p[k] \in S /\ rank[p[k]] = k
    BY <1>4 DEF Surjection
  <2>2. inOrder(p)
    <3> SUFFICES ASSUME NEW j \in 1..n, NEW k \in 1..n, j < k PROVE p[j] < p[k]
      OBVIOUS
    <3>1. p[j] \in Nat /\ p[k] \in Nat
      BY <2>1
    <3>2. p[j] \in S /\ p[k] \in S /\ rank[p[j]] = j /\ rank[p[k]] = k
      BY <2>1
    <3>3. ASSUME p[k] < p[j] PROVE FALSE
      <4>1. rank[p[k]] < rank[p[j]]
        BY <1>3, <3>2, <3>3
      <4> QED
        BY <1>1, <3>2, <4>1
    <3> HIDE DEF p
    <3>4. p[k] # p[j]
      BY <1>1, <3>2
    <3> QED
      BY <3>1, <3>3, <3>4
  <2>3. p \in [1..n -> S]
    BY <2>1
  <2> QED
    BY <2>2, <2>3
<1>6. InOrder(S) \in [1..n -> S] /\ inOrder(InOrder(S))
  BY <1>5 DEF InOrder, n
<1> DEFINE q == InOrder(S)
<1>7. q \in Injection(1..n, S)
  <2>1. \A j, k \in 1..n : q[j] = q[k] => j = k
    <3> SUFFICES ASSUME NEW j \in 1..n, NEW k \in 1..n, j < k PROVE q[j] # q[k]
      BY <1>1
    <3>1. q[j] < q[k] /\ q[j] \in Nat
      BY <1>6
    <3> QED
      BY <3>1
  <2> QED
    BY <1>6, <2>1 DEF Injection, IsInjective
<1>8. q \in Surjection(1..n, S)
  BY <1>1, <1>7, FS_Injection DEF n
<1> QED
  BY <1>1, <1>6, <1>8 DEF Surjection, n

\* What a listing holds: the entries that exist, in their order.
LEMMA ListingIs ==
  ASSUME NEW d \in Dirs
  PROVE  LET l == Listing(d) IN
         /\ l \in Seq(Places)
         /\ \A k \in DOMAIN l : IsPrefix(d, l[k]) /\ Exists(l[k])
         /\ \A j, k \in DOMAIN l : j < k => Before(l[j], l[k])
         /\ \A i \in DOMAIN Entries[d] : Exists(Entries[d][i]) => \E k \in DOMAIN l : l[k] = Entries[d][i]
<1> DEFINE here == {i \in DOMAIN Entries[d] : Exists(Entries[d][i])}
           p == InOrder(here)
           l == [k \in DOMAIN p |-> Entries[d][p[k]]]
<1>1. Entries[d] \in Seq(Places) /\ DOMAIN Entries[d] = 1..Len(Entries[d]) /\ Len(Entries[d]) \in Nat
  BY TreeAssumption DEF Places
<1>2. here \in SUBSET Nat /\ IsFiniteSet(here)
  <2>1. here \in SUBSET (1..Len(Entries[d]))
    BY <1>1
  <2>2. IsFiniteSet(1..Len(Entries[d]))
    BY <1>1, FS_Interval
  <2>3. IsFiniteSet(here)
    <3> HIDE DEF here
    <3> QED
      BY <2>1, <2>2, FS_Subset
  <2> QED
    BY <2>1, <2>3
<1>3. /\ Cardinality(here) \in Nat /\ p \in [1..Cardinality(here) -> here]
      /\ \A j, k \in DOMAIN p : j < k => p[j] < p[k]
      /\ \A i \in here : \E k \in DOMAIN p : p[k] = i
  BY <1>2, InOrderIs
<1>4. Listing(d) = l
  BY DEF Listing
<1> HIDE DEF p
<1>5. /\ \A k \in DOMAIN p : p[k] \in DOMAIN Entries[d] /\ Exists(Entries[d][p[k]])
      /\ DOMAIN p = 1..Cardinality(here)
      /\ DOMAIN l = DOMAIN p
  BY <1>3
<1>6. l \in Seq(Places)
  <2>0. \A i \in DOMAIN Entries[d] : Entries[d][i] \in Places
    BY EntryLiesIn
  <2>1. \A k \in DOMAIN p : Entries[d][p[k]] \in Places
    BY <1>5, <2>0
  <2> DEFINE n == Cardinality(here)
  <2>2. n \in Nat /\ DOMAIN p = 1..n
    BY <1>3, <1>5
  <2> HIDE DEF n, here
  <2>3. l \in [1..n -> Places]
    BY <2>1, <2>2
  <2> QED
    BY <2>2, <2>3
<1>7. \A k \in DOMAIN l : IsPrefix(d, l[k]) /\ Exists(l[k])
  BY <1>5, EntryLiesIn
<1>8. ASSUME NEW j \in DOMAIN l, NEW k \in DOMAIN l, j < k PROVE Before(l[j], l[k])
  <2>1. p[j] < p[k] /\ p[j] \in DOMAIN Entries[d] /\ p[k] \in DOMAIN Entries[d]
    BY <1>3, <1>5, <1>8
  <2>2. IsPrefix(Entries[d][p[j]], Entries[d][p[j]]) /\ IsPrefix(Entries[d][p[k]], Entries[d][p[k]])
    BY <2>1, EntryLiesIn, PrefixReflexive
  <2> QED
    BY <2>1, <2>2 DEF Before
<1>9. \A i \in DOMAIN Entries[d] : Exists(Entries[d][i]) => \E k \in DOMAIN l : l[k] = Entries[d][i]
  BY <1>3
<1> QED
  BY <1>4, <1>6, <1>7, <1>8, <1>9

-----------------------------------------------------------------------------
(* One step of the walk *)

\* Of the entries es the walk takes the first m, which are files, and stops at
\* a directory, at the end, or when the dictionary is full.
Takes(es, m) ==
  /\ m \in 0..Len(es) /\ \A i \in 1..m : es[i] \in Files
  /\ paths' = paths \o SubSeq(es, 1, m)
  /\ Len(paths) + m <= MaxFiles
  /\ \/ /\ at' = "tree" /\ m < Len(es) /\ es[m + 1] \in Dirs
        /\ pending' = SubSeq(es, m + 1, Len(es))
        /\ Len(paths) + m < MaxFiles
     \/ /\ at' = IF paths' = <<>> THEN "history" ELSE "files"
        /\ pending' = <<>>
        /\ m = Len(es) \/ Len(paths) + m = MaxFiles

\* Walk, without its SelectInSeq.
LEMMA WalkTakes ==
  ASSUME NEW es \in Seq(Places), paths \in Seq(Files), Len(paths) < MaxFiles, Walk(es)
  PROVE  \E m \in 0..Len(es) : Takes(es, m)
<1> DEFINE I == {i \in 1..Len(es) : es[i] \in Dirs}
           d == SelectInSeq(es, LAMBDA e : e \in Dirs)
           files == IF d = 0 THEN es ELSE SubSeq(es, 1, d - 1)
           room == MaxFiles - Len(paths)
           over == d = 0 \/ Len(files) >= room
           taken == IF Len(files) > room THEN SubSeq(files, 1, room) ELSE files
<1>0. Len(es) \in Nat /\ \A i \in 1..Len(es) : es[i] \in Places
  OBVIOUS
<1>1. /\ paths' = paths \o taken
      /\ pending' = IF over THEN <<>> ELSE SubSeq(es, d, Len(es))
      /\ at' = IF ~over THEN "tree" ELSE IF paths' = <<>> THEN "history" ELSE "files"
  BY Zenon DEF Walk
<1>2. d = IF I # {} THEN Min(I) ELSE 0
  BY Zenon DEF SelectInSeq
<1>3. d \in 0..Len(es) /\ (d # 0 => es[d] \in Dirs) /\ \A i \in 1..Len(es) : (d = 0 \/ i < d) => es[i] \notin Dirs
  <2>1. CASE I = {}
    <3>1. d = 0
      BY <1>2, <2>1
    <3>2. \A i \in 1..Len(es) : es[i] \notin Dirs
      BY <2>1
    <3> HIDE DEF d
    <3> QED
      BY <1>0, <3>1, <3>2
  <2>2. CASE I # {}
    <3>0. I \in SUBSET Nat
      OBVIOUS
    <3>1. \E i \in I : \A j \in I : i <= j
      <4> HIDE DEF I
      <4> QED
        BY <2>2, <3>0, LeastNumber
    <3>2. d = Min(I)
      BY <1>2, <2>2
    <3> HIDE DEF d
    <3>3. d \in I /\ \A j \in I : d <= j
      BY <3>1, <3>2 DEF Min
    <3>4. d \in 1..Len(es) /\ es[d] \in Dirs
      BY <3>3
    <3>5. \A i \in 1..Len(es) : i < d => es[i] \notin Dirs
      BY <1>0, <3>3, <3>4
    <3> QED
      BY <1>0, <3>4, <3>5
  <2> QED
    BY <2>1, <2>2
<1> HIDE DEF d
<1>4. room \in Nat \ {0} /\ Len(paths) \in Nat
  BY BoundAssumption
<1> DEFINE m == IF d = 0 THEN IF Len(es) > room THEN room ELSE Len(es)
                ELSE IF d - 1 > room THEN room ELSE d - 1
<1>5. files \in Seq(Places) /\ Len(files) = (IF d = 0 THEN Len(es) ELSE d - 1)
      /\ \A i \in 1..Len(files) : files[i] = es[i]
  BY <1>0, <1>3
<1>6. m \in 0..Len(es) /\ Len(paths) + m <= MaxFiles /\ \A i \in 1..m : es[i] \in Files
  <2>1. m \in 0..Len(es) /\ m <= room /\ (d # 0 => m < d)
    BY <1>0, <1>3, <1>4
  <2>2. Len(paths) + m <= MaxFiles
    BY <1>4, <2>1, BoundAssumption
  <2>3. \A i \in 1..m : i \in 1..Len(es) /\ (d = 0 \/ i < d)
    BY <1>0, <1>3, <2>1
  <2> QED
    BY <1>0, <1>3, <2>1, <2>2, <2>3 DEF Places
<1>7. taken = SubSeq(es, 1, m)
  <2>1. CASE Len(files) > room
    BY <1>0, <1>3, <1>4, <1>5, <2>1
  <2>2. CASE ~(Len(files) > room)
    BY <1>0, <1>3, <1>4, <1>5, <2>2
  <2> QED
    BY <2>1, <2>2
<1>8. CASE over
  <2>1. m = Len(es) \/ Len(paths) + m = MaxFiles
    BY <1>0, <1>3, <1>4, <1>5, <1>8, BoundAssumption
  <2> HIDE DEF m, taken
  <2> QED
    BY <1>1, <1>6, <1>7, <1>8, <2>1 DEF Takes
<1>9. CASE ~over
  <2>1. d # 0 /\ m = d - 1 /\ m + 1 = d /\ m < Len(es) /\ Len(paths) + m < MaxFiles
    BY <1>0, <1>3, <1>4, <1>5, <1>9, BoundAssumption
  <2>2. es[m + 1] \in Dirs
    BY <1>3, <2>1
  <2> HIDE DEF m, taken
  <2> QED
    BY <1>1, <1>6, <1>7, <1>9, <2>1, <2>2 DEF Takes
<1> QED
  BY <1>6, <1>8, <1>9

-----------------------------------------------------------------------------
(* Sequences of paths in order *)

\* Each path of s comes before the next ones; all of s comes before all of t;
\* f lies at or below one of s; the files present
\* in c whose directories are not in u; what s holds is such, or is in t.
Ordered(s) == \A i, j \in DOMAIN s : i < j => Before(s[i], s[j])
Follows(s, t) == \A i \in DOMAIN s, j \in DOMAIN t : Before(s[i], t[j])
Reached(s, f) == \E i \in DOMAIN s : IsPrefix(s[i], f)
ListedIn(c, u) == {f \in Files : c[f] # 0 /\ \A d \in Dirs : IsPrefix(d, f) => d \notin u}
Clean(s, c, t, u) ==
  \A i \in DOMAIN s : /\ s[i] \in Files \ t => c[s[i]] # 0
                      /\ \A d \in Dirs : IsPrefix(d, s[i]) => d \notin u

LEMMA SeqDomain == \A S : \A s \in Seq(S) : DOMAIN s = 1..Len(s) /\ Len(s) \in Nat /\ \A i \in DOMAIN s : s[i] \in S
OBVIOUS

LEMMA SeqIndex == \A S : \A s \in Seq(S) : Len(s) \in Nat /\ \A i \in DOMAIN s : i \in Nat /\ 1 <= i /\ i <= Len(s)
OBVIOUS

\* What SubSeq and concatenation make of the two sequences, index by index.
LEMMA SplitByParts ==
  ASSUME NEW ps \in Seq(Files), NEW es \in Seq(Places), NEW m \in 0..Len(es),
         \A i \in 1..m : es[i] \in Files
  PROVE  LET qs == ps \o SubSeq(es, 1, m)
             rest == SubSeq(es, m + 1, Len(es)) IN
         /\ qs \in Seq(Files) /\ rest \in Seq(Places)
         /\ Len(qs) = Len(ps) + m /\ Len(rest) = Len(es) - m
         /\ \A i \in DOMAIN qs : \/ i \in DOMAIN ps /\ qs[i] = ps[i]
                                 \/ i - Len(ps) \in DOMAIN es /\ i - Len(ps) \in 1..m /\ qs[i] = es[i - Len(ps)]
         /\ \A i \in DOMAIN ps : i \in DOMAIN qs /\ qs[i] = ps[i]
         /\ \A i \in 1..m : Len(ps) + i \in DOMAIN qs /\ qs[Len(ps) + i] = es[i]
         /\ \A i \in DOMAIN rest : m + i \in DOMAIN es /\ rest[i] = es[m + i]
         /\ \A i \in DOMAIN es : i > m => i - m \in DOMAIN rest /\ rest[i - m] = es[i]
<1> DEFINE hd == SubSeq(es, 1, m)
           rest == SubSeq(es, m + 1, Len(es))
           qs == ps \o hd
<1>1. /\ Len(es) \in Nat /\ Len(ps) \in Nat /\ m \in Nat /\ m <= Len(es)
      /\ DOMAIN es = 1..Len(es) /\ DOMAIN ps = 1..Len(ps)
  OBVIOUS
<1>2. hd \in Seq(Files) /\ Len(hd) = m /\ \A i \in 1..m : hd[i] = es[i]
  <2>1. hd = [i \in 1..m |-> es[i]]
    BY <1>1
  <2> QED
    BY <1>1, <2>1
<1>3. rest \in Seq(Places) /\ Len(rest) = Len(es) - m /\ \A i \in 1..(Len(es) - m) : rest[i] = es[m + i]
  <2>0. m + 1 \in Int /\ Len(es) \in Int
    BY <1>1
  <2>1. \A i \in (m + 1)..Len(es) : es[i] \in Places
    <3>1. \A i \in (m + 1)..Len(es) : i \in 1..Len(es)
      BY <1>1
    <3> QED
      BY <3>1
  <2>2. rest \in Seq(Places) /\ Len(rest) = Len(es) - m
    <3>1. /\ rest \in Seq(Places)
          /\ Len(rest) = IF m + 1 <= Len(es) THEN Len(es) - (m + 1) + 1 ELSE 0
      BY <2>0, <2>1, SubSeqProperties
    <3>2. Len(rest) = Len(es) - m
      <4> HIDE DEF rest
      <4>1. Len(es) \in Nat /\ m \in Nat /\ m <= Len(es)
        BY <1>1
      <4> QED
        BY <3>1, <4>1
    <3> QED
      BY <3>1, <3>2
  <2>3. \A i \in 1..(Len(es) - m) : rest[i] = es[m + i]
    <3> SUFFICES ASSUME NEW i \in 1..(Len(es) - m) PROVE rest[i] = es[m + i]
      OBVIOUS
    <3>0. i \in 1..(Len(es) - (m + 1) + 1)
      BY <1>1
    <3>1. rest[i] = es[(m + 1) + i - 1]
      BY <2>0, <2>1, <3>0, SubSeqProperties
    <3>2. (m + 1) + i - 1 = m + i
      BY <1>1
    <3> QED
      BY <3>1, <3>2
  <2> QED
    BY <2>2, <2>3
<1> HIDE DEF hd, rest
<1>4. /\ qs \in Seq(Files) /\ Len(qs) = Len(ps) + m /\ DOMAIN qs = 1..(Len(ps) + m)
      /\ \A i \in 1..(Len(ps) + m) : qs[i] = IF i <= Len(ps) THEN ps[i] ELSE hd[i - Len(ps)]
  BY <1>1, <1>2
<1> HIDE DEF qs
<1>5. \A i \in DOMAIN qs : \/ i \in DOMAIN ps /\ qs[i] = ps[i]
                           \/ i - Len(ps) \in DOMAIN es /\ i - Len(ps) \in 1..m /\ qs[i] = es[i - Len(ps)]
  <2> SUFFICES ASSUME NEW i \in DOMAIN qs, i > Len(ps)
               PROVE i - Len(ps) \in DOMAIN es /\ i - Len(ps) \in 1..m /\ qs[i] = es[i - Len(ps)]
    BY <1>1, <1>4
  <2>1. i - Len(ps) \in 1..m
    BY <1>1, <1>4
  <2> QED
    BY <1>1, <1>2, <1>4, <2>1
<1>6. \A i \in DOMAIN ps : i \in DOMAIN qs /\ qs[i] = ps[i]
  BY <1>1, <1>4
<1>7. \A i \in 1..m : Len(ps) + i \in DOMAIN qs /\ qs[Len(ps) + i] = es[i]
  <2> SUFFICES ASSUME NEW i \in 1..m PROVE Len(ps) + i \in DOMAIN qs /\ qs[Len(ps) + i] = es[i]
    OBVIOUS
  <2>1. Len(ps) + i \in 1..(Len(ps) + m) /\ ~(Len(ps) + i <= Len(ps)) /\ (Len(ps) + i) - Len(ps) = i
    BY <1>1
  <2> QED
    BY <1>2, <1>4, <2>1
<1>8. DOMAIN rest = 1..(Len(es) - m)
  BY <1>1, <1>3
<1>9. \A i \in DOMAIN rest : m + i \in DOMAIN es /\ rest[i] = es[m + i]
  BY <1>1, <1>3, <1>8
<1>10. \A i \in DOMAIN es : i > m => i - m \in DOMAIN rest /\ rest[i - m] = es[i]
  <2> SUFFICES ASSUME NEW i \in DOMAIN es, i > m PROVE i - m \in DOMAIN rest /\ rest[i - m] = es[i]
    OBVIOUS
  <2>1. i - m \in 1..(Len(es) - m) /\ m + (i - m) = i
    BY <1>1
  <2> QED
    BY <1>3, <1>8, <2>1
<1> QED
  BY <1>1, <1>3, <1>4, <1>5, <1>6, <1>7, <1>9, <1>10 DEF qs, rest, hd

\* The order of what was taken and of what is left.
LEMMA SplitInOrder ==
  ASSUME NEW ps \in Seq(Files), NEW es \in Seq(Places), NEW m \in 0..Len(es),
         \A i \in 1..m : es[i] \in Files,
         Ordered(ps), Ordered(es), Follows(ps, es)
  PROVE  LET qs == ps \o SubSeq(es, 1, m)
             rest == SubSeq(es, m + 1, Len(es)) IN
         Ordered(qs) /\ Ordered(rest) /\ Follows(qs, rest)
<1> DEFINE qs == ps \o SubSeq(es, 1, m)
           rest == SubSeq(es, m + 1, Len(es))
<1>1. /\ \A i \in DOMAIN qs : \/ i \in DOMAIN ps /\ qs[i] = ps[i]
                              \/ i - Len(ps) \in DOMAIN es /\ i - Len(ps) \in 1..m /\ qs[i] = es[i - Len(ps)]
      /\ \A i \in DOMAIN rest : m + i \in DOMAIN es /\ rest[i] = es[m + i]
      /\ qs \in Seq(Files) /\ rest \in Seq(Places)
  BY SplitByParts
<1>2. /\ DOMAIN qs \subseteq Nat /\ DOMAIN rest \subseteq Nat /\ DOMAIN es \subseteq Nat
      /\ Len(ps) \in Nat /\ DOMAIN ps = 1..Len(ps) /\ m \in Nat
      /\ \A i \in DOMAIN rest : i > 0
  <2>1. DOMAIN qs = 1..Len(qs) /\ DOMAIN rest = 1..Len(rest) /\ DOMAIN es = 1..Len(es)
    BY <1>1, SeqDomain
  <2>2. Len(ps) \in Nat /\ DOMAIN ps = 1..Len(ps)
    BY SeqDomain
  <2>3. Len(es) \in Nat
    BY SeqDomain
  <2> HIDE DEF qs, rest
  <2> QED
    BY <2>1, <2>2, <2>3
<1> HIDE DEF qs, rest
<1>3. ASSUME NEW i \in DOMAIN qs, NEW j \in DOMAIN qs, i < j PROVE Before(qs[i], qs[j])
  <2>1. CASE j \in DOMAIN ps /\ qs[j] = ps[j]
    <3>1. i \in DOMAIN ps /\ ~(i - Len(ps) \in 1..m)
      BY <1>2, <1>3, <2>1
    <3>2. qs[i] = ps[i]
      BY <1>1, <3>1
    <3> QED
      BY <1>3, <2>1, <3>1, <3>2 DEF Ordered
  <2>2. CASE j - Len(ps) \in DOMAIN es /\ qs[j] = es[j - Len(ps)]
    <3>1. CASE i \in DOMAIN ps /\ qs[i] = ps[i]
      BY <2>2, <3>1 DEF Follows
    <3>2. CASE i - Len(ps) \in DOMAIN es /\ qs[i] = es[i - Len(ps)]
      <4>1. i - Len(ps) < j - Len(ps)
        BY <1>2, <1>3
      <4> QED
        BY <2>2, <3>2, <4>1 DEF Ordered
    <3> QED
      BY <1>1, <3>1, <3>2
  <2> QED
    BY <1>1, <2>1, <2>2
<1>4. ASSUME NEW i \in DOMAIN rest, NEW j \in DOMAIN rest, i < j PROVE Before(rest[i], rest[j])
  <2>1. m + i < m + j
    BY <1>2, <1>4
  <2> QED
    BY <1>1, <2>1 DEF Ordered
<1>5. ASSUME NEW i \in DOMAIN qs, NEW j \in DOMAIN rest PROVE Before(qs[i], rest[j])
  <2>1. m + j \in DOMAIN es /\ rest[j] = es[m + j]
    BY <1>1
  <2>2. CASE i \in DOMAIN ps /\ qs[i] = ps[i]
    BY <2>1, <2>2 DEF Follows
  <2>3. CASE i - Len(ps) \in DOMAIN es /\ i - Len(ps) \in 1..m /\ qs[i] = es[i - Len(ps)]
    <3>1. i - Len(ps) < m + j
      BY <1>2, <2>3
    <3> QED
      BY <2>1, <2>3, <3>1 DEF Ordered
  <2> QED
    BY <1>1, <2>2, <2>3
<1>6. Ordered(qs) /\ Ordered(rest) /\ Follows(qs, rest)
  BY <1>3, <1>4, <1>5 DEF Ordered, Follows
<1> QED
  BY <1>6 DEF qs, rest

\* Nothing is lost and nothing is added.
LEMMA SplitKeeps ==
  ASSUME NEW ps \in Seq(Files), NEW es \in Seq(Places), NEW m \in 0..Len(es),
         \A i \in 1..m : es[i] \in Files
  PROVE  LET qs == ps \o SubSeq(es, 1, m)
             rest == SubSeq(es, m + 1, Len(es)) IN
         /\ \A c, t, u : Clean(ps, c, t, u) /\ Clean(es, c, t, u) => Clean(qs, c, t, u) /\ Clean(rest, c, t, u)
         /\ \A f \in Files : f \in ToSet(ps) \/ Reached(es, f) => f \in ToSet(qs) \/ Reached(rest, f)
<1> DEFINE qs == ps \o SubSeq(es, 1, m)
           rest == SubSeq(es, m + 1, Len(es))
<1>1. /\ \A i \in DOMAIN qs : \/ i \in DOMAIN ps /\ qs[i] = ps[i]
                              \/ i - Len(ps) \in DOMAIN es /\ i - Len(ps) \in 1..m /\ qs[i] = es[i - Len(ps)]
      /\ \A i \in DOMAIN ps : i \in DOMAIN qs /\ qs[i] = ps[i]
      /\ \A i \in 1..m : Len(ps) + i \in DOMAIN qs /\ qs[Len(ps) + i] = es[i]
      /\ \A i \in DOMAIN rest : m + i \in DOMAIN es /\ rest[i] = es[m + i]
      /\ \A i \in DOMAIN es : i > m => i - m \in DOMAIN rest /\ rest[i - m] = es[i]
  BY SplitByParts
<1>2. DOMAIN es = 1..Len(es) /\ Len(es) \in Nat /\ m \in Nat
  OBVIOUS
<1> HIDE DEF qs, rest
<1>3. ASSUME NEW c, NEW t, NEW u, Clean(ps, c, t, u), Clean(es, c, t, u)
      PROVE  Clean(qs, c, t, u) /\ Clean(rest, c, t, u)
  <2>1. \A i \in DOMAIN qs : (\E j \in DOMAIN ps : qs[i] = ps[j]) \/ (\E j \in DOMAIN es : qs[i] = es[j])
    BY <1>1
  <2>2. \A i \in DOMAIN rest : \E j \in DOMAIN es : rest[i] = es[j]
    BY <1>1
  <2> QED
    BY <1>3, <2>1, <2>2 DEF Clean
<1>4. ASSUME NEW f \in Files, f \in ToSet(ps) \/ Reached(es, f) PROVE f \in ToSet(qs) \/ Reached(rest, f)
  <2>1. CASE f \in ToSet(ps)
    BY <1>1, <2>1 DEF ToSet
  <2>2. CASE Reached(es, f)
    <3>1. PICK i \in DOMAIN es : IsPrefix(es[i], f)
      BY <2>2 DEF Reached
    <3>2. CASE i <= m
      <4>1. i \in 1..m
        BY <1>2, <3>2
      <4>2. es[i] \in Files /\ f \in Places
        BY <4>1 DEF Places
      <4>3. f = es[i]
        BY <3>1, <4>2, FileIsLeaf
      <4> QED
        BY <1>1, <4>1, <4>3 DEF ToSet
    <3>3. CASE i > m
      BY <1>1, <3>1, <3>3 DEF Reached
    <3> QED
      BY <1>2, <3>2, <3>3
  <2> QED
    BY <1>4, <2>1, <2>2
<1> QED
  BY <1>3, <1>4 DEF qs, rest

\* The files taken are the first ones, up to the limit.
LEMMA FirstOnes ==
  ASSUME NEW max \in Nat, NEW qs \in Seq(Files), NEW rest \in Seq(Places), Ordered(qs), Follows(qs, rest),
         Len(qs) \in 0..max, DOMAIN rest # {} => Len(qs) = max,
         NEW L \in SUBSET Files, \A f \in L : f \in ToSet(qs) \/ Reached(rest, f)
  PROVE  /\ \A f \in ToSet(qs) : Earlier(L, f) < max
         /\ \A S \in SUBSET Files : \A f \in L :
              ToSet(qs) \subseteq S /\ Earlier(S, f) < max => f \in ToSet(qs)
<1>a. DOMAIN qs = 1..Len(qs)
  BY SeqDomain
<1>b. \A i \in DOMAIN qs : i \in Nat /\ 1 <= i /\ i <= max
  <2>1. \A i \in DOMAIN qs : i \in Nat /\ 1 <= i /\ i <= Len(qs)
    BY SeqIndex
  <2> QED
    BY <2>1
<1>0. /\ Files \subseteq Places
      /\ \A i \in DOMAIN qs : qs[i] \in Files /\ qs[i] \in Places
      /\ \A i \in DOMAIN rest : rest[i] \in Places
  BY SeqDomain, BoundAssumption DEF Places
<1>1. \A S \in SUBSET Files : \A f : IsFiniteSet({g \in S : Before(g, f)}) /\ Earlier(S, f) \in Nat
  <2> SUFFICES ASSUME NEW S \in SUBSET Files, NEW f
               PROVE IsFiniteSet({g \in S : Before(g, f)}) /\ Earlier(S, f) \in Nat
    OBVIOUS
  <2> DEFINE E == {g \in S : Before(g, f)}
  <2>1. E \in SUBSET Files
    OBVIOUS
  <2>2. IsFiniteSet(Files)
    BY TreeAssumption
  <2> HIDE DEF E
  <2>3. IsFiniteSet(E) /\ Cardinality(E) \in Nat
    BY <2>1, <2>2, FS_Subset, FS_CardinalityType
  <2> QED
    BY <2>3 DEF E, Earlier
<1>2. ASSUME NEW k \in DOMAIN qs PROVE Earlier(L, qs[k]) < max
  <2>0. k \in Nat /\ k >= 1 /\ k <= max
    BY <1>b
  <2> DEFINE E == {g \in L : Before(g, qs[k])}
             T == {qs[i] : i \in 1..(k - 1)}
             p == [i \in 1..(k - 1) |-> qs[i]]
  <2>1. E \subseteq T
    <3> SUFFICES ASSUME NEW g \in L, Before(g, qs[k]) PROVE g \in T
      OBVIOUS
    <3>0. g \in Places
      BY DEF Places
    <3>1. CASE g \in ToSet(qs)
      <4>1. PICK i \in DOMAIN qs : g = qs[i]
        BY <3>1 DEF ToSet
      <4>2. ASSUME k < i PROVE FALSE
        <5>1. Before(qs[k], g)
          BY <4>1, <4>2 DEF Ordered
        <5> QED
          BY <1>0, <3>0, <5>1, BeforeIsStrict
      <4>3. i # k
        BY <1>0, <4>1, BeforeIsStrict
      <4>4. i \in 1..(k - 1)
        <5>1. i \in Nat /\ k \in Nat /\ i >= 1 /\ k >= 1
          BY <1>b
        <5> QED
          BY <4>2, <4>3, <5>1
      <4> QED
        BY <4>1, <4>4
    <3>2. CASE Reached(rest, g)
      <4>1. PICK j \in DOMAIN rest : IsPrefix(rest[j], g)
        BY <3>2 DEF Reached
      <4>2. Before(qs[k], rest[j])
        BY DEF Follows
      <4>3. Before(qs[k], g)
        BY <1>0, <3>0, <4>1, <4>2, PrefixReflexive, BeforeWithin
      <4> QED
        BY <1>0, <3>0, <4>3, BeforeIsStrict
    <3> QED
      BY <3>1, <3>2
  <2>2. IsFiniteSet(T) /\ Cardinality(T) <= k - 1
    <3>1. p \in Surjection(1..(k - 1), T)
      BY DEF Surjection
    <3>2. ExistsSurjection(1..(k - 1), T)
      BY <3>1 DEF ExistsSurjection
    <3>3. k - 1 \in Nat
      BY <2>0
    <3>4. IsFiniteSet(1..(k - 1))
      BY <3>3, FS_Interval
    <3> HIDE DEF T, p
    <3> QED
      BY <3>1, <3>2, <3>3, <3>4, FS_SurjCardinalityBound, FS_Surjection
  <2>3. Cardinality(E) <= Cardinality(T) /\ Cardinality(T) \in Nat
    <3> HIDE DEF E, T
    <3> QED
      BY <2>1, <2>2, FS_Subset, FS_CardinalityType
  <2>4. Cardinality(E) \in Nat /\ Earlier(L, qs[k]) = Cardinality(E)
    BY <1>1 DEF Earlier
  <2> HIDE DEF E, T
  <2> QED
    BY <2>0, <2>2, <2>3, <2>4
<1>3. ASSUME NEW S \in SUBSET Files, NEW f \in L, ToSet(qs) \subseteq S, f \notin ToSet(qs)
      PROVE  ~(Earlier(S, f) < max)
  <2> DEFINE E == {g \in S : Before(g, f)}
  <2>0. f \in Places
    BY DEF Places
  <2>1. PICK j \in DOMAIN rest : IsPrefix(rest[j], f)
    BY <1>3 DEF Reached
  <2>2. Len(qs) = max
    BY <2>1
  <2>3. \A i \in DOMAIN qs : qs[i] \in E
    <3> SUFFICES ASSUME NEW i \in DOMAIN qs PROVE qs[i] \in S /\ Before(qs[i], f)
      OBVIOUS
    <3>1. Before(qs[i], rest[j])
      BY DEF Follows
    <3>2. Before(qs[i], f)
      BY <1>0, <2>0, <2>1, <3>1, PrefixReflexive, BeforeWithin
    <3> QED
      BY <1>3, <3>2 DEF ToSet
  <2>4. \A i, k \in DOMAIN qs : qs[i] = qs[k] => i = k
    <3>1. \A i, k \in DOMAIN qs : i < k => qs[i] # qs[k]
      BY <1>0, BeforeIsStrict DEF Ordered
    <3>2. \A i, k \in DOMAIN qs : i < k \/ k < i \/ i = k
      BY <1>b
    <3> QED
      BY <3>1, <3>2
  <2>5. IsFiniteSet(E) /\ Cardinality(E) \in Nat /\ Earlier(S, f) = Cardinality(E)
    BY <1>1 DEF Earlier
  <2> HIDE DEF E
  <2>6. qs \in Injection(1..max, E)
    <3>1. qs \in [1..max -> E]
      BY <1>a, <2>2, <2>3
    <3> QED
      BY <1>a, <2>2, <2>4, <3>1 DEF Injection, IsInjective
  <2>7. Cardinality(1..max) <= Cardinality(E)
    BY <2>5, <2>6, FS_Injection
  <2>8. Cardinality(1..max) = max
    <3>1. 1 \in Int /\ max \in Int
      OBVIOUS
    <3> QED
      BY <3>1, FS_Interval
  <2> QED
    BY <2>5, <2>7, <2>8
<1>4. \A f \in ToSet(qs) : Earlier(L, f) < max
  BY <1>2 DEF ToSet
<1> QED
  BY <1>3, <1>4

-----------------------------------------------------------------------------
(* What holds of the walk, and of the files it took *)

\* Nothing of s lies in a directory of u, since all of u comes before it.
Behind(u, s) == \A x \in u, j \in DOMAIN s : Before(x, s[j])

\* Nothing of the tree is read before its walk begins.
Begun == at \in ToSearch => paths = <<>> /\ dict = <<>> /\ unread = {} /\ touched = {}

\* During the walk what was listed, and what is left of the tree, is in order,
\* and whatever a listing leads to is in one of the two.
TreeInv ==
  at = "tree" =>
    /\ pending # <<>> /\ Head(pending) \in Dirs
    /\ Len(paths) < MaxFiles /\ dict = <<>> /\ unread \subseteq Dirs
    /\ Ordered(paths) /\ Ordered(pending) /\ Follows(paths, pending) /\ Behind(unread, pending)
    /\ Clean(paths, content, touched, unread) /\ Clean(pending, content, touched, unread)
    /\ \A f \in ListedIn(content, unread) \ touched : f \in ToSet(paths) \/ Reached(pending, f)

Taken(ps, dc) == ToSet(ps) \cup {dc[i].file : i \in DOMAIN dc}

\* After it the files taken are in the dictionary, or to be read in order, or
\* were skipped.
FilesInv ==
  at \in {"files", "history", "done"} /\ Parsed /\ repoName # 0 /\ task.branch =>
    /\ at = "files" <=> paths # <<>>
    /\ Ordered(paths)
    /\ \A i \in DOMAIN dict, j \in DOMAIN paths : Before(dict[i].file, paths[j])
    /\ \A j \in DOMAIN paths : paths[j] \notin unread
    /\ \A f \in Taken(paths, dict) \ touched :
         f \in ListedIn(content, unread) /\ Earlier(ListedIn(content, unread) \ touched, f) < MaxFiles
    /\ \A i \in DOMAIN dict : dict[i].file \notin touched =>
         dict[i].version = content[dict[i].file] /\ Readable(dict[i].file)
    /\ \A f \in ListedIn(content, unread) \ touched :
         Readable(f) /\ Earlier(ListedIn(content, unread) \cup touched, f) < MaxFiles
           => f \in Taken(paths, dict)

BranchInv == TypeOK /\ Begun /\ TreeInv /\ FilesInv

\* An entry says which file, which version, and whether it is all of it.
LEMMA EntryFields ==
  \A d \in DictEntries : d.file \in Files /\ d.version \in 1..2 /\ d = EntryOf(d.file, d.version)
<1> SUFFICES ASSUME NEW d \in DictEntries
             PROVE  d.file \in Files /\ d.version \in 1..2 /\ d = EntryOf(d.file, d.version)
  OBVIOUS
<1>1. PICK f \in Files, v \in 1..2 : d = EntryOf(f, v)
  BY DEF DictEntries
<1>2. EntryOf(f, v).file = f /\ EntryOf(f, v).version = v
  BY DEF EntryOf
<1>3. d.file = f /\ d.version = v
  BY <1>1, <1>2
<1> QED
  BY <1>1, <1>3

LEMMA ListedAs == Listed = ListedIn(content, unread)
BY DEF Listed, ListedIn

-----------------------------------------------------------------------------
(* Up to the walk *)

\* A request before the walk leaves the tree alone, and either begins the walk
\* at the root or goes past it for a run without a branch to read.
Ahead ==
  /\ UNCHANGED <<content, paths, dict, unread, touched>>
  /\ at' \in ToSearch \cup {"tree", "history"}
  /\ at' = "tree" => pending' = <<Root>>
  /\ at' = "history" => ~(Parsed' /\ repoName' # 0 /\ task'.branch)

LEMMA RequestsAhead ==
  ASSUME StageInv, RepoInv,
         \/ FetchCatalogue \/ FetchTask \/ FetchProject \/ FetchRepositories
         \/ FetchTodo \/ FetchRunCount \/ FetchPrecalls \/ Search \/ EditTodo
  PROVE  Ahead /\ at \in ToSearch
<1> USE DEF StageInv, RepoInv, Stages, ToSearch, ToCount, ToRepositories, Goto, Miss, Ahead, Parsed
<1>1. CASE FetchCatalogue
  BY <1>1 DEF FetchCatalogue, locals, walk, world, changes
<1>2. CASE FetchTask
  BY <1>2 DEF FetchTask, walk, world, changes
<1>3. CASE FetchProject
  BY <1>3 DEF FetchProject, walk, world, changes
<1>4. CASE FetchRepositories
  BY <1>4 DEF FetchRepositories, Branch, BeginWalk, world, changes
<1>5. CASE FetchTodo
  BY <1>5 DEF FetchTodo, Branch, BeginWalk, AfterMeta, world, changes
<1>6. CASE FetchRunCount
  BY <1>6 DEF FetchRunCount, Branch, BeginWalk, AfterMeta, world, locals, changes
<1>7. CASE FetchPrecalls
  BY <1>7 DEF FetchPrecalls, Branch, BeginWalk, world, changes
<1>8. CASE Search
  BY <1>8 DEF Search, Branch, BeginWalk, world, changes
<1>9. CASE EditTodo
  BY <1>9 DEF EditTodo, Edit, locals, walk
<1> QED
  BY <1>1, <1>2, <1>3, <1>4, <1>5, <1>6, <1>7, <1>8, <1>9

\* What holds of the walk holds when it begins, and of a run without one.
LEMMA WalkBegins ==
  ASSUME TypeOK, Begun, Ahead, at \in ToSearch
  PROVE  Begun' /\ TreeInv' /\ FilesInv'
<1>1. /\ paths' = <<>> /\ dict' = <<>> /\ unread' = {} /\ touched' = {}
      /\ at' \in ToSearch \cup {"tree", "history"}
  BY DEF Begun, Ahead
<1>2. Begun'
  BY <1>1 DEF Begun
<1>3. ASSUME at' = "tree" PROVE TreeInv'
  <2>1. pending' = <<Root>>
    BY <1>3 DEF Ahead
  <2>2. DOMAIN pending' = {1} /\ pending'[1] = Root /\ pending' # <<>> /\ Head(pending') = Root
    BY <2>1
  <2>3. DOMAIN paths' = {} /\ Len(paths') = 0
    BY <1>1
  <2>4. Len(paths') < MaxFiles
    BY <2>3, BoundAssumption
  <2>5. Ordered(paths') /\ Ordered(pending') /\ Follows(paths', pending') /\ Behind(unread', pending')
    BY <1>1, <2>2, <2>3 DEF Ordered, Follows, Behind
  <2>6. Root \in Dirs /\ Root \notin Files
    BY TreeAssumption
  <2>7. Clean(paths', content', touched', unread') /\ Clean(pending', content', touched', unread')
    BY <1>1, <2>2, <2>3, <2>6 DEF Clean
  <2>8. \A f \in Files : Reached(pending', f)
    BY <2>2, RootLeadsToAll DEF Reached, Places
  <2>9. \A f \in ListedIn(content', unread') \ touched' : f \in Files
    BY DEF ListedIn
  <2> QED
    BY <1>1, <2>2, <2>4, <2>5, <2>6, <2>7, <2>8, <2>9 DEF TreeInv
<1>4. FilesInv'
  <2>1. at' \in {"files", "history", "done"} => at' = "history"
    BY <1>1 DEF ToSearch, ToCount, ToRepositories
  <2> QED
    BY <2>1 DEF FilesInv, Ahead
<1>5. at' # "tree" => TreeInv'
  BY DEF TreeInv
<1> QED
  BY <1>2, <1>3, <1>4, <1>5

-----------------------------------------------------------------------------
(* The walk *)

\* A concatenation, index by index.
LEMMA ConcatByParts ==
  ASSUME NEW S, NEW s \in Seq(S), NEW t \in Seq(S)
  PROVE  /\ s \o t \in Seq(S)
         /\ \A i \in DOMAIN (s \o t) : \/ i \in DOMAIN s /\ (s \o t)[i] = s[i]
                                       \/ ~(i \in DOMAIN s) /\ i - Len(s) \in DOMAIN t /\ (s \o t)[i] = t[i - Len(s)]
         /\ \A i \in DOMAIN s : i \in DOMAIN (s \o t) /\ (s \o t)[i] = s[i]
         /\ \A i \in DOMAIN t : Len(s) + i \in DOMAIN (s \o t) /\ (s \o t)[Len(s) + i] = t[i]
<1> DEFINE u == s \o t
<1>1. /\ Len(s) \in Nat /\ Len(t) \in Nat /\ DOMAIN s = 1..Len(s) /\ DOMAIN t = 1..Len(t)
      /\ u \in Seq(S) /\ DOMAIN u = 1..(Len(s) + Len(t))
      /\ \A i \in 1..(Len(s) + Len(t)) : u[i] = IF i <= Len(s) THEN s[i] ELSE t[i - Len(s)]
  OBVIOUS
<1> HIDE DEF u
<1>2. ASSUME NEW i \in DOMAIN u, ~(i \in DOMAIN s) PROVE i - Len(s) \in DOMAIN t /\ u[i] = t[i - Len(s)]
  <2>1. i \in 1..(Len(s) + Len(t)) /\ ~(i <= Len(s)) /\ i - Len(s) \in 1..Len(t)
    BY <1>1, <1>2
  <2> QED
    BY <1>1, <2>1
<1>3. \A i \in DOMAIN u : i \in DOMAIN s => u[i] = s[i]
  BY <1>1
<1>4. \A i \in DOMAIN s : i \in DOMAIN u /\ u[i] = s[i]
  BY <1>1
<1>5. ASSUME NEW i \in DOMAIN t PROVE Len(s) + i \in DOMAIN u /\ u[Len(s) + i] = t[i]
  <2>1. Len(s) + i \in 1..(Len(s) + Len(t)) /\ ~(Len(s) + i <= Len(s)) /\ (Len(s) + i) - Len(s) = i
    BY <1>1
  <2> QED
    BY <1>1, <2>1
<1> QED
  BY <1>1, <1>2, <1>3, <1>4, <1>5 DEF u

\* The next directory, and what the walk has behind it.
LEMMA TailByParts ==
  ASSUME NEW S, NEW s \in Seq(S), s # <<>>
  PROVE  /\ Head(s) \in S /\ Tail(s) \in Seq(S) /\ Head(s) = s[1] /\ 1 \in DOMAIN s
         /\ \A i \in DOMAIN Tail(s) : i + 1 \in DOMAIN s /\ 1 < i + 1 /\ Tail(s)[i] = s[i + 1]
         /\ \A i \in DOMAIN s : i = 1 \/ (i - 1 \in DOMAIN Tail(s) /\ Tail(s)[i - 1] = s[i])
<1>1. /\ Len(s) \in Nat \ {0} /\ DOMAIN s = 1..Len(s) /\ Head(s) = s[1] /\ Head(s) \in S
      /\ Tail(s) \in Seq(S) /\ DOMAIN Tail(s) = 1..(Len(s) - 1)
      /\ \A i \in 1..(Len(s) - 1) : Tail(s)[i] = s[i + 1]
  OBVIOUS
<1>2. ASSUME NEW i \in DOMAIN s, i # 1 PROVE i - 1 \in DOMAIN Tail(s) /\ Tail(s)[i - 1] = s[i]
  <2>1. i - 1 \in 1..(Len(s) - 1) /\ (i - 1) + 1 = i
    BY <1>1, <1>2
  <2> QED
    BY <1>1, <2>1
<1>3. \A i \in DOMAIN Tail(s) : i + 1 \in DOMAIN s /\ 1 < i + 1 /\ Tail(s)[i] = s[i + 1]
  BY <1>1
<1>4. 1 \in DOMAIN s
  BY <1>1
<1>5. Head(s) \in S /\ Tail(s) \in Seq(S) /\ Head(s) = s[1]
  BY <1>1
<1>6. \A i \in DOMAIN s : i = 1 \/ (i - 1 \in DOMAIN Tail(s) /\ Tail(s)[i - 1] = s[i])
  BY <1>2, Zenon
<1> QED
  BY <1>3, <1>4, <1>5, <1>6, Zenon

\* What the walk has left lies in no directory that could not be listed.
LEMMA BehindIsClear ==
  ASSUME NEW u \in SUBSET Dirs, NEW s \in Seq(Places), Behind(u, s)
  PROVE  \A i \in DOMAIN s : \A d \in Dirs : IsPrefix(d, s[i]) => d \notin u
<1> SUFFICES ASSUME NEW i \in DOMAIN s, NEW d \in u, IsPrefix(d, s[i]) PROVE FALSE
  OBVIOUS
<1>1. s[i] \in Places /\ d \in Places
  BY SeqDomain DEF Places
<1>2. Before(d, s[i])
  BY DEF Behind
<1>3. Before(s[i], s[i])
  BY <1>1, <1>2, PrefixReflexive, BeforeWithin
<1> QED
  BY <1>1, <1>3, BeforeIsStrict

\* What a step of the walk finds: the entries es to go on with, and the
\* directories u that could not be listed.
Goes(es, u) ==
  /\ es \in Seq(Places) /\ u \subseteq Dirs
  /\ Ordered(es) /\ Follows(paths, es) /\ Behind(u, es)
  /\ Clean(paths, content, touched, u) /\ Clean(es, content, touched, u)
  /\ \A f \in ListedIn(content, u) \ touched : f \in ToSet(paths) \/ Reached(es, f)

\* What the head of pending has behind it.
LEMMA HeadOfPending ==
  ASSUME TypeOK, TreeInv, at = "tree"
  PROVE  /\ pending \in Seq(Places) /\ Head(pending) \in Dirs /\ Tail(pending) \in Seq(Places)
         /\ Ordered(Tail(pending)) /\ Follows(paths, Tail(pending)) /\ Behind(unread, Tail(pending))
         /\ \A j \in DOMAIN Tail(pending) : Before(Head(pending), Tail(pending)[j])
         /\ \A i \in DOMAIN paths : Before(paths[i], Head(pending))
         /\ \A x \in unread : Before(x, Head(pending))
         /\ Clean(Tail(pending), content, touched, unread)
         /\ \A f : Reached(pending, f) => IsPrefix(Head(pending), f) \/ Reached(Tail(pending), f)
<1>1. pending \in Seq(Places) /\ pending # <<>>
  BY DEF TypeOK, TreeInv, Places
<1> DEFINE t == Tail(pending)
<1>2. /\ t \in Seq(Places) /\ Head(pending) = pending[1] /\ 1 \in DOMAIN pending
      /\ \A i \in DOMAIN t : i + 1 \in DOMAIN pending /\ 1 < i + 1 /\ t[i] = pending[i + 1]
      /\ \A i \in DOMAIN pending : i = 1 \/ (i - 1 \in DOMAIN t /\ t[i - 1] = pending[i])
  BY <1>1, TailByParts
<1>3. \A i, j \in DOMAIN t : i < j => i + 1 < j + 1
  <2>1. \A i \in DOMAIN t : i \in Nat
    BY <1>2, SeqIndex
  <2> HIDE DEF t
  <2> QED
    BY <2>1
<1> HIDE DEF t
<1>4. /\ Ordered(pending) /\ Follows(paths, pending) /\ Behind(unread, pending)
      /\ Clean(pending, content, touched, unread) /\ Head(pending) \in Dirs
  BY DEF TreeInv
<1>5. Ordered(t)
  BY <1>2, <1>3, <1>4 DEF Ordered
<1>6. Follows(paths, t)
  BY <1>2, <1>4 DEF Follows
<1>7. Behind(unread, t)
  BY <1>2, <1>4 DEF Behind
<1>8. \A j \in DOMAIN t : Before(Head(pending), t[j])
  BY <1>2, <1>4 DEF Ordered
<1>9. \A i \in DOMAIN paths : Before(paths[i], Head(pending))
  BY <1>2, <1>4 DEF Follows
<1>10. \A x \in unread : Before(x, Head(pending))
  BY <1>2, <1>4 DEF Behind
<1>11. Clean(t, content, touched, unread)
  BY <1>2, <1>4 DEF Clean
<1>12. \A f : Reached(pending, f) => IsPrefix(Head(pending), f) \/ Reached(t, f)
  BY <1>2 DEF Reached
<1> QED
  BY <1>1, <1>2, <1>4, <1>5, <1>6, <1>7, <1>8, <1>9, <1>10, <1>11, <1>12 DEF t

\* The directory is listed.
LEMMA GoesOn ==
  ASSUME TypeOK, TreeInv, at = "tree"
  PROVE  Goes(Listing(Head(pending)) \o Tail(pending), unread)
<1> DEFINE h == Head(pending)
           t == Tail(pending)
           l == Listing(h)
           es == l \o t
<1>1. /\ h \in Dirs /\ t \in Seq(Places)
      /\ Ordered(t) /\ Follows(paths, t) /\ Behind(unread, t)
      /\ \A j \in DOMAIN t : Before(h, t[j])
      /\ \A i \in DOMAIN paths : Before(paths[i], h)
      /\ \A x \in unread : Before(x, h)
      /\ Clean(t, content, touched, unread)
      /\ \A f : Reached(pending, f) => IsPrefix(h, f) \/ Reached(t, f)
  BY HeadOfPending
<1>2. /\ l \in Seq(Places)
      /\ \A k \in DOMAIN l : IsPrefix(h, l[k]) /\ Exists(l[k])
      /\ \A j, k \in DOMAIN l : j < k => Before(l[j], l[k])
      /\ \A i \in DOMAIN Entries[h] : Exists(Entries[h][i]) => \E k \in DOMAIN l : l[k] = Entries[h][i]
  <2> HIDE DEF h
  <2> QED
    BY <1>1, ListingIs
<1> HIDE DEF h, t, l
<1>3. /\ es \in Seq(Places)
      /\ \A i \in DOMAIN es : \/ i \in DOMAIN l /\ es[i] = l[i]
                              \/ ~(i \in DOMAIN l) /\ i - Len(l) \in DOMAIN t /\ es[i] = t[i - Len(l)]
      /\ \A i \in DOMAIN l : i \in DOMAIN es /\ es[i] = l[i]
      /\ \A i \in DOMAIN t : Len(l) + i \in DOMAIN es /\ es[Len(l) + i] = t[i]
  BY <1>1, <1>2, ConcatByParts
<1>4. /\ \A i \in DOMAIN l : i \in Nat /\ 1 <= i /\ i <= Len(l)
      /\ \A i \in DOMAIN t : i \in Nat /\ 1 <= i
      /\ Len(l) \in Nat
  BY <1>1, <1>2, SeqIndex
<1>4a. \A i \in DOMAIN es : i \in Nat
  <2> HIDE DEF es
  <2> QED
    BY <1>3, SeqIndex
<1> HIDE DEF es
<1>5. paths \in Seq(Files) /\ unread \subseteq Dirs
  BY DEF TypeOK, TreeInv
<1>6. /\ \A i \in DOMAIN paths : paths[i] \in Places
      /\ \A i \in DOMAIN l : l[i] \in Places
      /\ \A i \in DOMAIN t : t[i] \in Places
      /\ h \in Places /\ unread \subseteq Places
  BY <1>1, <1>2, <1>5, SeqDomain DEF Places
<1>7. \A i \in DOMAIN es : (\E k \in DOMAIN l : es[i] = l[k]) \/ (\E k \in DOMAIN t : es[i] = t[k])
  BY <1>3
<1>8. Ordered(es)
  <2> SUFFICES ASSUME NEW i \in DOMAIN es, NEW j \in DOMAIN es, i < j PROVE Before(es[i], es[j])
    BY DEF Ordered
  <2>1. CASE j \in DOMAIN l
    <3>1. i \in DOMAIN l
      <4>1. ~(i - Len(l) \in DOMAIN t)
        BY <1>4, <1>4a, <2>1
      <4> QED
        BY <1>3, <4>1
    <3> QED
      BY <1>2, <1>3, <2>1, <3>1
  <2>2. CASE i \in DOMAIN l /\ ~(j \in DOMAIN l)
    <3>1. j - Len(l) \in DOMAIN t /\ es[j] = t[j - Len(l)] /\ es[i] = l[i]
      BY <1>3, <2>2
    <3>2. Before(h, es[j]) /\ IsPrefix(h, es[i]) /\ es[i] \in Places /\ es[j] \in Places
      BY <1>1, <1>2, <1>6, <2>2, <3>1
    <3> QED
      BY <1>6, <3>2, PrefixReflexive, BeforeWithin
  <2>3. CASE ~(i \in DOMAIN l) /\ ~(j \in DOMAIN l)
    <3>1. /\ i - Len(l) \in DOMAIN t /\ es[i] = t[i - Len(l)]
          /\ j - Len(l) \in DOMAIN t /\ es[j] = t[j - Len(l)]
      BY <1>3, <2>3
    <3>2. i - Len(l) < j - Len(l)
      BY <1>4, <1>4a
    <3> QED
      BY <1>1, <3>1, <3>2 DEF Ordered
  <2> QED
    BY <2>1, <2>2, <2>3
<1>9. ASSUME NEW x \in Places, Before(x, h), \A j \in DOMAIN t : Before(x, t[j])
      PROVE  \A j \in DOMAIN es : Before(x, es[j])
  <2>1. \A k \in DOMAIN l : Before(x, l[k])
    BY <1>2, <1>6, <1>9, PrefixReflexive, BeforeWithin
  <2> QED
    BY <1>7, <1>9, <2>1
<1>10. Follows(paths, es)
  <2>1. \A i \in DOMAIN paths : \A j \in DOMAIN t : Before(paths[i], t[j])
    BY <1>1 DEF Follows
  <2> QED
    BY <1>1, <1>6, <1>9, <2>1 DEF Follows
<1>11. Behind(unread, es)
  <2>1. \A x \in unread : \A j \in DOMAIN t : Before(x, t[j])
    BY <1>1 DEF Behind
  <2> QED
    BY <1>1, <1>6, <1>9, <2>1 DEF Behind
<1>12. Clean(es, content, touched, unread)
  <2>1. \A i \in DOMAIN es : \A d \in Dirs : IsPrefix(d, es[i]) => d \notin unread
    BY <1>3, <1>5, <1>11, BehindIsClear
  <2>2. \A k \in DOMAIN l : l[k] \in Files => content[l[k]] # 0
    BY <1>2, FileIsLeaf DEF Exists, Places
  <2>3. \A k \in DOMAIN t : t[k] \in Files \ touched => content[t[k]] # 0
    BY <1>1 DEF Clean
  <2>4. \A i \in DOMAIN es : es[i] \in Files \ touched => content[es[i]] # 0
    BY <1>7, <2>2, <2>3
  <2> QED
    BY <2>1, <2>4 DEF Clean
<1>13. ASSUME NEW f \in ListedIn(content, unread) \ touched PROVE f \in ToSet(paths) \/ Reached(es, f)
  <2>1. f \in Files /\ f \in Places /\ content[f] # 0
    BY DEF ListedIn, Places
  <2>2. f \in ToSet(paths) \/ Reached(pending, f)
    BY DEF TreeInv
  <2>3. CASE IsPrefix(h, f)
    <3>1. f # h
      BY <1>1, <2>1, TreeAssumption
    <3>2. PICK i \in DOMAIN Entries[h] : IsPrefix(Entries[h][i], f)
      BY <1>1, <2>1, <2>3, <3>1, EntryLeadsTo
    <3>3. Exists(Entries[h][i])
      BY <2>1, <3>2 DEF Exists
    <3> QED
      BY <1>2, <1>3, <3>2, <3>3 DEF Reached
  <2>4. CASE Reached(t, f)
    BY <1>3, <2>4 DEF Reached
  <2> QED
    BY <1>1, <2>2, <2>3, <2>4
<1>14. Clean(paths, content, touched, unread)
  BY DEF TreeInv
<1>15. Goes(es, unread)
  BY <1>3, <1>5, <1>8, <1>10, <1>11, <1>12, <1>13, <1>14 DEF Goes
<1> QED
  BY <1>15 DEF es, l, h, t

\* The directory is left out.
LEMMA GoesPast ==
  ASSUME TypeOK, TreeInv, at = "tree"
  PROVE  Goes(Tail(pending), unread \cup {Head(pending)})
<1> DEFINE h == Head(pending)
           t == Tail(pending)
           u == unread \cup {h}
<1>1. /\ h \in Dirs /\ t \in Seq(Places)
      /\ Ordered(t) /\ Follows(paths, t) /\ Behind(unread, t)
      /\ \A j \in DOMAIN t : Before(h, t[j])
      /\ \A i \in DOMAIN paths : Before(paths[i], h)
      /\ Clean(t, content, touched, unread)
      /\ \A f : Reached(pending, f) => IsPrefix(h, f) \/ Reached(t, f)
  BY HeadOfPending
<1> HIDE DEF h, t
<1>2. paths \in Seq(Files) /\ unread \subseteq Dirs /\ Clean(paths, content, touched, unread)
  BY DEF TypeOK, TreeInv
<1>3. u \subseteq Dirs /\ Behind(u, t)
  BY <1>1, <1>2 DEF Behind
<1>4. Clean(t, content, touched, u)
  BY <1>1, <1>3, BehindIsClear DEF Clean
<1>5. Clean(paths, content, touched, u)
  <2>1. ASSUME NEW i \in DOMAIN paths PROVE ~IsPrefix(h, paths[i])
    <3>1. paths[i] \in Places /\ h \in Places
      BY <1>1, <1>2, SeqDomain DEF Places
    <3>2. Before(paths[i], h)
      BY <1>1
    <3> QED
      BY <3>1, <3>2, PrefixReflexive, BeforeWithin, BeforeIsStrict
  <2> QED
    BY <1>2, <2>1 DEF Clean
<1>6. ASSUME NEW f \in ListedIn(content, u) \ touched PROVE f \in ToSet(paths) \/ Reached(t, f)
  <2>1. f \in ListedIn(content, unread) \ touched /\ ~IsPrefix(h, f)
    BY <1>1 DEF ListedIn
  <2>2. f \in ToSet(paths) \/ Reached(pending, f)
    BY <2>1 DEF TreeInv
  <2> QED
    BY <1>1, <2>1, <2>2
<1>7. Goes(t, u)
  BY <1>1, <1>3, <1>4, <1>5, <1>6 DEF Goes
<1> QED
  BY <1>7 DEF u, h, t

\* Counting in a larger set counts no less.
LEMMA EarlierGrows ==
  ASSUME NEW S, NEW T \in SUBSET Files, S \subseteq T, NEW f
  PROVE  Earlier(S, f) <= Earlier(T, f) /\ Earlier(S, f) \in Nat /\ Earlier(T, f) \in Nat
<1> DEFINE E == {g \in S : Before(g, f)}
           G == {g \in T : Before(g, f)}
<1>1. E \subseteq G /\ G \subseteq Files /\ IsFiniteSet(Files)
  BY TreeAssumption
<1>2. Earlier(S, f) = Cardinality(E) /\ Earlier(T, f) = Cardinality(G)
  BY DEF Earlier
<1> HIDE DEF E, G
<1>3. IsFiniteSet(G)
  BY <1>1, FS_Subset
<1>4. IsFiniteSet(E) /\ Cardinality(E) <= Cardinality(G)
  BY <1>1, <1>3, FS_Subset
<1> QED
  BY <1>2, <1>3, <1>4, FS_CardinalityType

\* A step of the walk keeps what it found, and ends it in order.
LEMMA WalkKeeps ==
  ASSUME TypeOK, TreeInv, Parsed, at = "tree", NEW es, Goes(es, unread'), Walk(es),
         UNCHANGED <<dict, content, touched>>
  PROVE  paths' \in Seq(Files) /\ pending' \in Seq(Places) /\ Begun' /\ TreeInv' /\ FilesInv'
<1>1. /\ es \in Seq(Places) /\ paths \in Seq(Files) /\ dict = <<>> /\ unread' \subseteq Dirs
      /\ Ordered(paths) /\ Ordered(es) /\ Follows(paths, es) /\ Behind(unread', es)
      /\ Clean(paths, content, touched, unread') /\ Clean(es, content, touched, unread')
  BY DEF TypeOK, TreeInv, Goes
<1>2. \A f \in ListedIn(content, unread') \ touched : f \in ToSet(paths) \/ Reached(es, f)
  BY DEF Goes
<1>3. Len(paths) < MaxFiles
  BY DEF TreeInv
<1>4. PICK m \in 0..Len(es) : Takes(es, m)
  BY <1>1, <1>3, WalkTakes
<1> DEFINE qs == paths \o SubSeq(es, 1, m)
           rest == SubSeq(es, m + 1, Len(es))
           L == ListedIn(content, unread')
<1>5. \A i \in 1..m : es[i] \in Files
  BY <1>4 DEF Takes
<1>6. /\ qs \in Seq(Files) /\ rest \in Seq(Places)
      /\ Len(qs) = Len(paths) + m /\ Len(rest) = Len(es) - m
      /\ \A i \in DOMAIN rest : m + i \in DOMAIN es /\ rest[i] = es[m + i]
  BY <1>1, <1>5, SplitByParts
<1>7. Ordered(qs) /\ Ordered(rest) /\ Follows(qs, rest)
  BY <1>1, <1>5, SplitInOrder
<1>8. Clean(qs, content, touched, unread') /\ Clean(rest, content, touched, unread')
  <2>1. \A c, t, u : Clean(paths, c, t, u) /\ Clean(es, c, t, u) => Clean(qs, c, t, u) /\ Clean(rest, c, t, u)
    BY <1>1, <1>5, SplitKeeps
  <2> QED
    BY <1>1, <2>1
<1>9. \A f \in L \ touched : f \in ToSet(qs) \/ Reached(rest, f)
  <2>1. \A f \in Files : f \in ToSet(paths) \/ Reached(es, f) => f \in ToSet(qs) \/ Reached(rest, f)
    BY <1>1, <1>5, SplitKeeps
  <2> QED
    BY <1>2, <2>1 DEF ListedIn
<1>10. /\ paths' = qs /\ Len(paths) + m <= MaxFiles
       /\ \/ /\ at' = "tree" /\ m < Len(es) /\ es[m + 1] \in Dirs
             /\ pending' = rest /\ Len(paths) + m < MaxFiles
          \/ /\ at' = IF paths' = <<>> THEN "history" ELSE "files"
             /\ pending' = <<>>
             /\ m = Len(es) \/ Len(paths) + m = MaxFiles
  BY <1>4 DEF Takes
<1> HIDE DEF qs, rest, L
<1>11. paths' \in Seq(Files) /\ pending' \in Seq(Places)
  <2>1. pending' = rest \/ pending' = <<>>
    BY <1>10
  <2>2. <<>> \in Seq(Places)
    OBVIOUS
  <2> QED
    BY <1>6, <1>10, <2>1, <2>2
<1>12. at' \in {"tree", "files", "history"}
  BY <1>10
<1>13. Begun'
  BY <1>12 DEF Begun, ToSearch, ToCount, ToRepositories
<1>14. CASE at' = "tree"
  <2>1. /\ m < Len(es) /\ es[m + 1] \in Dirs /\ pending' = rest /\ Len(paths) + m < MaxFiles
    BY <1>10, <1>14
  <2>2. rest # <<>> /\ Head(rest) = es[m + 1]
    <3>1. m \in Nat /\ Len(es) \in Nat
      BY <1>1, SeqIndex
    <3>2. Len(rest) # 0
      BY <1>6, <2>1, <3>1
    <3>3. rest # <<>> /\ Head(rest) = rest[1] /\ 1 \in DOMAIN rest
      BY <1>6, <3>2, TailByParts
    <3> QED
      BY <1>6, <3>3
  <2>3. Behind(unread', rest)
    BY <1>1, <1>6 DEF Behind
  <2>4. Len(paths') < MaxFiles
    BY <1>6, <1>10, <2>1
  <2>5. \A f \in ListedIn(content', unread') \ touched' : f \in ToSet(paths') \/ Reached(pending', f)
    BY <1>9, <1>10, <2>1 DEF L
  <2>6. TreeInv'
    <3>1. pending' # <<>> /\ Head(pending') \in Dirs
      BY <2>1, <2>2
    <3>2. dict' = <<>> /\ unread' \subseteq Dirs
      BY <1>1
    <3>3. Ordered(paths') /\ Ordered(pending') /\ Follows(paths', pending') /\ Behind(unread', pending')
      BY <1>7, <1>10, <2>1, <2>3
    <3>4. Clean(paths', content', touched', unread') /\ Clean(pending', content', touched', unread')
      BY <1>8, <1>10, <2>1
    <3> QED
      BY <2>4, <2>5, <3>1, <3>2, <3>3, <3>4 DEF TreeInv
  <2>7. FilesInv'
    BY <1>14 DEF FilesInv
  <2> QED
    BY <1>11, <1>13, <2>6, <2>7
<1>15. CASE at' # "tree"
  <2>1. /\ at' = IF paths' = <<>> THEN "history" ELSE "files"
        /\ m = Len(es) \/ Len(paths) + m = MaxFiles
    BY <1>10, <1>15
  <2>2. TreeInv'
    BY <1>15 DEF TreeInv
  <2>3. rest = <<>> \/ Len(qs) = MaxFiles
    BY <1>1, <1>6, <2>1
  <2>4. DOMAIN rest # {} => Len(qs) = MaxFiles
    BY <2>3
  <2>5. Len(qs) \in 0..MaxFiles /\ MaxFiles \in Nat
    <3>1. Len(paths) \in Nat /\ m \in Nat
      BY <1>1, SeqIndex
    <3> QED
      BY <1>6, <1>10, <3>1, BoundAssumption
  <2>6. L \in SUBSET Files
    BY DEF L, ListedIn
  <2>7. /\ \A f \in ToSet(qs) : Earlier(L \ touched, f) < MaxFiles
        /\ \A S \in SUBSET Files : \A f \in L \ touched :
             ToSet(qs) \subseteq S /\ Earlier(S, f) < MaxFiles => f \in ToSet(qs)
    <3> DEFINE M == L \ touched
    <3>1. M \in SUBSET Files /\ \A f \in M : f \in ToSet(qs) \/ Reached(rest, f)
      BY <1>9, <2>6
    <3> HIDE DEF M
    <3>2. /\ \A f \in ToSet(qs) : Earlier(M, f) < MaxFiles
          /\ \A S \in SUBSET Files : \A f \in M :
               ToSet(qs) \subseteq S /\ Earlier(S, f) < MaxFiles => f \in ToSet(qs)
      <4>1. MaxFiles \in Nat /\ qs \in Seq(Files) /\ rest \in Seq(Places) /\ Ordered(qs)
            /\ Follows(qs, rest) /\ Len(qs) \in 0..MaxFiles
        BY <1>6, <1>7, <2>5
      <4> QED
        BY <2>4, <3>1, <4>1, FirstOnes
    <3> QED
      BY <3>2 DEF M
  <2>8. \A f \in ToSet(qs) : f \in Files /\ (f \notin touched => f \in L)
    <3> SUFFICES ASSUME NEW i \in DOMAIN qs PROVE qs[i] \in Files /\ (qs[i] \notin touched => qs[i] \in L)
      BY DEF ToSet
    <3>1. qs[i] \in Files
      BY <1>6, SeqDomain
    <3> QED
      BY <1>8, <3>1 DEF Clean, L, ListedIn
  <2>9. touched \in SUBSET Files
    BY DEF TypeOK
  <2>10. \A f \in L \ touched : Earlier(L \cup touched, f) < MaxFiles => f \in ToSet(qs)
    <3>1. L \cup touched \in SUBSET Files /\ ToSet(qs) \subseteq L \cup touched
      BY <2>6, <2>8, <2>9
    <3> QED
      BY <2>7, <3>1
  <2>11. Taken(paths', dict') = ToSet(qs)
    BY <1>1, <1>10 DEF Taken
  <2>12. \A j \in DOMAIN qs : qs[j] \notin unread'
    <3> SUFFICES ASSUME NEW j \in DOMAIN qs PROVE qs[j] \notin unread'
      OBVIOUS
    <3>1. qs[j] \in Files
      BY <1>6, SeqDomain
    <3> QED
      BY <1>1, <3>1, TreeAssumption
  <2>13. DOMAIN dict' = {}
    BY <1>1
  <2>14. L = ListedIn(content', unread') /\ touched' = touched
    BY DEF L
  <2>15. at' = "files" <=> paths' # <<>>
    BY <2>1
  <2>16. FilesInv'
    BY <1>7, <1>10, <2>7, <2>8, <2>10, <2>11, <2>12, <2>13, <2>14, <2>15 DEF FilesInv
  <2> QED
    BY <1>11, <1>13, <2>2, <2>16
<1> QED
  BY <1>14, <1>15

\* The step of the walk is one of the two.
LEMMA ListsDirectory ==
  ASSUME StageInv, TypeOK, TreeInv, ListDirectory
  PROVE  /\ paths' \in Seq(Files) /\ pending' \in Seq(Places) /\ unread' \subseteq Dirs
         /\ Begun' /\ TreeInv' /\ FilesInv'
<1>1. at = "tree" /\ UNCHANGED <<dict, content, touched>>
  BY DEF ListDirectory, world, changes
<1>2. Parsed
  BY <1>1 DEF StageInv, Stages
<1>3. unread \subseteq Dirs /\ Head(pending) \in Dirs
  BY <1>1 DEF TreeInv
<1>4. CASE Walk(Listing(Head(pending)) \o Tail(pending)) /\ UNCHANGED unread
  <2>1. Goes(Listing(Head(pending)) \o Tail(pending), unread')
    BY <1>1, <1>4, GoesOn
  <2> DEFINE es == Listing(Head(pending)) \o Tail(pending)
  <2>2. Goes(es, unread') /\ Walk(es)
    BY <1>4, <2>1
  <2> HIDE DEF es
  <2> QED
    BY <1>1, <1>2, <1>3, <1>4, <2>2, WalkKeeps
<1>5. CASE Walk(Tail(pending)) /\ unread' = unread \cup {Head(pending)}
  <2>1. Goes(Tail(pending), unread')
    BY <1>1, <1>5, GoesPast
  <2> DEFINE es == Tail(pending)
  <2>2. Goes(es, unread') /\ Walk(es)
    BY <1>5, <2>1
  <2> HIDE DEF es
  <2> QED
    BY <1>1, <1>2, <1>3, <1>5, <2>2, WalkKeeps
<1> QED
  BY <1>4, <1>5 DEF ListDirectory

-----------------------------------------------------------------------------
(* The files *)

\* A file read moves from the paths to the dictionary; one that is gone, binary
\* or not answered is dropped, and is none the dictionary is to hold.
LEMMA ReadsFile ==
  ASSUME StageInv, RepoInv, TypeOK, FilesInv, ReadFile
  PROVE  /\ paths' \in Seq(Files) /\ dict' \in Seq(DictEntries)
         /\ unread' \subseteq Dirs \cup Files
         /\ Begun' /\ TreeInv' /\ FilesInv'
<1> DEFINE L == ListedIn(content, unread)
<1>0. Head(paths) \in Files
  <2>1. paths \in Seq(Files) /\ paths # <<>>
    BY DEF TypeOK, FilesInv, ReadFile, StageInv, Stages, RepoInv
  <2> QED
    BY <2>1, TailByParts
<1>c. PICK f \in Files : f = Head(paths)
  BY <1>0
<1>1. /\ at = "files" /\ paths' = Tail(paths)
      /\ UNCHANGED <<content, touched, repoName, task, run>>
      /\ \/ dict' = dict \o ReadBlobContent(f) /\ unread' = unread
         \/ unread' = unread \cup {f} /\ dict' = dict
      /\ at' = IF paths' = <<>> THEN "history" ELSE "files"
  BY <1>c DEF ReadFile, Goto, world, changes, locals
<1>2. /\ Parsed /\ repoName # 0 /\ task.branch /\ (Parsed' <=> Parsed)
  BY <1>1 DEF StageInv, RepoInv, Stages, Parsed
<1>3. /\ paths # <<>> /\ Ordered(paths)
      /\ \A i \in DOMAIN dict, j \in DOMAIN paths : Before(dict[i].file, paths[j])
      /\ \A j \in DOMAIN paths : paths[j] \notin unread
      /\ \A g \in Taken(paths, dict) \ touched :
           g \in L /\ Earlier(L \ touched, g) < MaxFiles
      /\ \A i \in DOMAIN dict : dict[i].file \notin touched =>
           dict[i].version = content[dict[i].file] /\ Readable(dict[i].file)
      /\ \A g \in L \ touched :
           Readable(g) /\ Earlier(L \cup touched, g) < MaxFiles => g \in Taken(paths, dict)
  BY <1>1, <1>2 DEF FilesInv
<1>4. /\ paths \in Seq(Files) /\ dict \in Seq(DictEntries)
      /\ unread \subseteq Dirs \cup Files /\ content \in [Files -> 0..2]
  BY DEF TypeOK
<1>5. /\ f \in Files /\ paths' \in Seq(Files) /\ f = paths[1] /\ 1 \in DOMAIN paths
      /\ \A i \in DOMAIN paths' : i + 1 \in DOMAIN paths /\ 1 < i + 1 /\ paths'[i] = paths[i + 1]
      /\ \A i \in DOMAIN paths : i = 1 \/ (i - 1 \in DOMAIN paths' /\ paths'[i - 1] = paths[i])
  BY <1>c, <1>1, <1>3, <1>4, TailByParts
<1>6. /\ \A i \in DOMAIN paths' : paths'[i] \in Files /\ Before(f, paths'[i])
      /\ \A i \in DOMAIN dict : dict[i].file \in Files /\ Before(dict[i].file, f) /\ dict[i] \in DictEntries
  <2>0. \A d \in DictEntries : d.file \in Files
    BY EntryFields
  <2>1. \A i \in DOMAIN paths' : paths'[i] \in Files
    BY <1>5, SeqDomain
  <2>2. \A i \in DOMAIN paths' : Before(f, paths'[i])
    BY <1>3, <1>5 DEF Ordered
  <2>3. \A i \in DOMAIN dict : dict[i] \in DictEntries
    BY <1>4, SeqDomain
  <2>4. \A i \in DOMAIN dict : Before(dict[i].file, f)
    BY <1>3, <1>5
  <2> QED
    BY <2>0, <2>1, <2>2, <2>3, <2>4
<1>7. Ordered(paths')
  <2>1. \A i \in DOMAIN paths' : i \in Nat
    BY <1>5, SeqIndex
  <2>2. \A i, j \in DOMAIN paths' : i < j => i + 1 < j + 1
    BY <2>1
  <2> QED
    BY <1>3, <1>5, <2>2 DEF Ordered
<1>8. L = ListedIn(content', unread')
  <2>1. \A d \in Dirs : d \in unread <=> d \in unread'
    BY <1>1, <1>5, TreeAssumption
  <2> QED
    BY <1>1, <2>1 DEF ListedIn
<1>9. ToSet(paths) = ToSet(paths') \cup {f}
  BY <1>5 DEF ToSet
<1>10. \A j \in DOMAIN paths' : paths'[j] # f
  <2>1. Files \subseteq Places
    BY DEF Places
  <2> QED
    BY <1>5, <1>6, <2>1, BeforeIsStrict
<1>11. \A i \in DOMAIN dict : dict[i].file # f
  <2>1. Files \subseteq Places
    BY DEF Places
  <2> QED
    BY <1>5, <1>6, <2>1, BeforeIsStrict
<1>12. \A j \in DOMAIN paths' : paths'[j] \notin unread'
  BY <1>1, <1>3, <1>5, <1>10
<1>13. \A i \in DOMAIN dict, j \in DOMAIN paths' : Before(dict[i].file, paths'[j])
  BY <1>3, <1>5
<1>14. at' = "files" <=> paths' # <<>>
  BY <1>1
<1>15. at' \in {"files", "history"}
  BY <1>1
<1>16. Begun' /\ TreeInv'
  BY <1>15 DEF Begun, TreeInv, ToSearch, ToCount, ToRepositories
<1> DEFINE e == EntryOf(f, content[f])
           added == dict' = dict \o <<e>> /\ unread' = unread /\ content[f] # 0 /\ f \notin Binary
           gone  == dict' = dict /\ unread' = unread /\ (content[f] = 0 \/ f \in Binary)
           skip  == dict' = dict /\ unread' = unread \cup {f}
<1>17. added \/ gone \/ skip
  <2>1. CASE dict' = dict \o ReadBlobContent(f) /\ unread' = unread
    <3>1. CASE content[f] = 0 \/ f \in Binary
      <4>1. dict' = dict \o <<>>
        BY <2>1, <3>1 DEF ReadBlobContent
      <4> QED
        BY <1>4, <2>1, <3>1, <4>1
    <3>2. CASE ~(content[f] = 0 \/ f \in Binary)
      <4>1. dict' = dict \o <<e>>
        BY <2>1, <3>2 DEF ReadBlobContent
      <4> QED
        BY <2>1, <3>2, <4>1
    <3> QED
      BY <3>1, <3>2
  <2> QED
    BY <1>1, <2>1
<1>18. \A g \in L \ touched : g # f =>
         (Readable(g)' => Readable(g))
  BY <1>1 DEF Readable
<1>19. CASE added
  <2>1. e \in DictEntries /\ e.file = f /\ e.version = content[f]
    <3>1. f \in Files /\ content[f] \in 1..2
      BY <1>4, <1>5, <1>19
    <3> QED
      BY <3>1 DEF DictEntries, EntryOf
  <2>2. /\ dict' \in Seq(DictEntries)
        /\ \A i \in DOMAIN dict' : dict'[i] = e \/ (i \in DOMAIN dict /\ dict'[i] = dict[i])
        /\ \A i \in DOMAIN dict : i \in DOMAIN dict' /\ dict'[i] = dict[i]
        /\ \E i \in DOMAIN dict' : dict'[i] = e
    <3> HIDE DEF e
    <3>1. <<e>> \in Seq(DictEntries) /\ DOMAIN <<e>> = {1} /\ <<e>>[1] = e
      BY <2>1
    <3> DEFINE one == <<e>>
    <3>2. one \in Seq(DictEntries) /\ DOMAIN one = {1} /\ one[1] = e
      BY <3>1
    <3>3. dict' = dict \o one
      BY <1>19
    <3> HIDE DEF one
    <3> DEFINE R == DictEntries
    <3>4. dict \in Seq(R) /\ one \in Seq(R)
      BY <1>4, <3>2
    <3> HIDE DEF R
    <3>5. /\ dict \o one \in Seq(R)
          /\ \A i \in DOMAIN (dict \o one) :
               \/ i \in DOMAIN dict /\ (dict \o one)[i] = dict[i]
               \/ ~(i \in DOMAIN dict) /\ i - Len(dict) \in DOMAIN one /\ (dict \o one)[i] = one[i - Len(dict)]
          /\ \A i \in DOMAIN dict : i \in DOMAIN (dict \o one) /\ (dict \o one)[i] = dict[i]
          /\ \A i \in DOMAIN one : Len(dict) + i \in DOMAIN (dict \o one) /\ (dict \o one)[Len(dict) + i] = one[i]
      BY <3>4, ConcatByParts
    <3> DEFINE both == dict \o one
    <3>6. dict' = both
      BY <3>3
    <3>7. /\ both \in Seq(R)
          /\ \A i \in DOMAIN both :
               \/ i \in DOMAIN dict /\ both[i] = dict[i]
               \/ ~(i \in DOMAIN dict) /\ i - Len(dict) \in DOMAIN one /\ both[i] = one[i - Len(dict)]
          /\ \A i \in DOMAIN dict : i \in DOMAIN both /\ both[i] = dict[i]
          /\ \A i \in DOMAIN one : Len(dict) + i \in DOMAIN both /\ both[Len(dict) + i] = one[i]
      BY <3>5
    <3> HIDE DEF both
    <3>8. \A k \in DOMAIN one : one[k] = e
      BY <3>2
    <3>9. \A i \in DOMAIN both : both[i] = e \/ (i \in DOMAIN dict /\ both[i] = dict[i])
      <4>1. ASSUME NEW i \in DOMAIN both, ~(i \in DOMAIN dict /\ both[i] = dict[i]) PROVE both[i] = e
        <5>1. i - Len(dict) \in DOMAIN one /\ both[i] = one[i - Len(dict)]
          BY <3>7, <4>1
        <5> QED
          BY <3>8, <5>1
      <4> QED
        BY <4>1, Zenon
    <3>10. \E i \in DOMAIN both : both[i] = e
      BY <3>2, <3>7
    <3>11. \A i \in DOMAIN dict' : dict'[i] = e \/ (i \in DOMAIN dict /\ dict'[i] = dict[i])
      BY <3>6, <3>9
    <3>12. \A i \in DOMAIN dict : i \in DOMAIN dict' /\ dict'[i] = dict[i]
      BY <3>6, <3>7
    <3>13. dict' \in Seq(R)
      BY <3>6, <3>7
    <3>14. \E i \in DOMAIN dict' : dict'[i] = e
      BY <3>6, <3>10
    <3> QED
      BY <3>11, <3>12, <3>13, <3>14 DEF R
  <2> HIDE DEF e
  <2>3. Taken(paths', dict') = Taken(paths, dict)
    <3>1. {dict'[i].file : i \in DOMAIN dict'} = {dict[i].file : i \in DOMAIN dict} \cup {f}
      BY <2>1, <2>2
    <3> QED
      BY <1>9, <3>1 DEF Taken
  <2>4. f \notin touched => Readable(f)
    BY <1>3, <1>5, <1>19 DEF Readable
  <2>5. \A g : Readable(g)' <=> Readable(g)
    BY <1>19 DEF Readable
  <2>6. \A i \in DOMAIN dict' : dict'[i].file \notin touched =>
          dict'[i].version = content[dict'[i].file] /\ Readable(dict'[i].file)
    BY <1>3, <2>1, <2>2, <2>4
  <2>7. \A i \in DOMAIN dict', j \in DOMAIN paths' : Before(dict'[i].file, paths'[j])
    BY <1>6, <1>13, <2>1, <2>2
  <2>8. FilesInv'
    BY <1>1, <1>3, <1>7, <1>8, <1>12, <1>14, <2>3, <2>5, <2>6, <2>7 DEF FilesInv
  <2> QED
    BY <1>4, <1>5, <1>16, <1>19, <2>2, <2>8
<1>20. CASE gone
  <2>1. \A g \in Taken(paths', dict') : g \in Taken(paths, dict)
    BY <1>9, <1>20 DEF Taken
  <2>2. f \in L /\ Readable(f) => FALSE
    BY <1>20 DEF L, ListedIn, Readable
  <2>3. \A g \in Taken(paths, dict) : g # f => g \in Taken(paths', dict')
    BY <1>9, <1>20 DEF Taken
  <2>4. \A g : Readable(g)' <=> Readable(g)
    BY <1>20 DEF Readable
  <2>5. FilesInv'
    BY <1>1, <1>3, <1>7, <1>8, <1>12, <1>13, <1>14, <1>20, <2>1, <2>2, <2>3, <2>4 DEF FilesInv
  <2> QED
    BY <1>4, <1>5, <1>16, <1>20, <2>5
<1>21. CASE skip
  <2>1. \A g \in Taken(paths', dict') : g \in Taken(paths, dict)
    BY <1>9, <1>21 DEF Taken
  <2>2. ~Readable(f)' /\ \A g : Readable(g)' => Readable(g)
    BY <1>21 DEF Readable
  <2>3. \A g \in Taken(paths, dict) : g # f => g \in Taken(paths', dict')
    BY <1>9, <1>21 DEF Taken
  <2>4. \A i \in DOMAIN dict : Readable(dict[i].file) => Readable(dict[i].file)'
    BY <1>11, <1>21 DEF Readable
  <2>5. FilesInv'
    BY <1>1, <1>3, <1>7, <1>8, <1>12, <1>13, <1>14, <1>21, <2>1, <2>2, <2>3, <2>4 DEF FilesInv
  <2> QED
    BY <1>4, <1>5, <1>16, <1>21, <2>5
<1> QED
  BY <1>17, <1>19, <1>20, <1>21

-----------------------------------------------------------------------------
(* The commits of others *)

\* A commit takes its file out of what is asked of the dictionary.
LEMMA CommitKeeps ==
  ASSUME StageInv, RepoInv, TypeOK, Begun, TreeInv, FilesInv, NEW f \in Files, Commit(f)
  PROVE  content' \in [Files -> 0..2] /\ touched' \subseteq Files /\ Begun' /\ TreeInv' /\ FilesInv'
<1> DEFINE L == ListedIn(content, unread)
           M == ListedIn(content', unread)
<1>1. PICK v \in 0..2 : content' = [content EXCEPT ![f] = v]
  BY DEF Commit
<1>2. /\ at \in {"tree", "files"} /\ touched' = touched \cup {f}
      /\ UNCHANGED <<run, at, task, repoName, pending, paths, dict, unread>>
  BY DEF Commit, Edit, locals, walk
<1>3. content \in [Files -> 0..2] /\ touched \subseteq Files
  BY DEF TypeOK
<1>4. content' \in [Files -> 0..2] /\ touched' \subseteq Files
      /\ \A g \in Files : g # f => content'[g] = content[g]
  BY <1>1, <1>2, <1>3
<1>5. Begun'
  BY <1>2 DEF Begun, ToSearch, ToCount, ToRepositories
<1>6. /\ \A g \in M \ touched' : g \in L \ touched
      /\ L \cup touched \subseteq M \cup touched'
      /\ \A g \in L \ touched' : g \in M
      /\ L \subseteq Files /\ M \subseteq Files
  BY <1>2, <1>4 DEF ListedIn
<1>7. ASSUME NEW s \in Seq(Places), Clean(s, content, touched, unread) PROVE Clean(s, content', touched', unread)
  BY <1>2, <1>4, <1>7 DEF Clean
<1>8. TreeInv'
  <2>1. CASE at = "tree"
    <3>1. pending \in Seq(Places) /\ paths \in Seq(Places)
      BY DEF TypeOK, Places
    <3>2. /\ pending # <<>> /\ Head(pending) \in Dirs
          /\ Len(paths) < MaxFiles /\ dict = <<>> /\ unread \subseteq Dirs
          /\ Ordered(paths) /\ Ordered(pending) /\ Follows(paths, pending) /\ Behind(unread, pending)
          /\ Clean(paths, content, touched, unread) /\ Clean(pending, content, touched, unread)
          /\ \A g \in L \ touched : g \in ToSet(paths) \/ Reached(pending, g)
      BY <2>1 DEF TreeInv
    <3>3. Clean(paths, content', touched', unread) /\ Clean(pending, content', touched', unread)
      BY <1>7, <3>1, <3>2
    <3>4. \A g \in M \ touched' : g \in ToSet(paths) \/ Reached(pending, g)
      BY <1>6, <3>2
    <3>5. UNCHANGED <<at, pending, paths, dict, unread>>
      BY <1>2
    <3> QED
      BY <3>2, <3>3, <3>4, <3>5 DEF TreeInv
  <2>2. CASE at # "tree"
    BY <1>2, <2>2 DEF TreeInv
  <2> QED
    BY <2>1, <2>2
<1>9. FilesInv'
  <2>1. CASE at = "files" /\ Parsed /\ repoName # 0 /\ task.branch
    <3>1. /\ at = "files" <=> paths # <<>>
          /\ Ordered(paths)
          /\ \A i \in DOMAIN dict, j \in DOMAIN paths : Before(dict[i].file, paths[j])
          /\ \A j \in DOMAIN paths : paths[j] \notin unread
          /\ \A g \in Taken(paths, dict) \ touched : g \in L /\ Earlier(L \ touched, g) < MaxFiles
          /\ \A i \in DOMAIN dict : dict[i].file \notin touched =>
               dict[i].version = content[dict[i].file] /\ Readable(dict[i].file)
          /\ \A g \in L \ touched :
               Readable(g) /\ Earlier(L \cup touched, g) < MaxFiles => g \in Taken(paths, dict)
      BY <2>1 DEF FilesInv
    <3> HIDE DEF L, M
    <3>2. \A g : Earlier(M \ touched', g) <= Earlier(L \ touched, g)
                 /\ Earlier(M \ touched', g) \in Nat /\ Earlier(L \ touched, g) \in Nat
      <4>1. M \ touched' \subseteq L \ touched /\ L \ touched \in SUBSET Files
        BY <1>6
      <4> QED
        BY <4>1, EarlierGrows
    <3>3. \A g : Earlier(L \cup touched, g) <= Earlier(M \cup touched', g)
                 /\ Earlier(L \cup touched, g) \in Nat /\ Earlier(M \cup touched', g) \in Nat
      <4>1. L \cup touched \subseteq M \cup touched' /\ M \cup touched' \in SUBSET Files
        BY <1>4, <1>6
      <4> QED
        BY <4>1, EarlierGrows
    <3>4. MaxFiles \in Nat
      BY BoundAssumption
    <3>5. \A g \in Taken(paths, dict) \ touched' : g \in M /\ Earlier(M \ touched', g) < MaxFiles
      <4> SUFFICES ASSUME NEW g \in Taken(paths, dict) \ touched'
                   PROVE  g \in M /\ Earlier(M \ touched', g) < MaxFiles
        OBVIOUS
      <4>1. g \in Taken(paths, dict) \ touched
        BY <1>2
      <4>2. g \in L /\ Earlier(L \ touched, g) < MaxFiles
        BY <3>1, <4>1
      <4>3. g \in M
        BY <1>6, <4>2
      <4> QED
        BY <3>2, <3>4, <4>2, <4>3
    <3>6. \A g \in M \ touched' :
            Readable(g) /\ Earlier(M \cup touched', g) < MaxFiles => g \in Taken(paths, dict)
      <4> SUFFICES ASSUME NEW g \in M \ touched', Readable(g), Earlier(M \cup touched', g) < MaxFiles
                   PROVE  g \in Taken(paths, dict)
        OBVIOUS
      <4>1. Earlier(L \cup touched, g) < MaxFiles
        BY <3>3, <3>4
      <4> QED
        BY <1>6, <3>1, <4>1
    <3>7. \A i \in DOMAIN dict : dict[i].file \in Files
      <4>1. \A i \in DOMAIN dict : dict[i] \in DictEntries
        BY SeqDomain DEF TypeOK
      <4> QED
        BY <4>1, EntryFields
    <3>8. \A i \in DOMAIN dict : dict[i].file \notin touched' =>
               dict[i].version = content'[dict[i].file] /\ Readable(dict[i].file)
      BY <1>2, <1>4, <3>1, <3>7
    <3>9. \A g : Readable(g)' <=> Readable(g)
      BY <1>2 DEF Readable
    <3>10. M = ListedIn(content', unread')
      BY <1>2 DEF M
    <3>11. UNCHANGED <<at, paths, dict, unread>>
      BY <1>2
    <3> QED
      BY <3>1, <3>5, <3>6, <3>8, <3>9, <3>10, <3>11 DEF FilesInv
  <2>2. CASE ~(at = "files" /\ Parsed /\ repoName # 0 /\ task.branch)
    <3>1. ~(at' \in {"files", "history", "done"} /\ Parsed' /\ repoName' # 0 /\ task'.branch)
      BY <1>2, <2>2 DEF Parsed
    <3> QED
      BY <3>1 DEF FilesInv
  <2> QED
    BY <2>1, <2>2
<1> QED
  BY <1>4, <1>5, <1>8, <1>9

-----------------------------------------------------------------------------
(* The dictionary is the branch *)

LEMMA BeginWalkTypes == \A l : BeginWalk(l) => pending' \in Seq(Dirs \cup Files)
<1>1. Root \in Dirs \cup Files
  BY TreeAssumption
<1>2. <<>> \in Seq(Dirs \cup Files) /\ <<Root>> \in Seq(Dirs \cup Files)
  BY <1>1
<1> QED
  BY <1>2 DEF BeginWalk

\* The types, up to the walk.
LEMMA TypesBeforeWalk ==
  ASSUME TypeOK, RepoInv, StageInv,
         \/ FetchCatalogue \/ FetchTask \/ FetchProject \/ FetchRepositories
         \/ FetchTodo \/ FetchRunCount \/ FetchPrecalls \/ Search \/ EditTodo
  PROVE  TypeOK'
<1> USE DEF TypeOK, Stages, Goto, Miss, Parts, world, changes
<1>1. CASE FetchCatalogue
  BY <1>1 DEF FetchCatalogue, locals, walk
<1>2. CASE FetchTask
  BY <1>2 DEF FetchTask, walk
<1>3. CASE FetchProject
  BY <1>3 DEF FetchProject, walk
<1>4. CASE FetchRepositories
  <2>1. pending' \in Seq(Dirs \cup Files)
    BY <1>4, BeginWalkTypes DEF FetchRepositories
  <2>2. repoName' \in 0..MaxRepos
    BY <1>4, BoundAssumption DEF FetchRepositories, ChooseRepo
  <2>3. /\ at' \in Stages /\ failed' \subseteq Stages /\ has' \subseteq Parts
        /\ UNCHANGED <<run, world, task, precalls, results, paths, dict, unread, changes>>
    BY <1>4 DEF FetchRepositories, Branch
  <2>4. wanted' \in 0..MaxRepos
    BY <1>4, BoundAssumption DEF FetchRepositories
  <2> QED
    BY <2>1, <2>2, <2>3, <2>4
<1>5. CASE FetchTodo
  <2>1. pending' \in Seq(Dirs \cup Files)
    BY <1>5, BeginWalkTypes DEF FetchTodo
  <2> QED
    BY <1>5, <2>1 DEF FetchTodo, Branch, AfterMeta
<1>6. CASE FetchRunCount
  <2>1. pending' \in Seq(Dirs \cup Files)
    BY <1>6, BeginWalkTypes DEF FetchRunCount
  <2> QED
    BY <1>6, <2>1 DEF FetchRunCount, Branch, AfterMeta, locals
<1>7. CASE FetchPrecalls
  <2>1. pending' \in Seq(Dirs \cup Files)
    BY <1>7, BeginWalkTypes DEF FetchPrecalls
  <2> QED
    BY <1>7, <2>1 DEF FetchPrecalls, Branch
<1>8. CASE Search
  <2>1. pending' \in Seq(Dirs \cup Files)
    BY <1>8, BeginWalkTypes DEF Search
  <2>2. at' \in Stages /\ failed' \subseteq Stages
    BY <1>8 DEF Search, Branch
  <2>3. results' \in 0..2 /\ precalls' \in 0..2
    BY <1>8 DEF Search
  <2>4. UNCHANGED <<run, world, task, wanted, repoName, paths, dict, has, unread, changes>>
    BY <1>8 DEF Search
  <2> QED
    BY <2>1, <2>2, <2>3, <2>4
<1>9. CASE EditTodo
  BY <1>9, BoundAssumption DEF EditTodo, Edit, locals, walk
<1> QED
  BY <1>1, <1>2, <1>3, <1>4, <1>5, <1>6, <1>7, <1>8, <1>9

LEMMA BranchStep == StageInv /\ RepoInv /\ BranchInv /\ [Next]_vars => BranchInv'
<1> SUFFICES ASSUME StageInv, RepoInv, BranchInv, [Next]_vars PROVE BranchInv'
  OBVIOUS
<1>0. TypeOK /\ Begun /\ TreeInv /\ FilesInv
  BY DEF BranchInv
<1>1. ASSUME \/ FetchCatalogue \/ FetchTask \/ FetchProject \/ FetchRepositories
             \/ FetchTodo \/ FetchRunCount \/ FetchPrecalls \/ Search \/ EditTodo
      PROVE  BranchInv'
  <2>1. Ahead /\ at \in ToSearch
    BY <1>1, RequestsAhead
  <2>2. Begun' /\ TreeInv' /\ FilesInv'
    BY <1>0, <2>1, WalkBegins
  <2>3. TypeOK'
    BY <1>0, <1>1, TypesBeforeWalk
  <2> QED
    BY <2>2, <2>3 DEF BranchInv
<1>2. CASE ListDirectory
  <2>1. /\ paths' \in Seq(Files) /\ pending' \in Seq(Places) /\ unread' \subseteq Dirs
        /\ Begun' /\ TreeInv' /\ FilesInv'
    BY <1>0, <1>2, ListsDirectory
  <2>2. at' \in Stages
    BY <1>2, WalkStage DEF ListDirectory, Stages
  <2>3. UNCHANGED <<run, world, locals, dict, has, failed, changes>>
    BY <1>2 DEF ListDirectory
  <2>4. TypeOK'
    BY <1>0, <2>1, <2>2, <2>3 DEF TypeOK, world, locals, changes, Places
  <2> QED
    BY <2>1, <2>4 DEF BranchInv
<1>3. CASE ReadFile
  <2>1. /\ paths' \in Seq(Files) /\ dict' \in Seq(DictEntries)
        /\ unread' \subseteq Dirs \cup Files
        /\ Begun' /\ TreeInv' /\ FilesInv'
    BY <1>0, <1>3, ReadsFile
  <2>2. at' \in Stages /\ failed' = failed
    BY <1>3 DEF ReadFile, Goto, Stages
  <2>3. UNCHANGED <<run, world, locals, pending, has, changes>>
    BY <1>3 DEF ReadFile
  <2>4. TypeOK'
    BY <1>0, <2>1, <2>2, <2>3 DEF TypeOK, world, locals, changes
  <2> QED
    BY <2>1, <2>4 DEF BranchInv
<1>4. CASE LoadHistory
  <2>1. /\ at = "history" /\ at' = "done" /\ has' \subseteq has \cup {"history"}
        /\ failed' \subseteq failed \cup {"history"}
        /\ UNCHANGED <<run, world, locals, walk, unread, changes>>
    BY <1>4 DEF LoadHistory, Goto, Miss
  <2>2. TypeOK'
    BY <1>0, <2>1 DEF TypeOK, Stages, Parts, world, locals, walk, changes
  <2>3. Begun' /\ TreeInv'
    BY <2>1 DEF Begun, TreeInv, ToSearch, ToCount, ToRepositories
  <2>4. UNCHANGED <<run, task, repoName, content, paths, dict, unread, touched>>
    BY <2>1 DEF world, locals, walk, changes
  <2>5. \A g : Readable(g)' <=> Readable(g)
    BY <2>4 DEF Readable
  <2>6. FilesInv'
    BY <1>0, <2>1, <2>4, <2>5 DEF FilesInv, Parsed
  <2> QED
    BY <2>2, <2>3, <2>6 DEF BranchInv
<1>5. ASSUME NEW f \in Files, Commit(f) PROVE BranchInv'
  <2>1. content' \in [Files -> 0..2] /\ touched' \subseteq Files /\ Begun' /\ TreeInv' /\ FilesInv'
    BY <1>0, <1>5, CommitKeeps
  <2>2. TypeOK'
    BY <1>0, <1>5, <2>1, BoundAssumption DEF TypeOK, Commit, Edit, locals, walk
  <2> QED
    BY <2>1, <2>2 DEF BranchInv
<1>7. CASE Hang
  <2>1. /\ at' = Hung /\ UNCHANGED <<run, world, locals, walk, has, failed, unread, changes>>
    BY <1>7 DEF Hang
  <2>2. TypeOK'
    BY <1>0, <2>1 DEF TypeOK, world, locals, walk, changes
  <2>3. Begun' /\ TreeInv' /\ FilesInv'
    BY <2>1 DEF Begun, TreeInv, FilesInv, Hung, ToSearch, ToCount, ToRepositories
  <2> QED
    BY <2>2, <2>3 DEF BranchInv
<1>6. CASE UNCHANGED vars
  <2>1. UNCHANGED <<run, world, at, locals, walk, has, failed, unread, changes>>
    BY <1>6 DEF vars
  <2>2. TypeOK'
    BY <1>0, <2>1 DEF TypeOK, world, locals, walk, changes
  <2>3. UNCHANGED <<run, at, task, repoName, content, pending, paths, dict, unread, touched>>
    BY <2>1 DEF world, locals, walk, changes
  <2>4. Begun' /\ TreeInv'
    BY <1>0, <2>3 DEF Begun, TreeInv
  <2>5. \A g : Readable(g)' <=> Readable(g)
    BY <2>3 DEF Readable
  <2>6. FilesInv'
    BY <1>0, <2>3, <2>5 DEF FilesInv, Parsed
  <2> QED
    BY <2>2, <2>4, <2>6 DEF BranchInv
<1> QED
  BY <1>1, <1>2, <1>3, <1>4, <1>5, <1>6, <1>7 DEF Next, Assemble, Others

LEMMA InitBranch == Init => BranchInv
<1> SUFFICES ASSUME Init PROVE BranchInv
  OBVIOUS
<1>1. TypeOK
  <2>1. /\ projectRepo \in 0..MaxRepos /\ repoList \in 0..MaxRepos /\ 0 \in 0..MaxRepos
    BY BoundAssumption DEF Init
  <2>2. Absent \in [branch : BOOLEAN, project : BOOLEAN]
    BY DEF Absent
  <2>2a. taskRec \in [branch : BOOLEAN, project : BOOLEAN] /\ task \in [branch : BOOLEAN, project : BOOLEAN]
    <3>1. taskRec \in [branch : BOOLEAN, project : BOOLEAN] \/ taskRec \in {Absent}
      BY DEF Init
    <3> QED
      BY <2>2, <3>1 DEF Init
  <2>3. todoRec \in 0..2
    BY DEF Init
  <2>4. content \in [Files -> 0..2]
    BY DEF Init
  <2>5. /\ pending \in Seq(Dirs \cup Files) /\ paths \in Seq(Files)
        /\ dict \in Seq(DictEntries)
    BY DEF Init
  <2>6. edits \in 0..MaxEdits
    BY BoundAssumption DEF Init
  <2>7. /\ run \in [instructions : Instructions, dispatched : BOOLEAN, task : BOOLEAN,
                     todo : BOOLEAN, later : BOOLEAN]
        /\ at \in Stages /\ has = {} /\ failed = {} /\ unread = {} /\ touched = {} /\ redone = FALSE
        /\ wanted = 0 /\ repoName = 0 /\ precalls = 0 /\ results = 0
    BY DEF Init, Stages
  <2>7a. /\ wanted \in 0..MaxRepos /\ repoName \in 0..MaxRepos /\ precalls \in 0..2 /\ results \in 0..2
    BY <2>1, <2>7
  <2>8. /\ has \subseteq Parts /\ failed \subseteq Stages /\ unread \subseteq Dirs \cup Files
        /\ redone \in BOOLEAN /\ touched \subseteq Files
    BY DEF Init
  <2>9. run \in [instructions : Instructions, dispatched : BOOLEAN, task : BOOLEAN,
                  todo : BOOLEAN, later : BOOLEAN] /\ at \in Stages
    BY <2>7
  <2>10. projectRepo \in 0..MaxRepos /\ repoList \in 0..MaxRepos
    BY <2>1
  <2> QED
    BY <2>2a, <2>3, <2>4, <2>5, <2>6, <2>7a, <2>8, <2>9, <2>10 DEF TypeOK
<1>2. Begun /\ TreeInv /\ FilesInv
  BY DEF Init, Begun, TreeInv, FilesInv
<1> QED
  BY <1>1, <1>2 DEF BranchInv

LEMMA BranchHolds == Spec => []BranchInv
<1>1. Init => StageInv /\ RepoInv
  BY InitStage DEF Init, RepoInv, ToRepositories
<1> QED
  BY <1>1, InitBranch, BranchStep, StageStep, RepoStep, PTL DEF Spec

\* Every variable keeps its type, whatever the tree is and whoever commits: the
\* dictionary holds files with a content, and what could not be listed or read
\* is of the tree (fetchBranchFileDict, listAllFiles, readBlobContent).
THEOREM TypeCorrect == Spec => []TypeOK
BY BranchHolds, PTL DEF BranchInv

\* The dictionary is the branch: a file nobody commits to meanwhile is in it,
\* with its content or the first 10 KB of it marked as such, exactly when a
\* listing leads to it, it is readable text, and fewer than MaxFiles files come
\* before it in the tree, whatever the tree,
\* the limit, the failures and the commits (listAllFiles, fetchBranchFileDict).
THEOREM DictionaryIsRight == Spec => []DictionaryIsTheBranch
<1>1. BranchInv => DictionaryIsTheBranch
  <2> SUFFICES ASSUME BranchInv, at \in {"history", "done"}, Root \notin unread, Parsed, repoName # 0, task.branch,
                      NEW f \in Files \ touched
               PROVE  LET inDict == \E i \in DOMAIN dict : dict[i] = EntryOf(f, content[f])
                          named == \E i \in DOMAIN dict : dict[i].file = f
                      IN /\ named => inDict /\ f \in Listed /\ Readable(f) /\ Earlier(Listed \ touched, f) < MaxFiles
                         /\ f \in Listed /\ Readable(f) /\ Earlier(Listed \cup touched, f) < MaxFiles => inDict
    BY DEF DictionaryIsTheBranch
  <2> DEFINE L == ListedIn(content, unread)
  <2>1. /\ paths = <<>>
        /\ \A g \in Taken(paths, dict) \ touched : g \in L /\ Earlier(L \ touched, g) < MaxFiles
        /\ \A i \in DOMAIN dict : dict[i].file \notin touched =>
             dict[i].version = content[dict[i].file] /\ Readable(dict[i].file)
        /\ \A g \in L \ touched :
             Readable(g) /\ Earlier(L \cup touched, g) < MaxFiles => g \in Taken(paths, dict)
    BY DEF BranchInv, FilesInv
  <2>2. \A g : g \in Taken(paths, dict) <=> \E i \in DOMAIN dict : dict[i].file = g
    BY <2>1 DEF Taken, ToSet
  <2>3. \A i \in DOMAIN dict : dict[i].file = f => dict[i] = EntryOf(f, content[f]) /\ Readable(f)
    <3>1. \A i \in DOMAIN dict : dict[i] \in DictEntries
      BY SeqDomain DEF BranchInv, TypeOK
    <3> QED
      BY <2>1, <3>1, EntryFields
  <2>4. Listed = L
    BY ListedAs
  <2> HIDE DEF L
  <2>5. ASSUME NEW i \in DOMAIN dict, dict[i].file = f
        PROVE  /\ dict[i] = EntryOf(f, content[f]) /\ f \in L /\ Readable(f)
               /\ Earlier(L \ touched, f) < MaxFiles
    BY <2>1, <2>2, <2>3, <2>5
  <2>6. ASSUME f \in L, Readable(f), Earlier(L \cup touched, f) < MaxFiles
        PROVE  \E i \in DOMAIN dict : dict[i] = EntryOf(f, content[f])
    BY <2>1, <2>2, <2>3, <2>6
  <2> QED
    BY <2>4, <2>5, <2>6 DEF Earlier
<1> QED
  BY <1>1, BranchHolds, PTL

-----------------------------------------------------------------------------
(* A failed request costs the parts that take it *)

\* The task and the repository the later requests go by are those that were
\* answered; there are results only when every request for them was.
SourceInv ==
  at # Hung =>
    /\ at \in {"catalogue", "task"} => "task" \notin failed
    /\ at \notin {"catalogue", "task"} =>
         task = IF Parsed /\ run.task /\ "task" \notin failed THEN taskRec ELSE Absent
    /\ at \in ToRepositories => "repositories" \notin failed
    /\ at \notin ToRepositories =>
         (repoName # 0 <=> Parsed /\ repoList # 0 /\ "repositories" \notin failed)
    /\ at \in ToSearch => results = 0 /\ "search" \notin failed
    /\ at \in ToCount \cup {"precalls"} => "precalls" \notin failed
    /\ at \in {"precalls", "search"} => repoName # 0 /\ "todo" \notin failed
    /\ at = "search" => "precalls" \notin failed
    /\ results # 0 =>
         Parsed /\ run.todo /\ repoName # 0 /\ {"todo", "precalls", "search"} \cap failed = {}

LEMMA SourceStep == StageInv /\ RepoInv /\ TypeOK /\ SourceInv /\ [Next]_vars => SourceInv'
<1> SUFFICES ASSUME StageInv, RepoInv, TypeOK, SourceInv, [Next]_vars PROVE SourceInv'
  OBVIOUS
<1>0. repoList \in Nat /\ \A name : ChooseRepo(repoList, name) # 0 <=> repoList # 0
  <2>1. repoList \in Nat
    BY BoundAssumption DEF TypeOK
  <2> QED
    BY <2>1 DEF ChooseRepo
<1> USE DEF StageInv, Hung, Stages, Parsed, Goto, Miss, SourceInv, ToRepositories, ToCount, ToSearch
<1>1. CASE FetchCatalogue
  BY <1>1 DEF FetchCatalogue, RepoInv, locals, walk, world, changes
<1>2. CASE FetchTask
  BY <1>2 DEF FetchTask, RepoInv, walk, world, changes
<1>3. CASE FetchProject
  BY <1>3 DEF FetchProject, walk, world, changes
<1>4. CASE FetchRepositories
  BY <1>0, <1>4 DEF FetchRepositories, RepoInv, Branch, world, changes
<1>5. CASE FetchTodo
  BY <1>5 DEF FetchTodo, Branch, AfterMeta, world, changes
<1>6. CASE FetchRunCount
  BY <1>6 DEF FetchRunCount, locals, Branch, AfterMeta, world, changes
<1>7. CASE FetchPrecalls
  BY <1>7 DEF FetchPrecalls, Branch, world, changes
<1>8. CASE Search
  BY <1>8 DEF Search, Branch, world, changes
<1>9. CASE ListDirectory
  <2>1. at' \in {"tree", "files", "history"} /\ at = "tree"
    BY <1>9, WalkStage DEF ListDirectory
  <2>2. UNCHANGED <<run, world, locals, dict, has, failed, changes>>
    BY <1>9 DEF ListDirectory
  <2> QED
    BY <2>1, <2>2 DEF world, locals, changes
<1>10. CASE ReadFile
  BY <1>10 DEF ReadFile, locals, world, changes
<1>11. CASE LoadHistory
  BY <1>11 DEF LoadHistory, locals, walk, world, changes
<1>12. CASE EditTodo
  BY <1>12 DEF EditTodo, Edit, locals, walk
<1>13. ASSUME NEW f \in Files, Commit(f) PROVE SourceInv'
  BY <1>13 DEF Commit, Edit, locals, walk
<1>14. CASE UNCHANGED vars
  BY <1>14 DEF vars, world, locals, walk, changes
<1>15. CASE Hang
  BY <1>15 DEF Hang
<1> QED
  BY <1>1, <1>2, <1>3, <1>4, <1>5, <1>6, <1>7, <1>8, <1>9, <1>10, <1>11, <1>12, <1>13, <1>14, <1>15
     DEF Next, Assemble, Others

\* Enrichment is best-effort request by request: a section is in the prompt
\* when the requests it takes were answered, whatever became of the others, and
\* not otherwise; the files of the branch take the task and the repositories,
\* the results of the precalls the repositories and the todo.
THEOREM FailuresCostTheirParts == Spec => []DegradesAlone
<1>1. Init => PartInv /\ PrecallInv /\ RepoInv /\ StageInv
  BY InitStage DEF Init, PartInv, Part, PrecallInv, RepoInv, ToRepositories, ToCount, ToSearch, Stages
<1>2. Init => SourceInv
  BY DEF Init, SourceInv, ToRepositories, ToCount, ToSearch
<1>3. ASSUME PartInv, PrecallInv, RepoInv, SourceInv, BranchInv, DictionaryIsTheBranch
      PROVE  DegradesAlone
  <2> SUFFICES ASSUME at = "done", NEW x \in Sections \ (IF redone THEN {"results"} ELSE {})
               PROVE  /\ InPrompt(x) => Applies(x) /\ Needs(x) \cap failed = {}
                      /\ Applies(x) /\ Needs(x) \cap failed = {} /\ HasContent(x) => InPrompt(x)
    BY DEF DegradesAlone
  <2>0. at # Hung /\ at \notin ToSearch /\ at \notin ToRepositories /\ at \notin ToCount
    BY DEF Hung, ToSearch, ToCount, ToRepositories
  <2>1. CASE x = "results"
    <3>1. ~redone
      BY <2>1
    <3>2. repoName # 0 <=> Parsed /\ repoList # 0 /\ "repositories" \notin failed
      BY <1>3, <2>0 DEF SourceInv
    <3>3. results # 0 => Parsed /\ run.todo /\ repoName # 0 /\ {"todo", "precalls", "search"} \cap failed = {}
      BY <1>3, <2>0 DEF SourceInv
    <3>4. Parsed /\ run.todo /\ repoName # 0 /\ {"todo", "precalls", "search"} \cap failed = {}
            => results = todoRec
      BY <1>3, <2>0, <3>1 DEF PrecallInv
    <3> QED
      BY <2>1, <3>2, <3>3, <3>4 DEF InPrompt, Applies, Needs, HasContent
  <2>2. CASE x = "files"
    <3>1. task = IF Parsed /\ run.task /\ "task" \notin failed THEN taskRec ELSE Absent
      BY <1>3, <2>0 DEF SourceInv
    <3>2. repoName # 0 <=> Parsed /\ repoList # 0 /\ "repositories" \notin failed
      BY <1>3, <2>0 DEF SourceInv
    <3>3. dict # <<>> => task.branch /\ repoName # 0
      BY <1>3 DEF RepoInv
    <3>4. task.branch => Parsed /\ run.task /\ "task" \notin failed /\ taskRec.branch
      BY <3>1 DEF Absent
    <3>5. Parsed /\ run.task /\ "task" \notin failed /\ taskRec.branch => task.branch
      BY <3>1
    <3>6. ASSUME task.branch, repoName # 0, Parsed, HasContent("files") PROVE dict # <<>>
      <4>1. PICK f \in Listed \ touched : Readable(f) /\ Earlier(Listed \cup touched, f) < MaxFiles
        BY <3>6 DEF HasContent
      <4>2. f \in Files /\ \A d \in Dirs : IsPrefix(d, f) => d \notin unread
        BY <4>1 DEF Listed
      <4>3. Root \notin unread
        BY <4>2, RootLeadsToAll, TreeAssumption DEF Places
      <4>4. \E i \in DOMAIN dict : dict[i] = EntryOf(f, content[f])
        BY <1>3, <3>6, <4>1, <4>2, <4>3 DEF DictionaryIsTheBranch
      <4> QED
        BY <4>4
    <3> QED
      BY <2>2, <3>2, <3>3, <3>4, <3>5, <3>6 DEF InPrompt, Applies, Needs
  <2>3. CASE x \in Parts
    <3>1. x \in has <=> Applies(x) /\ Needs(x) \cap failed = {}
      BY <1>3, <2>0, <2>3 DEF PartInv, Part, Parts, Stages, ToRepositories, ToCount, Needs
    <3>2. InPrompt(x) <=> x \in has
      BY <2>3 DEF InPrompt, Parts
    <3> QED
      BY <3>1, <3>2
  <2> QED
    BY <2>1, <2>2, <2>3 DEF Sections
<1>4. BranchInv => TypeOK
  BY DEF BranchInv
<1> QED
  BY <1>1, <1>2, <1>3, <1>4, PartStep, PrecallStep, RepoStep, StageStep, SourceStep, BranchHolds,
     DictionaryIsRight, PTL DEF Spec
=============================================================================
