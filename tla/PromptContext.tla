---------------------------- MODULE PromptContext ----------------------------
(***************************************************************************)
(* How ExecuteRunStreaming assembles the prompt of one session             *)
(* (buildSystemPrompt, HydrateEventContext, loadChainHistory): one HTTP    *)
(* request or store read per step, each of which may fail without failing  *)
(* the run, while other services edit what is being read.                  *)
(*                                                                         *)
(* The context has one source for every part: the registry of              *)
(* CodeValdCross, the task, its project and its todo of CodeValdWork, the  *)
(* repositories and the branch of CodeValdGit, and the AgentRun rows.      *)
(* http.DefaultClient has no timeout and the context no deadline: a        *)
(* request is answered, or fails, or hangs for good.                       *)
(***************************************************************************)
EXTENDS Naturals, FiniteSets, SequencesExt

CONSTANTS
  MaxRepos,     \* bound: repositories of the agency
  Dirs, Files,  \* paths the tree of the branch may hold: sequences of names
  Entries,      \* what a directory holds, in the order it is listed
  Binary,       \* files CodeValdGit returns base64-encoded
  Long,         \* <<file, version>> of more than maxFileBytes, which is 10 KB
  MaxFiles,     \* maxFiles of fetchBranchFileDict
  MaxFailures,  \* bound: requests that are not answered
  MaxEdits      \* bound: edits by others while the prompt is assembled

Root == <<>>

\* What a path lies in is a directory, which lists it once.
ASSUME TreeAssumption ==
  /\ Root \in Dirs /\ Dirs \cap Files = {} /\ Binary \subseteq Files /\ IsFiniteSet(Files)
  /\ Long \subseteq Files \X (1..2)
  /\ Dirs \cup Files \subseteq Seq(STRING)
  /\ \A x \in Dirs \cup Files : \A n \in 0..(Len(x) - 1) : SubSeq(x, 1, n) \in Dirs
  /\ Entries \in [Dirs -> Seq(Dirs \cup Files)]
  /\ \A d \in Dirs : /\ IsInjective(Entries[d])
                     /\ ToSet(Entries[d]) = {x \in Dirs \cup Files : x # Root /\ Front(x) = d}
ASSUME BoundAssumption == MaxFiles \in Nat \ {0} /\ MaxRepos \in Nat /\ MaxFailures \in Nat /\ MaxEdits \in Nat

VARIABLES
  \* the run
  run,          \* [instructions, dispatched, task, todo, later]: its Instructions
                \* as a sequence of texts and objects; whether RACIDispatcher
                \* wrote them; what the payload in them names; session > 1
  \* the other services
  taskRec,      \* the task: [branch, project], whether it has one
  projectRepo,  \* repo_name of the project; 0 for none
  repoList,     \* the repositories: as many, named by their place in the list
  todoRec,      \* precalls of the todo: 0 for none, or a version
  content,      \* of each file of the branch: 0 for absent, or a version
  \* the assembly
  at,
  task,         \* the fields of hydratedTask that were read
  wanted,       \* ProjectRepoName; 0 for none
  repoName,     \* the repository chosen; 0 for none
  precalls,     \* Todo.Precalls as first read; 0 for none
  results,      \* the precalls whose results are in the prompt; 0 for none
  pending,      \* entries of the tree still to walk, in order
  paths,        \* files listed and not yet read, in order
  dict,         \* the file dictionary: [file, version, truncated] in order
  has,          \* the parts the prompt has got
  \* history, read by properties only
  failed,       \* requests outside the tree that were not answered
  unread,       \* directories and files whose request was not answered
  redone,       \* the todo was edited between its two reads
  touched,      \* files committed to while the branch was being read
  edits

world == <<taskRec, projectRepo, repoList, todoRec, content>>
walk  == <<pending, paths, dict>>
locals == <<task, wanted, repoName, precalls, results>>
changes == <<redone, touched, edits>>
vars == <<run, world, at, locals, walk, has, failed, unread, changes>>

Absent == [branch |-> FALSE, project |-> FALSE]

Stages == {"catalogue", "task", "project", "repositories", "todo", "count",
           "precalls", "search", "tree", "files", "history", "done"}
Hung == "hung"

\* A request is not answered, or with something else than what it asked for.
CanFail == Cardinality(failed) + Cardinality(unread) < MaxFailures
Miss(x, l) == CanFail /\ failed' = failed \cup {x} /\ at' = l
Goto(l) == at' = l /\ UNCHANGED failed

-----------------------------------------------------------------------------
(* buildDispatchInstructions and HydrateEventContext's json.Unmarshal *)

\* The plan's instructions and the topic, the payload, the context sources.
BuildDispatchInstructions(payload) == <<"text", payload, "text">>

\* json.Unmarshal takes the whole string: one object with nothing around it.
IsObject(instructions) == instructions = <<"object">>
Parsed == IsObject(run.instructions)

Payloads == {"text", "object"}
Instructions == {<<p>> : p \in Payloads} \cup {BuildDispatchInstructions(p) : p \in Payloads}

-----------------------------------------------------------------------------
\* Any state of the other services; of what no request will read, one.
Init ==
  /\ run \in [instructions : Instructions, dispatched : BOOLEAN, task : BOOLEAN,
              todo : BOOLEAN, later : BOOLEAN]
  /\ run.dispatched <=> Len(run.instructions) > 1
  /\ taskRec \in IF Parsed /\ run.task THEN [branch : BOOLEAN, project : BOOLEAN] ELSE {Absent}
  /\ projectRepo \in IF taskRec.project THEN 0..MaxRepos ELSE {0}
  /\ repoList \in IF Parsed THEN 0..MaxRepos ELSE {0}
  /\ todoRec \in IF Parsed /\ run.todo THEN {0, 1} ELSE {0}
  /\ content \in [Files -> IF taskRec.branch /\ repoList # 0 THEN {0, 1} ELSE {0}]
  /\ at = "catalogue"
  /\ task = Absent /\ wanted = 0 /\ repoName = 0
  /\ precalls = 0 /\ results = 0
  /\ pending = <<>> /\ paths = <<>> /\ dict = <<>>
  /\ has = {} /\ failed = {} /\ unread = {}
  /\ redone = FALSE /\ touched = {} /\ edits = 0

-----------------------------------------------------------------------------
(* buildSystemPrompt *)

\* FetchActionCatalogue, then the Instructions are parsed: what is not a JSON
\* object names no entity and nothing is fetched for it.
FetchCatalogue ==
  LET next == IF ~Parsed THEN "history" ELSE IF run.task THEN "task" ELSE "repositories" IN
  /\ at = "catalogue"
  /\ \/ has' = has \cup {"catalogue"} /\ Goto(next)
     \/ UNCHANGED has /\ Miss("catalogue", next)
  /\ UNCHANGED <<run, world, locals, walk, unread, changes>>

-----------------------------------------------------------------------------
(* HydrateEventContext *)

(* Faulty variants of definitions below; no behaviour uses them. *)

\* A task that cannot be read ends the enrichment.
FetchTaskOrNothing ==
  /\ at = "task"
  /\ \/ /\ task' = taskRec /\ has' = has \cup {"task"}
        /\ Goto(IF taskRec.project THEN "project" ELSE "repositories")
     \/ UNCHANGED <<task, has>> /\ Miss("task", "history")
  /\ UNCHANGED <<run, world, wanted, repoName, precalls, results, walk, unread, changes>>

\* The first repository, whichever the project has.
FirstRepo(list, name) == IF list # 0 THEN 1 ELSE 0

\* The results are wanted only for a task with a branch.
AfterMetaWithBranch(p) ==
  IF p # 0 /\ repoName # 0 /\ task.branch THEN "precalls"
  ELSE IF repoName # 0 /\ task.branch THEN "tree" ELSE "history"

\* The precalls wait until the two reads of the todo agree.
FetchPrecallsAgreed ==
  /\ at = "precalls" /\ precalls = todoRec
  /\ at' = "search" /\ UNCHANGED <<precalls, failed>>
  /\ pending' = <<>>
  /\ UNCHANGED <<run, world, task, wanted, repoName, results, paths, dict, has, unread, changes>>

\* The walk lists one file more than the limit.
WalkOneMore(es) ==
  LET d == SelectInSeq(es, LAMBDA e : e \in Dirs)
      files == IF d = 0 THEN es ELSE SubSeq(es, 1, d - 1)
      room == MaxFiles + 1 - Len(paths)
      over == d = 0 \/ Len(files) >= room
  IN /\ paths' = paths \o (IF Len(files) > room THEN SubSeq(files, 1, room) ELSE files)
     /\ pending' = IF over THEN <<>> ELSE SubSeq(es, d, Len(es))
     /\ at' = IF ~over THEN "tree" ELSE IF paths' = <<>> THEN "history" ELSE "files"

\* fetchTaskData.
FetchTask ==
  /\ at = "task"
  /\ \/ /\ task' = taskRec /\ has' = has \cup {"task"}
        /\ Goto(IF taskRec.project THEN "project" ELSE "repositories")
     \/ UNCHANGED <<task, has>> /\ Miss("task", "repositories")
  /\ UNCHANGED <<run, world, wanted, repoName, precalls, results, walk, unread, changes>>

\* fetchProjectRepoName.
FetchProject ==
  /\ at = "project"
  /\ \/ wanted' = projectRepo /\ Goto("repositories")
     \/ UNCHANGED wanted /\ Miss("project", "repositories")
  /\ UNCHANGED <<run, world, task, repoName, precalls, results, walk, has, unread, changes>>

\* The project's repository when it is listed, else the first one.
ChooseRepo(list, name) ==
  IF name \in 1..list THEN name ELSE IF list # 0 THEN 1 ELSE 0

\* What follows the todo, given the repository.
Branch(repo) == IF repo # 0 /\ task.branch THEN "tree" ELSE "history"
BeginWalk(l) == pending' = IF l = "tree" THEN <<Root>> ELSE <<>>

\* fetchRepoList and the choice.
FetchRepositories ==
  LET next(repo) == IF run.todo THEN "todo" ELSE Branch(repo) IN
  /\ at = "repositories"
  /\ \/ /\ repoName' = ChooseRepo(repoList, wanted)
        /\ has' = has \cup {"repositories"}
        /\ Goto(next(repoName'))
     \/ UNCHANGED <<repoName, has>> /\ Miss("repositories", next(0))
  /\ wanted' = 0
  /\ BeginWalk(at')
  /\ UNCHANGED <<run, world, task, precalls, results, paths, dict, unread, changes>>

\* What follows fetchTodoMeta: the precalls are run for a known repository only.
AfterMeta(p) == IF p # 0 /\ repoName # 0 THEN "precalls" ELSE Branch(repoName)

\* fetchTodoMeta reads the todo, which has a type; fetchRunCount follows when
\* the task is named.
FetchTodo ==
  /\ at = "todo"
  /\ \/ /\ precalls' = todoRec /\ has' = has \cup {"meta"}
        /\ Goto(IF run.task THEN "count" ELSE AfterMeta(todoRec))
     \/ UNCHANGED <<precalls, has>> /\ Miss("todo", Branch(repoName))
  /\ BeginWalk(at')
  /\ UNCHANGED <<run, world, task, wanted, repoName, results, paths, dict, unread, changes>>

FetchRunCount ==
  /\ at = "count"
  /\ \/ has' = has \cup {"count"} /\ Goto(AfterMeta(precalls))
     \/ UNCHANGED has /\ Miss("count", AfterMeta(precalls))
  /\ BeginWalk(at')
  /\ UNCHANGED <<run, world, locals, paths, dict, unread, changes>>

\* fetchTodoPrecalls reads the todo again, and what it runs is what it reads now.
FetchPrecalls ==
  /\ at = "precalls"
  /\ \/ /\ precalls' = todoRec
        /\ Goto(IF todoRec # 0 THEN "search" ELSE Branch(repoName))
     \/ UNCHANGED precalls /\ Miss("precalls", Branch(repoName))
  /\ BeginWalk(at')
  /\ UNCHANGED <<run, world, task, wanted, repoName, results, paths, dict, has, unread, changes>>

\* executePrecall; a failed or an empty search leaves no trace.
Search ==
  /\ at = "search"
  /\ \/ results' = precalls /\ Goto(Branch(repoName))
     \/ UNCHANGED results /\ Miss("search", Branch(repoName))
  /\ precalls' = 0
  /\ BeginWalk(at')
  /\ UNCHANGED <<run, world, task, wanted, repoName, paths, dict, has, unread, changes>>

-----------------------------------------------------------------------------
(* fetchBranchFileDict *)

\* A directory exists as long as a file lies in it.
Exists(x) == \E f \in Files : content[f] # 0 /\ IsPrefix(x, f)

\* The numbers of S in increasing order.
InOrder(S) ==
  CHOOSE p \in [1..Cardinality(S) -> S] : \A j, k \in DOMAIN p : j < k => p[j] < p[k]

\* The entries of a directory that exist, in the order they are listed.
Listing(d) ==
  LET p == InOrder({i \in DOMAIN Entries[d] : Exists(Entries[d][i])})
  IN [k \in DOMAIN p |-> Entries[d][p[k]]]

\* The files at the head of the entries es are listed, up to MaxFiles in all;
\* the walk stops in front of the next directory.
Walk(es) ==
  LET d == SelectInSeq(es, LAMBDA e : e \in Dirs)
      files == IF d = 0 THEN es ELSE SubSeq(es, 1, d - 1)
      room == MaxFiles - Len(paths)
      over == d = 0 \/ Len(files) >= room
  IN /\ paths' = paths \o (IF Len(files) > room THEN SubSeq(files, 1, room) ELSE files)
     /\ pending' = IF over THEN <<>> ELSE SubSeq(es, d, Len(es))
     /\ at' = IF ~over THEN "tree" ELSE IF paths' = <<>> THEN "history" ELSE "files"

\* listAllFiles for the next directory, depth first; one that cannot be listed
\* is left out with all it holds.
ListDirectory ==
  /\ at = "tree"
  /\ \/ /\ \E es \in {Listing(Head(pending))} : Walk(es \o Tail(pending))
        /\ UNCHANGED unread
     \/ /\ CanFail /\ Walk(Tail(pending))
        /\ unread' = unread \cup {Head(pending)}
  /\ UNCHANGED <<run, world, locals, dict, has, failed, changes>>

\* What the dictionary says of a version of a file: its first 10 KB, and
\* whether that is not all of it.
EntryOf(f, v) == [file |-> f, version |-> v, truncated |-> <<f, v>> \in Long]
DictEntries == {EntryOf(f, v) : f \in Files, v \in 1..2}

\* What the read of a file adds: nothing for one that is gone or binary.
ReadBlobContent(f) ==
  IF content[f] = 0 \/ f \in Binary THEN <<>> ELSE <<EntryOf(f, content[f])>>

\* The next file of fetchBranchFileDict; one that cannot be read is skipped.
ReadFile ==
  LET f == Head(paths) IN
  /\ at = "files"
  /\ paths' = Tail(paths)
  /\ \/ /\ dict' = dict \o ReadBlobContent(f)
        /\ UNCHANGED unread
     \/ CanFail /\ unread' = unread \cup {f} /\ UNCHANGED dict
  /\ Goto(IF paths' = <<>> THEN "history" ELSE "files")
  /\ UNCHANGED <<run, world, locals, pending, has, changes>>

-----------------------------------------------------------------------------
\* loadChainHistory, for a session after the first.  The prompt is complete.
LoadHistory ==
  /\ at = "history"
  /\ \/ ~run.later /\ UNCHANGED has /\ Goto("done")
     \/ run.later /\ has' = has \cup {"history"} /\ Goto("done")
     \/ run.later /\ UNCHANGED has /\ Miss("history", "done")
  /\ UNCHANGED <<run, world, locals, walk, unread, changes>>

-----------------------------------------------------------------------------
(* The other services, while the prompt is assembled.  What they do before a
   part is read is in the choice of the initial state. *)

Edit == /\ edits < MaxEdits /\ edits' = edits + 1
        /\ UNCHANGED <<run, taskRec, projectRepo, repoList, at, locals, walk, has, failed, unread>>

\* The todo is edited between its two reads.
EditTodo ==
  /\ Edit /\ at \in {"count", "precalls"}
  /\ todoRec' \in 0..2 \ {todoRec} /\ redone' = TRUE
  /\ UNCHANGED <<content, touched>>

\* A commit on the branch writes or removes a file while it is being read.
Commit(f) ==
  /\ Edit /\ at \in {"tree", "files"}
  /\ \E v \in 0..2 \ {content[f]} : content' = [content EXCEPT ![f] = v]
  /\ touched' = touched \cup {f}
  /\ UNCHANGED <<todoRec, redone>>

-----------------------------------------------------------------------------
Assemble == \/ FetchCatalogue \/ FetchTask \/ FetchProject \/ FetchRepositories
            \/ FetchTodo \/ FetchRunCount \/ FetchPrecalls \/ Search
            \/ ListDirectory \/ ReadFile \/ LoadHistory

Others == EditTodo \/ \E f \in Files : Commit(f)

\* An HTTP request that never ends, and the session with it; the rows of the
\* history are read from the store.
Hang ==
  /\ at \notin {"history", "done", Hung} /\ at' = Hung
  /\ UNCHANGED <<run, world, locals, walk, has, failed, unread, changes>>

Next == Assemble \/ Others \/ Hang

Spec == Init /\ [][Next]_vars

\* What is answered or fails is followed by the next request; nothing makes a
\* request end, see Hang.
FairSpec == Spec /\ WF_vars(Assemble)

-----------------------------------------------------------------------------
(* Properties *)

\* The parts of the prompt.
Parts == {"catalogue", "task", "repositories", "meta", "count", "history"}

TypeOK ==
  /\ run \in [instructions : Instructions, dispatched : BOOLEAN, task : BOOLEAN,
              todo : BOOLEAN, later : BOOLEAN]
  /\ taskRec \in [branch : BOOLEAN, project : BOOLEAN]
  /\ projectRepo \in 0..MaxRepos /\ repoList \in 0..MaxRepos
  /\ todoRec \in 0..2 /\ content \in [Files -> 0..2]
  /\ at \in Stages \cup {Hung}
  /\ task \in [branch : BOOLEAN, project : BOOLEAN]
  /\ wanted \in 0..MaxRepos /\ repoName \in 0..MaxRepos
  /\ precalls \in 0..2 /\ results \in 0..2
  /\ pending \in Seq(Dirs \cup Files) /\ paths \in Seq(Files)
  /\ dict \in Seq(DictEntries)
  /\ has \subseteq Parts
  /\ failed \subseteq Stages /\ unread \subseteq Dirs \cup Files
  /\ redone \in BOOLEAN /\ touched \subseteq Files
  /\ edits \in 0..MaxEdits

\* The files the model is told to write back to a repository are those of its
\* project's repository, unless the project could not be read, names none, or
\* names one that is not listed (ChooseRepo falls back to the first without a
\* word).
RightRepository ==
  dict # <<>> /\ taskRec.project /\ "project" \notin failed /\ projectRepo \in 1..repoList
    => repoName = projectRepo

\* x comes before y in the tree.
Before(x, y) ==
  \E d \in Dirs : \E i, j \in DOMAIN Entries[d] :
    i < j /\ IsPrefix(Entries[d][i], x) /\ IsPrefix(Entries[d][j], y)

\* Files a listing of the tree as it is now leads to, given what failed.
Listed == {f \in Files : content[f] # 0 /\ \A d \in Dirs : IsPrefix(d, f) => d \notin unread}
Readable(f) == f \notin Binary \cup unread

\* Of the files of S, those in front of f.
Earlier(S, f) == Cardinality({g \in S : Before(g, f)})

\* The dictionary is the branch: a file nobody commits to meanwhile is in it,
\* with its content or the first 10 KB of it marked as such, exactly when a
\* listing leads to it, it is readable text, and fewer than MaxFiles files come
\* before it - a failure costs the files below it and no other (listAllFiles,
\* fetchBranchFileDict).
DictionaryIsTheBranch ==
  at \in {"history", "done"} /\ Root \notin unread /\ Parsed /\ repoName # 0 /\ task.branch =>
    \A f \in Files \ touched :
      LET inDict == \E i \in DOMAIN dict : dict[i] = EntryOf(f, content[f])
          named == \E i \in DOMAIN dict : dict[i].file = f
      IN /\ named => inDict /\ f \in Listed /\ Readable(f) /\ Earlier(Listed \ touched, f) < MaxFiles
         /\ f \in Listed /\ Readable(f) /\ Earlier(Listed \cup touched, f) < MaxFiles => inDict

\* The results in the prompt are those of the precalls the todo holds, unless
\* it was edited after it was first read; they are missing only when a request
\* for them failed or no repository is known, although the search is not
\* bound to a repository (the two reads of the todo).
PrecallsFollowTodo ==
  at = "done" /\ ~redone =>
    /\ results \in {0, todoRec}
    /\ Parsed /\ run.todo /\ repoName # 0 /\ {"todo", "precalls", "search"} \cap failed = {}
         => results = todoRec

\* What is in the prompt, and the requests each part takes: the results of the
\* precalls and the files of the branch take the answers of others.
Sections == Parts \cup {"results", "files"}
InPrompt(x) ==
  CASE x = "results" -> results # 0 [] x = "files" -> dict # <<>> [] OTHER -> x \in has
Needs(x) ==
  CASE x = "meta" -> {"todo"}
    [] x = "count" -> {"todo", "count"}
    [] x = "results" -> {"repositories", "todo", "precalls", "search"}
    [] x = "files" -> {"task", "repositories"}
    [] OTHER -> {x}
Applies(x) ==
  CASE x = "catalogue" -> TRUE
    [] x = "history" -> run.later
    [] x = "task" -> Parsed /\ run.task
    [] x = "repositories" -> Parsed
    [] x = "meta" -> Parsed /\ run.todo
    [] x = "count" -> Parsed /\ run.todo /\ run.task
    [] x = "results" -> Parsed /\ run.todo /\ repoList # 0
    [] x = "files" -> Parsed /\ run.task /\ taskRec.branch /\ repoList # 0

\* There is something to put in: precalls, or a file that is readable, listed
\* in time, and left alone by others.
HasContent(x) ==
  CASE x = "results" -> todoRec # 0
    [] x = "files" -> \E f \in Listed \ touched : Readable(f) /\ Earlier(Listed \cup touched, f) < MaxFiles
    [] OTHER -> TRUE

\* Enrichment is best-effort request by request: a section is in the prompt
\* when the requests it takes were answered, whatever became of the others, and
\* not otherwise.  A task or a list of repositories that is not read costs the
\* files of the branch too, the latter also the results of the precalls; a
\* project, a count or a search that is not read costs nothing else.
DegradesAlone ==
  at = "done" =>
    \A x \in Sections \ (IF redone THEN {"results"} ELSE {}) :
      LET answered == Applies(x) /\ Needs(x) \cap failed = {}
      IN /\ InPrompt(x) => answered
         /\ answered /\ HasContent(x) => InPrompt(x)

\* The prompt is complete in the end, whatever fails and whoever commits,
\* unless a request hangs, which nothing in the code ends.
PromptIsAssembled == <>(at \in {"done", Hung})

-----------------------------------------------------------------------------
\* action-protocol.md, section 5: "Before passing the event payload to the LLM,
\* CodeValdAI enriches it with data fetched from the originating service" - for
\* a TaskID, the task.  The Instructions of a dispatched run hold the payload
\* in the middle of a text, which HydrateEventContext cannot parse.
DispatchedIsHydrated ==
  at = "done" /\ run.dispatched /\ "object" \in ToSet(run.instructions) /\ run.task /\ failed = {}
    => "task" \in has
=============================================================================
