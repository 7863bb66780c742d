----------------------------- MODULE PlanIntake -----------------------------
(***************************************************************************)
(* How a plan becomes the tasks of a supervisor: `tab-conductor validate`  *)
(* and `run` (cli.py) parse it (plan_parser.py), and Orchestrator.__init__ *)
(* (orchestrator.py) checks it again before it writes the first state.json.*)
(* A program may also hand its tasks to Orchestrator directly, as the      *)
(* tests do.                                                               *)
(*                                                                         *)
(* Both checks search the dependencies depth first with three colours.     *)
(* The search is modelled one look at a dependency at a time.  Its graph   *)
(* is a function from ids to tasks; a list of dependencies is a set, whose *)
(* elements are taken in any order, and so are the roots.                  *)
(***************************************************************************)
EXTENDS Plans, Sequences

CONSTANTS
    Text,            \* the YAML values where a string is wanted
    Strip,           \* Strip[x]: x.strip(), or Blank if x is no string
    RawTask,         \* the tasks a plan may list
    MaxTasks,        \* how many tasks fit into the 1 MB of a plan
    ParserDepth,     \* the calls Python's stack has room for in the parser's search
    SupervisorDepth  \* and in the supervisor's

Blank == ""

\* What int() makes of a YAML value: a number, TypeError or ValueError, OverflowError.
Scalar == [kind : {"number", "other", "infinity"}, int : Int]

ASSUME IntakeAssumption ==
    /\ Blank \in Text
    /\ Strip \in [Text -> Text]
    /\ \A x \in Text : Strip[Strip[x]] = Strip[x]
    /\ RawTask \subseteq [id : Text, prompt : Text, deps : SUBSET Text, priority : Scalar,
                          maxRetries : Scalar, status : STRING, retries : Scalar]
    /\ MaxTasks \in Nat /\ ParserDepth \in Nat /\ SupervisorDepth \in Nat

VARIABLES
    command,    \* "validate", "run", or "api": Orchestrator called directly
    pc,         \* where the command is
    taken,      \* how many raw tasks were taken from the list
    tasks,      \* ParsedPlan.tasks, by id
    records,    \* Orchestrator._tasks
    stack,      \* the search: the grey tasks, the one at hand last
    left,       \* the search: the dependencies of a grey task not looked at yet
    black,      \* the search: the tasks it is done with
    runDir,     \* whether the directory of the run exists
    stateFile,  \* whether state.json does
    outcome,    \* the exception that ended the command, "ok", or "none" so far
    reason      \* why it was raised

planVars == <<taken, tasks, records>>
searchVars == <<stack, left, black>>
fileVars == <<runDir, stateFile>>
endVars == <<outcome, reason>>
vars == <<command, pc, planVars, searchVars, fileVars, endVars>>

Searching == {"parserSearch", "supervisorSearch"}

Task == [id : Text, deps : SUBSET Text, priority : Int, maxRetries : Int,
         status : STRING, retries : Scalar]

TypeOK ==
    /\ command \in {"validate", "run", "api"}
    /\ pc \in Searching \cup {"load", "read", "makeDir", "build", "guards", "init", "ended"}
    /\ taken \in Nat
    /\ DOMAIN tasks \subseteq Text /\ tasks \in [DOMAIN tasks -> Task]
    /\ DOMAIN records \subseteq Text /\ records \in [DOMAIN records -> Task]
    /\ stack \in Seq(Text)
    /\ DOMAIN left \subseteq Text /\ left \in [DOMAIN left -> SUBSET Text]
    /\ black \subseteq Text
    /\ runDir \in BOOLEAN /\ stateFile \in BOOLEAN
    /\ outcome \in {"none", "ok", "PlanParseError", "FileNotFoundError", "OSError",
                    "UnicodeDecodeError", "OverflowError", "ValueError", "RecursionError",
                    "OrchestratorError", "SchemaValidationError"}
    /\ reason \in {"none", "file", "field", "reference", "cycle", "depth", "cap"}

NoTasks == [x \in {} |-> x]

\* the tasks on the path s
OnPath(s) == {s[i] : i \in 1 .. Len(s)}

\* the task at hand
Top == stack[Len(stack)]

Init ==
    /\ command \in {"validate", "run", "api"}
    /\ pc = IF command = "api" THEN "makeDir" ELSE "load"
    /\ taken = 0
    /\ tasks = NoTasks /\ records = NoTasks
    /\ stack = <<>> /\ left = NoTasks /\ black = {}
    /\ runDir = FALSE /\ stateFile = FALSE
    /\ outcome = "none" /\ reason = "none"

-----------------------------------------------------------------------------
(* Mutants: what some definitions below would be with a plausible bug in the
   code.  No action uses them; each shows that a property can fail. *)

\* the grey test finds a black task too: a shared dependency is taken for a cycle
GreyOrBlack == OnPath(stack) \cup black

\* the task is left white when its dfs returns
LeftWhite == black

\* return for continue: the other dependencies are not looked at
DoneAfterOne(d) == [left EXCEPT ![Top] = {}]

\* references are not checked
AnyReference == TRUE

-----------------------------------------------------------------------------
(* Helpers. *)

\* The function f with x mapped to y.
With(f, x, y) == [z \in DOMAIN f \cup {x} |-> IF z = x THEN y ELSE f[z]]

Raise(exception, why) ==
    /\ outcome' = exception /\ reason' = why
    /\ pc' = "ended"

Goto(place) == pc' = place /\ UNCHANGED endVars

\* int(x) followed by a test of the range
IntOutcome(x, low, high) ==
    CASE x.kind = "infinity" -> "OverflowError"
      [] x.kind = "other" \/ x.int \notin low .. high -> "PlanParseError"
      [] OTHER -> "none"

TextOutcome(x) == IF Strip[x] = Blank THEN "PlanParseError" ELSE "none"

\* A dict that conforms to the task schema, as Orchestrator's docstring asks for.
Conforms(raw) ==
    /\ raw.priority.kind = "number" /\ raw.priority.int \in 0 .. 9
    /\ raw.maxRetries.kind = "number" /\ raw.maxRetries.int \in 0 .. 10
    /\ raw.retries.kind = "number" /\ raw.retries.int >= 0
    /\ raw.status \in TaskStatus

\* A dict of the API, its strings as they are.
AsGiven(raw) == [id |-> raw.id, deps |-> raw.deps, priority |-> raw.priority.int,
                 maxRetries |-> raw.maxRetries.int, status |-> raw.status,
                 retries |-> raw.retries]

-----------------------------------------------------------------------------
(* parse_plan. *)

\* stat, read_text and safe_load.  click has tested that the file exists; a file
\* that is too large, unreadable, no YAML or no mapping with a list "tasks" is refused.
\* Of what goes wrong in safe_load only a YAMLError is converted: YAML that is nested too
\* deep raises RecursionError, a timestamp that is no date ValueError.
Load ==
    /\ pc = "load"
    /\ \/ Goto("read")
       \/ \E exception \in {"PlanParseError", "FileNotFoundError", "UnicodeDecodeError",
                           "RecursionError", "ValueError"} : Raise(exception, "file")
    /\ UNCHANGED <<command, planVars, searchVars, fileVars>>

\* the tests of _validate_task in their order; that of "kind" ends as "prompt" does,
\* and that of a "depends_on" that is no list as its entries do
FieldOutcomes(raw) ==
    <<TextOutcome(raw.id),
      IF Strip[raw.id] \in DOMAIN tasks THEN "PlanParseError" ELSE "none",
      TextOutcome(raw.prompt),
      IntOutcome(raw.priority, 0, 9),
      IntOutcome(raw.maxRetries, 0, 10),
      IF \E d \in raw.deps : Strip[d] = Blank THEN "PlanParseError" ELSE "none">>

\* The normalised task: keys it does not know, such as status and retries, pass through.
Normalised(raw) ==
    [id |-> Strip[raw.id], deps |-> {Strip[d] : d \in raw.deps},
     priority |-> raw.priority.int, maxRetries |-> raw.maxRetries.int,
     status |-> raw.status, retries |-> raw.retries]

ValidateTask(raw) ==
    /\ pc = "read" /\ taken < MaxTasks
    /\ taken' = taken + 1
    /\ \/ \E i \in 1 .. 6 :
             /\ FieldOutcomes(raw)[i] # "none"
             /\ \A j \in 1 .. i - 1 : FieldOutcomes(raw)[j] = "none"
             /\ Raise(FieldOutcomes(raw)[i], "field")
             /\ UNCHANGED tasks
       \/ /\ \A i \in 1 .. 6 : FieldOutcomes(raw)[i] = "none"
          /\ tasks' = With(tasks, Strip[raw.id], Normalised(raw))
          /\ Goto(pc)
    /\ UNCHANGED <<command, records, searchVars, fileVars>>

\* every id in a depends_on is the id of a task
ReferencesExist == \A t \in DOMAIN tasks : tasks[t].deps \subseteq DOMAIN tasks

StartSearch(place) ==
    /\ stack' = <<>> /\ left' = NoTasks /\ black' = {}
    /\ Goto(place)

\* the list is read: it must not be empty, nor name an unknown task
CheckReferences ==
    /\ pc = "read"
    /\ \/ /\ tasks = NoTasks
          /\ Raise("PlanParseError", "field")
          /\ UNCHANGED searchVars
       \/ /\ tasks # NoTasks /\ ~ReferencesExist
          /\ Raise("PlanParseError", "reference")
          /\ UNCHANGED searchVars
       \/ /\ tasks # NoTasks /\ ReferencesExist
          /\ StartSearch("parserSearch")
    /\ UNCHANGED <<command, planVars, fileVars>>

-----------------------------------------------------------------------------
(* _check_dag_cycles, of the parser and of the supervisor. *)

Subject == IF pc = "parserSearch" THEN tasks ELSE records

\* PlanParseError in one, OrchestratorError in the other
Verdict == IF pc = "parserSearch" THEN "PlanParseError" ELSE "OrchestratorError"

Depth == IF pc = "parserSearch" THEN ParserDepth ELSE SupervisorDepth

Grey == OnPath(stack)

\* the call dfs(t), when todo is left to look at otherwise
Enter(t, todo) ==
    \/ /\ Len(stack) < Depth
       /\ stack' = Append(stack, t)
       /\ left' = With(todo, t, Subject[t].deps)
       /\ Goto(pc)
    \/ /\ Len(stack) >= Depth
       /\ Raise("RecursionError", "depth")
       /\ UNCHANGED <<stack, left>>

White == DOMAIN Subject \ (Grey \cup black)

\* the loop over all tasks, at one that is white
SearchFrom(t) ==
    /\ pc \in Searching /\ stack = <<>>
    /\ t \in White
    /\ Enter(t, left)
    /\ UNCHANGED <<command, planVars, black, fileVars>>

\* the dependencies of the task at hand still to look at once d was
WithoutLooked(d) == [left EXCEPT ![Top] = @ \ {d}]

\* what the loop passes over: black tasks, and in the parser unknown ones
Skipped == black \cup (IF pc = "parserSearch" THEN Text \ DOMAIN Subject ELSE {})

\* the loop over the dependencies of the task at hand
LookAt(d) ==
    /\ pc \in Searching /\ stack # <<>>
    /\ d \in left[Top]
    /\ \/ /\ pc = "supervisorSearch" /\ d \notin DOMAIN Subject
          /\ Raise(Verdict, "reference")
          /\ UNCHANGED <<stack, left>>
       \/ /\ d \in Grey
          /\ Raise(Verdict, "cycle")
          /\ UNCHANGED <<stack, left>>
       \/ /\ d \in Skipped
          /\ left' = WithoutLooked(d)
          /\ Goto(pc)
          /\ UNCHANGED stack
       \/ /\ d \in White
          /\ Enter(d, WithoutLooked(d))
    /\ UNCHANGED <<command, planVars, black, fileVars>>

\* color[node] = BLACK
Blackened == black \cup {Top}

\* dfs returns
Leave ==
    /\ pc \in Searching /\ stack # <<>>
    /\ left[Top] = {}
    /\ stack' = SubSeq(stack, 1, Len(stack) - 1)
    /\ black' = Blackened
    /\ UNCHANGED <<command, pc, planVars, left, fileVars, endVars>>

\* no task is white
SearchEnds ==
    /\ pc \in Searching /\ stack = <<>>
    /\ black = DOMAIN Subject
    /\ \/ /\ pc = "parserSearch" /\ command = "validate"
          /\ Raise("ok", "none")
       \/ /\ pc = "parserSearch" /\ command = "run"
          /\ Goto("makeDir")
       \/ /\ pc = "supervisorSearch"
          /\ Goto("guards")
    /\ UNCHANGED <<command, planVars, searchVars, fileVars>>

-----------------------------------------------------------------------------
(* Orchestrator.__init__. *)

MakeRunDir ==
    /\ pc = "makeDir"
    /\ taken' = 0
    /\ \/ runDir' = TRUE /\ Goto("build")
       \/ Raise("OSError", "file") /\ UNCHANGED runDir
    /\ UNCHANGED <<command, tasks, records, searchVars, stateFile>>

\* a _TaskRecord for the next dict, in the place of one with the same id;
\* int(retries) may raise (ValueError stands for TypeError too)
BuildRecord(td) ==
    /\ pc = "build"
    /\ \/ /\ td.retries.kind = "number"
          /\ records' = With(records, td.id, td)
          /\ Goto(pc)
       \/ /\ td.retries.kind = "other"
          /\ Raise("ValueError", "field")
          /\ UNCHANGED records
       \/ /\ td.retries.kind = "infinity"
          /\ Raise("OverflowError", "field")
          /\ UNCHANGED records
    /\ UNCHANGED <<command, tasks, searchVars, fileVars>>

BuildFromPlan ==
    /\ command = "run"
    /\ \E t \in DOMAIN tasks \ DOMAIN records : BuildRecord(tasks[t])
    /\ UNCHANGED taken

BuildFromList ==
    /\ command = "api" /\ taken < MaxTasks
    /\ \E raw \in RawTask : Conforms(raw) /\ BuildRecord(AsGiven(raw))
    /\ taken' = taken + 1

RecordsBuilt ==
    /\ pc = "build"
    /\ command = "run" => DOMAIN records = DOMAIN tasks
    /\ StartSearch("supervisorSearch")
    /\ UNCHANGED <<command, planVars, fileVars>>

\* CostGuard, StuckDetector, Runner: a cap that is not positive raises, and the directory
\* of the run stays behind
BuildGuards ==
    /\ pc = "guards"
    /\ Goto("init") \/ Raise("ValueError", "cap")
    /\ UNCHANGED <<command, planVars, searchVars, fileVars>>

\* _init_state: StateStore.init validates against the schema, then writes
StatusAllowed == \A t \in DOMAIN records : records[t].status \in TaskStatus
RetriesAllowed == \A t \in DOMAIN records : records[t].retries.int >= 0

InitState ==
    /\ pc = "init"
    /\ \/ /\ ~(StatusAllowed /\ RetriesAllowed)
          /\ Raise("SchemaValidationError", "field")
          /\ UNCHANGED stateFile
       \/ /\ StatusAllowed /\ RetriesAllowed
          /\ \/ stateFile' = TRUE /\ Raise("ok", "none")
             \/ Raise("OSError", "file") /\ UNCHANGED stateFile
    /\ UNCHANGED <<command, planVars, searchVars, runDir>>

Ended == pc = "ended" /\ UNCHANGED vars

Parse == Load \/ (\E raw \in RawTask : ValidateTask(raw)) \/ CheckReferences

Search == (\E t \in Text : SearchFrom(t) \/ LookAt(t)) \/ Leave \/ SearchEnds

Construct ==
    \/ MakeRunDir \/ BuildFromPlan \/ BuildFromList
    \/ RecordsBuilt \/ BuildGuards \/ InitState

Next == Parse \/ Search \/ Construct \/ Ended

Spec == Init /\ [][Next]_vars

\* Each command runs to its end: nothing in it waits.
FairSpec == Spec /\ WF_vars(Parse \/ Search \/ Construct)

-----------------------------------------------------------------------------
(* Safety. *)

Deps(f) == [t \in DOMAIN f |-> f[t].deps]

\* What a search that ends without a verdict has shown.
Closed(f) == \A t \in DOMAIN f : f[t].deps \subseteq DOMAIN f
Checked(f) == Closed(f) /\ Acyclic(DOMAIN f, Deps(f))

\* The numbers of a task are those the schema wants.
InRange(f) == \A t \in DOMAIN f : f[t].priority \in 0 .. 9 /\ f[t].maxRetries \in 0 .. 10

\* The tasks with which a supervisor sets out are a well-formed plan, whichever way
\* they came, although the parser lets statuses and retries pass unread and the API
\* takes any references.
PlanIsWellFormed ==
    stateFile =>
        WellFormedPlan(DOMAIN records, Deps(records),
                       [t \in DOMAIN records |-> records[t].priority],
                       [t \in DOMAIN records |-> records[t].maxRetries],
                       {records[t].status : t \in DOMAIN records},
                       {records[t].retries.int : t \in DOMAIN records})

\* A plan is called cyclic, by either search, only if it is.
CyclesAreReal ==
    reason = "cycle" => LET f == IF outcome = "PlanParseError" THEN tasks ELSE records IN
                        ~Acyclic(DOMAIN f, Deps(f))

\* A plan that the parser let pass is not refused for its dependencies by the second
\* check, which comes when the directory of the run is already there.
SecondCheckAgrees == command = "run" => outcome # "OrchestratorError"

\* What `validate` calls valid is: every dependency is a task, none leads back to its
\* task, and the numbers are in range.  The parser's search misses no cycle.
ValidPlansAreSound ==
    command = "validate" /\ outcome = "ok" => Checked(tasks) /\ InRange(tasks)

\* The search ends: each of its steps takes a white task away, or else a task from the
\* path, or else a dependency from those the task at hand has still to look at.
SearchProgresses ==
    [][pc' = pc /\ pc \in Searching =>
          \/ White' \subseteq White /\ White' # White
          \/ White' = White /\ Len(stack') < Len(stack)
          \/ /\ White' = White /\ stack' = stack
             /\ left'[Top] \subseteq left[Top] /\ left'[Top] # left[Top]]_vars

\* Every command comes to its end.
IntakeEnds == <>(pc = "ended")

-----------------------------------------------------------------------------
(* The inductive invariant behind the theorems of PlanIntake_proofs. *)

\* A search of f with path s, rest l and black tasks b: the path follows dependencies,
\* what a task on it has looked at is black or next on the path, and the black tasks
\* are closed and without a cycle.
SearchOk(f, s, l, b) ==
    /\ \A i \in 1 .. Len(s) : s[i] \in DOMAIN f \ b /\ s[i] \in DOMAIN l
    /\ b \subseteq DOMAIN f
    /\ \A i, j \in 1 .. Len(s) : s[i] = s[j] => i = j
    /\ \A i \in 1 .. Len(s) - 1 : s[i + 1] \in f[s[i]].deps
    /\ \A i \in 1 .. Len(s) : l[s[i]] \subseteq f[s[i]].deps
    /\ \A i \in 1 .. Len(s) : \A d \in f[s[i]].deps \ l[s[i]] :
          d \in b \/ (i < Len(s) /\ d = s[i + 1])
    /\ \A t \in b : f[t].deps \subseteq b
    /\ Acyclic(b, Deps(f))

SearchInv == pc \in Searching => SearchOk(Subject, stack, left, black)

BaseInv ==
    /\ IsFiniteSet(DOMAIN tasks) /\ IsFiniteSet(DOMAIN records)
    /\ InRange(tasks) /\ InRange(records)
    /\ \A t \in DOMAIN tasks : tasks[t].id = t
    /\ \A t \in DOMAIN records : records[t].retries.kind = "number"
    /\ pc \in {"load", "read", "parserSearch"} => command # "api" /\ DOMAIN records = {}
    /\ pc \in {"makeDir", "build", "supervisorSearch", "guards", "init"} => command # "validate"
    /\ stateFile \/ reason # "none" \/ outcome # "none" => pc = "ended"

\* The supervisor of `run` gets the tasks that the parser checked.
HandedOver ==
    command = "run" /\ pc \in {"makeDir", "build", "supervisorSearch", "guards", "init"} =>
        /\ Checked(tasks)
        /\ DOMAIN records \subseteq DOMAIN tasks
        /\ \A t \in DOMAIN records : records[t] = tasks[t]
        /\ pc = "supervisorSearch" => DOMAIN records = DOMAIN tasks

CheckedInv ==
    /\ pc = "parserSearch" => Closed(tasks)
    /\ pc \in {"guards", "init"} => Checked(records)
    /\ HandedOver

IntakeInv ==
    /\ TypeOK /\ BaseInv /\ SearchInv /\ CheckedInv
    /\ PlanIsWellFormed /\ CyclesAreReal /\ SecondCheckAgrees /\ ValidPlansAreSound
=============================================================================
