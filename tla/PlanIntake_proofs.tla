------------------------- MODULE PlanIntake_proofs -------------------------
(***************************************************************************)
(* Theorems about PlanIntake: whatever plan is read, a supervisor sets out *)
(* with a well-formed one, and a plan is called cyclic only if it is.      *)
(***************************************************************************)
EXTENDS PlanIntake, FiniteSetTheorems, SequenceTheorems, TLAPS

-----------------------------------------------------------------------------
(* Graphs and functions. *)

\* A task whose dependencies are all black may become black.
LEMMA AcyclicGrows ==
    ASSUME NEW B, NEW D, NEW g, Acyclic(B, D), D[g] \subseteq B, g \notin B,
           \A b \in B : D[b] \subseteq B
    PROVE  Acyclic(B \cup {g}, D)
<1> SUFFICES ASSUME NEW S \in SUBSET (B \cup {g}), S # {}
             PROVE  \E t \in S : D[t] \cap S = {}
  BY DEF Acyclic
<1>1. CASE S \cap B = {}
  <2>1. S = {g}
    BY <1>1
  <2> QED BY <2>1
<1>2. CASE S \cap B # {}
  <2>1. PICK t \in S \cap B : D[t] \cap (S \cap B) = {}
    BY <1>2 DEF Acyclic
  <2> QED BY <2>1
<1> QED BY <1>1, <1>2

\* A path that comes back to one of its tasks holds a cycle.
LEMMA CycleFound ==
    ASSUME NEW T, NEW D, NEW s \in Seq(T), NEW k \in 1 .. Len(s),
           \A i \in 1 .. Len(s) - 1 : s[i + 1] \in D[s[i]],
           s[k] \in D[s[Len(s)]]
    PROVE  ~Acyclic(T, D)
<1> DEFINE S == {s[i] : i \in k .. Len(s)}
<1>1. S \in SUBSET T /\ S # {}
  OBVIOUS
<1>2. ASSUME NEW t \in S PROVE D[t] \cap S # {}
  <2>1. PICK i \in k .. Len(s) : t = s[i]
    OBVIOUS
  <2>2. CASE i = Len(s)
    BY <2>1, <2>2
  <2>3. CASE i # Len(s)
    <3>1. i \in 1 .. Len(s) - 1 /\ i + 1 \in k .. Len(s)
      BY <2>3
    <3>2. s[i + 1] \in S /\ s[i + 1] \in D[t]
      BY <2>1, <3>1
    <3> QED BY <3>2
  <2> QED BY <2>2, <2>3
<1> QED BY <1>1, <1>2 DEF Acyclic

\* Adding a task to a function of tasks.
LEMMA WithIs ==
    ASSUME NEW S, NEW f, f \in [DOMAIN f -> S], NEW x, NEW y \in S
    PROVE  /\ DOMAIN With(f, x, y) = DOMAIN f \cup {x}
           /\ With(f, x, y) \in [DOMAIN With(f, x, y) -> S]
           /\ With(f, x, y)[x] = y
           /\ \A z \in DOMAIN f : z # x => With(f, x, y)[z] = f[z]
  BY DEF With

\* The path after a push.
LEMMA PushIs ==
    ASSUME NEW S, NEW s \in Seq(S), NEW x \in S
    PROVE  /\ Append(s, x) \in Seq(S) /\ Len(Append(s, x)) = Len(s) + 1
           /\ Append(s, x)[Len(s) + 1] = x
           /\ \A i \in 1 .. Len(s) : Append(s, x)[i] = s[i]
           /\ OnPath(Append(s, x)) = OnPath(s) \cup {x}
<1>1. /\ Append(s, x) \in Seq(S) /\ Len(Append(s, x)) = Len(s) + 1 /\ Len(s) \in Nat
      /\ Append(s, x)[Len(s) + 1] = x
      /\ \A i \in 1 .. Len(s) : Append(s, x)[i] = s[i]
  OBVIOUS
<1>2. 1 .. Len(s) + 1 = (1 .. Len(s)) \cup {Len(s) + 1}
  BY <1>1
<1>3. OnPath(Append(s, x)) = OnPath(s) \cup {x}
  BY <1>1, <1>2 DEF OnPath
<1> QED BY <1>1, <1>3

\* The path after a pop.
LEMMA PopIs ==
    ASSUME NEW S, NEW s \in Seq(S), s # <<>>
    PROVE  /\ Len(s) \in Nat \ {0}
           /\ SubSeq(s, 1, Len(s) - 1) \in Seq(S)
           /\ Len(SubSeq(s, 1, Len(s) - 1)) = Len(s) - 1
           /\ \A i \in 1 .. Len(s) - 1 : SubSeq(s, 1, Len(s) - 1)[i] = s[i]
<1>1. Len(s) \in Nat \ {0}
  OBVIOUS
<1>2. Len(SubSeq(s, 1, Len(s) - 1)) = Len(s) - 1
  <2> DEFINE n == Len(s) - 1
  <2>1. n \in Nat /\ \A i \in 1 .. n : s[i] \in S
    BY <1>1
  <2> HIDE DEF n
  <2>2. Len(SubSeq(s, 1, n)) = IF 1 <= n THEN n - 1 + 1 ELSE 0
    BY <2>1, SubSeqProperties
  <2>3. Len(SubSeq(s, 1, n)) = n
    BY <2>1, <2>2
  <2> QED BY <2>3 DEF n
<1>3. \A i \in 1 .. Len(s) - 1 : SubSeq(s, 1, Len(s) - 1)[i] = s[i]
  BY <1>1
<1>4. SubSeq(s, 1, Len(s) - 1) \in Seq(S)
  BY <1>1
<1> QED BY <1>1, <1>2, <1>3, <1>4

-----------------------------------------------------------------------------
(* Types. *)

\* The empty graph is a function into any set.
LEMMA NoTasksType ==
    ASSUME NEW S PROVE NoTasks \in [DOMAIN NoTasks -> S] /\ DOMAIN NoTasks = {}
  BY DEF NoTasks

\* Every command starts with the types.
LEMMA TypeInit == ASSUME Init PROVE TypeOK
<1>1. /\ DOMAIN tasks = {} /\ tasks \in [DOMAIN tasks -> Task]
      /\ DOMAIN records = {} /\ records \in [DOMAIN records -> Task]
      /\ DOMAIN left = {} /\ left \in [DOMAIN left -> SUBSET Text]
  BY NoTasksType DEF Init
<1>2. stack \in Seq(Text)
  BY DEF Init
<1>3. pc \in Searching \cup {"load", "read", "makeDir", "build", "guards", "init", "ended"}
  BY DEF Init
<1> QED BY <1>1, <1>2, <1>3 DEF Init, TypeOK

\* int() and the range test leave a number, or one of two exceptions.
LEMMA IntOutcomes ==
    ASSUME NEW x \in Scalar, NEW low \in Int, NEW high \in Int
    PROVE  /\ IntOutcome(x, low, high) \in {"none", "PlanParseError", "OverflowError"}
           /\ IntOutcome(x, low, high) = "none" => x.kind = "number" /\ x.int \in low .. high
  BY DEF IntOutcome, Scalar

\* A raw task is refused with one of two exceptions, or is good to be a task.
LEMMA RawOutcomes ==
    ASSUME NEW raw \in RawTask
    PROVE  /\ \A i \in 1 .. 6 :
                 FieldOutcomes(raw)[i] \in {"none", "PlanParseError", "OverflowError"}
           /\ (\A i \in 1 .. 6 : FieldOutcomes(raw)[i] = "none") =>
                 /\ Strip[raw.id] \in Text \ DOMAIN tasks
                 /\ Normalised(raw) \in Task
                 /\ Normalised(raw).priority \in 0 .. 9
                 /\ Normalised(raw).maxRetries \in 0 .. 10
<1>1. /\ raw.id \in Text /\ raw.prompt \in Text /\ raw.deps \in SUBSET Text
      /\ raw.priority \in Scalar /\ raw.maxRetries \in Scalar /\ raw.retries \in Scalar
      /\ raw.status \in STRING
  BY IntakeAssumption
<1>2. FieldOutcomes(raw)[4] = IntOutcome(raw.priority, 0, 9)
  BY DEF FieldOutcomes
<1>3. FieldOutcomes(raw)[5] = IntOutcome(raw.maxRetries, 0, 10)
  BY DEF FieldOutcomes
<1>4. /\ FieldOutcomes(raw)[1] \in {"none", "PlanParseError"}
      /\ FieldOutcomes(raw)[2] \in {"none", "PlanParseError"}
      /\ FieldOutcomes(raw)[3] \in {"none", "PlanParseError"}
      /\ FieldOutcomes(raw)[6] \in {"none", "PlanParseError"}
      /\ FieldOutcomes(raw)[2] = "none" => Strip[raw.id] \notin DOMAIN tasks
  BY DEF FieldOutcomes, TextOutcome
<1>5. /\ IntOutcome(raw.priority, 0, 9) \in {"none", "PlanParseError", "OverflowError"}
      /\ IntOutcome(raw.maxRetries, 0, 10) \in {"none", "PlanParseError", "OverflowError"}
      /\ IntOutcome(raw.priority, 0, 9) = "none" => raw.priority.int \in 0 .. 9
      /\ IntOutcome(raw.maxRetries, 0, 10) = "none" => raw.maxRetries.int \in 0 .. 10
  BY <1>1, IntOutcomes
<1>6. \A i \in 1 .. 6 : i \in {1, 2, 3, 4, 5, 6}
  OBVIOUS
<1>7. ASSUME \A i \in 1 .. 6 : FieldOutcomes(raw)[i] = "none"
      PROVE  /\ Strip[raw.id] \in Text \ DOMAIN tasks
             /\ raw.priority.int \in 0 .. 9 /\ raw.maxRetries.int \in 0 .. 10
  BY <1>1, <1>2, <1>3, <1>4, <1>5, <1>7, IntakeAssumption
<1>8. {Strip[d] : d \in raw.deps} \in SUBSET Text
  BY <1>1, IntakeAssumption
<1> QED BY <1>1, <1>2, <1>3, <1>4, <1>5, <1>6, <1>7, <1>8 DEF Normalised, Task

\* A dict of the API that conforms is good to be a task.
LEMMA GivenIsTask ==
    ASSUME NEW raw \in RawTask, Conforms(raw)
    PROVE  /\ AsGiven(raw) \in Task /\ AsGiven(raw).priority \in 0 .. 9
           /\ AsGiven(raw).maxRetries \in 0 .. 10 /\ AsGiven(raw).retries.kind = "number"
  BY IntakeAssumption DEF Conforms, AsGiven, Task, Scalar

\* The graph of the search, and the path in it.
LEMMA SearchTypes ==
    ASSUME TypeOK
    PROVE  /\ Subject \in [DOMAIN Subject -> Task] /\ DOMAIN Subject \subseteq Text
           /\ Grey \subseteq Text
           /\ stack # <<>> => Len(stack) \in Nat \ {0} /\ Top \in Grey /\ Top \in Text
<1>1. stack # <<>> => Len(stack) \in Nat \ {0} /\ Len(stack) \in 1 .. Len(stack)
  BY PopIs DEF TypeOK
<1> QED BY <1>1 DEF TypeOK, Subject, Grey, OnPath, Top

\* A call of dfs keeps the types of path and rest.
LEMMA EnterTypes ==
    ASSUME TypeOK, NEW t \in DOMAIN Subject, NEW todo, todo \in [DOMAIN todo -> SUBSET Text],
           DOMAIN todo \subseteq Text, Enter(t, todo)
    PROVE  /\ stack' \in Seq(Text)
           /\ DOMAIN left' \subseteq Text /\ left' \in [DOMAIN left' -> SUBSET Text]
           /\ pc' \in {pc, "ended"}
           /\ outcome' \in {outcome, "RecursionError"} /\ reason' \in {reason, "depth"}
<1>1. t \in Text /\ Subject[t].deps \in SUBSET Text
  BY SearchTypes DEF Task
<1>2. With(todo, t, Subject[t].deps) \in [DOMAIN todo \cup {t} -> SUBSET Text]
  BY <1>1 DEF With
<1>3. Append(stack, t) \in Seq(Text)
  BY <1>1 DEF TypeOK
<1> QED BY <1>1, <1>2, <1>3 DEF Enter, Raise, Goto, endVars, TypeOK

\* Every step keeps the types.
LEMMA TypeStep == ASSUME TypeOK, [Next]_vars PROVE TypeOK'
<1> USE DEF TypeOK, Searching, Raise, Goto, planVars, searchVars, fileVars, endVars
<1>1. CASE Load
  BY <1>1 DEF Load
<1>2. ASSUME NEW raw \in RawTask, ValidateTask(raw) PROVE TypeOK'
  <2>1. CASE \A i \in 1 .. 6 : FieldOutcomes(raw)[i] = "none"
    <3>1. tasks' = With(tasks, Strip[raw.id], Normalised(raw))
      BY <1>2, <2>1 DEF ValidateTask
    <3>2. Strip[raw.id] \in Text /\ Normalised(raw) \in Task
      BY <2>1, RawOutcomes
    <3>3. DOMAIN tasks' \subseteq Text /\ tasks' \in [DOMAIN tasks' -> Task]
      BY <3>1, <3>2 DEF With
    <3> QED BY <1>2, <2>1, <3>3 DEF ValidateTask
  <2>2. CASE ~\A i \in 1 .. 6 : FieldOutcomes(raw)[i] = "none"
    <3>1. outcome' \in {"none", "PlanParseError", "OverflowError"}
      BY <1>2, <2>2, RawOutcomes DEF ValidateTask
    <3> QED BY <1>2, <2>2, <3>1 DEF ValidateTask
  <2> QED BY <2>1, <2>2
<1>3. CASE CheckReferences
  <2>1. NoTasks \in [DOMAIN NoTasks -> SUBSET Text] /\ DOMAIN NoTasks = {} /\ <<>> \in Seq(Text)
    BY NoTasksType
  <2> QED BY <1>3, <2>1 DEF CheckReferences, StartSearch
<1>4. ASSUME NEW t \in Text, SearchFrom(t) PROVE TypeOK'
  <2>1. /\ stack' \in Seq(Text)
        /\ DOMAIN left' \subseteq Text /\ left' \in [DOMAIN left' -> SUBSET Text]
        /\ pc' \in {pc, "ended"}
        /\ outcome' \in {outcome, "RecursionError"} /\ reason' \in {reason, "depth"}
    BY <1>4, EnterTypes DEF SearchFrom, White
  <2> QED BY <1>4, <2>1 DEF SearchFrom
<1>5. ASSUME NEW d \in Text, LookAt(d) PROVE TypeOK'
  <2>1. /\ DOMAIN WithoutLooked(d) \subseteq Text
        /\ WithoutLooked(d) \in [DOMAIN WithoutLooked(d) -> SUBSET Text]
    BY DEF WithoutLooked
  <2>2. CASE d \in White /\ Enter(d, WithoutLooked(d))
    <3>1. /\ stack' \in Seq(Text)
          /\ DOMAIN left' \subseteq Text /\ left' \in [DOMAIN left' -> SUBSET Text]
          /\ pc' \in {pc, "ended"}
          /\ outcome' \in {outcome, "RecursionError"} /\ reason' \in {reason, "depth"}
      BY <2>1, <2>2, EnterTypes DEF White
    <3> QED BY <1>5, <3>1 DEF LookAt
  <2>3. CASE ~(d \in White /\ Enter(d, WithoutLooked(d)))
    BY <1>5, <2>1, <2>3 DEF LookAt, Verdict
  <2> QED BY <2>2, <2>3
<1>6. CASE Leave
  <2>1. stack' \in Seq(Text)
    BY <1>6, PopIs DEF Leave
  <2>2. Top \in Text
    BY <1>6, SearchTypes DEF Leave
  <2> QED BY <1>6, <2>1, <2>2 DEF Leave, Blackened
<1>7. CASE SearchEnds
  BY <1>7 DEF SearchEnds
<1>8. CASE MakeRunDir
  BY <1>8 DEF MakeRunDir
<1>9. CASE BuildFromPlan
  <2>1. PICK t \in DOMAIN tasks \ DOMAIN records : BuildRecord(tasks[t])
    BY <1>9 DEF BuildFromPlan
  <2>2. tasks[t] \in Task /\ tasks[t].id \in Text
    BY DEF Task
  <2>3. /\ DOMAIN With(records, tasks[t].id, tasks[t]) \subseteq Text
        /\ With(records, tasks[t].id, tasks[t])
              \in [DOMAIN With(records, tasks[t].id, tasks[t]) -> Task]
    BY <2>2 DEF With
  <2> QED BY <1>9, <2>1, <2>3 DEF BuildFromPlan, BuildRecord
<1>10. CASE BuildFromList
  <2>1. PICK raw \in RawTask : Conforms(raw) /\ BuildRecord(AsGiven(raw))
    BY <1>10 DEF BuildFromList
  <2>2. AsGiven(raw) \in Task /\ AsGiven(raw).id \in Text
    BY <2>1, GivenIsTask DEF Task
  <2>3. /\ DOMAIN With(records, AsGiven(raw).id, AsGiven(raw)) \subseteq Text
        /\ With(records, AsGiven(raw).id, AsGiven(raw))
              \in [DOMAIN With(records, AsGiven(raw).id, AsGiven(raw)) -> Task]
    BY <2>2 DEF With
  <2> QED BY <1>10, <2>1, <2>3 DEF BuildFromList, BuildRecord
<1>11. CASE RecordsBuilt
  <2>1. NoTasks \in [DOMAIN NoTasks -> SUBSET Text] /\ DOMAIN NoTasks = {} /\ <<>> \in Seq(Text)
    BY NoTasksType
  <2> QED BY <1>11, <2>1 DEF RecordsBuilt, StartSearch
<1>12. CASE InitState
  BY <1>12 DEF InitState
<1>14. CASE BuildGuards
  BY <1>14 DEF BuildGuards
<1>13. CASE UNCHANGED vars
  BY <1>13 DEF vars
<1> QED
  BY <1>1, <1>2, <1>3, <1>4, <1>5, <1>6, <1>7, <1>8, <1>9, <1>10, <1>11, <1>12,
     <1>13, <1>14
  DEF Next, Parse, Search, Construct, Ended

-----------------------------------------------------------------------------
(* The search, as facts about a graph f, a path s, what l says is left to look
   at, and the black tasks b. *)

\* A search begins with an empty path and no black task.
LEMMA SearchBegins == ASSUME NEW f PROVE SearchOk(f, <<>>, NoTasks, {})
<1>1. OnPath(<<>>) = {} /\ Len(<<>>) = 0
  BY DEF OnPath
<1>2. ~(\E i \in 1 .. Len(<<>>) : TRUE) /\ ~(\E i \in 1 .. Len(<<>>) - 1 : TRUE)
  BY <1>1
<1>3. Acyclic({}, Deps(f))
  BY DEF Acyclic
<1> QED BY <1>2, <1>3 DEF SearchOk

\* A white task goes on the path: the first one, or a dependency of the last one.
LEMMA SearchPushes ==
    ASSUME NEW f, f \in [DOMAIN f -> Task], NEW s \in Seq(Text), NEW b,
           NEW l, l \in [DOMAIN l -> SUBSET Text], SearchOk(f, s, l, b),
           NEW t \in DOMAIN f \cap Text, t \notin b, \A i \in 1 .. Len(s) : s[i] # t,
           NEW m, m \in [DOMAIN l -> SUBSET Text],
           \/ s = <<>> /\ m = l
           \/ s # <<>> /\ t \in l[s[Len(s)]] /\ m = [l EXCEPT ![s[Len(s)]] = @ \ {t}]
    PROVE  SearchOk(f, Append(s, t), With(m, t, f[t].deps), b)
<1> DEFINE n == Len(s)
           q == Append(s, t)
           w == With(m, t, f[t].deps)
<1>1. /\ n \in Nat /\ q \in Seq(Text) /\ Len(q) = n + 1 /\ q[n + 1] = t
      /\ \A i \in 1 .. n : q[i] = s[i]
      /\ OnPath(q) = OnPath(s) \cup {t}
  BY PushIs
<1>2. /\ DOMAIN w = DOMAIN l \cup {t} /\ w[t] = f[t].deps
      /\ \A z \in DOMAIN l : z # t => w[z] = m[z]
  BY DEF With
<1>3. /\ \A i \in 1 .. n : s[i] \in DOMAIN f \ b /\ s[i] \in DOMAIN l
      /\ \A i, j \in 1 .. n : s[i] = s[j] => i = j
      /\ \A i \in 1 .. n - 1 : s[i + 1] \in f[s[i]].deps
      /\ \A i \in 1 .. n : l[s[i]] \subseteq f[s[i]].deps
      /\ \A i \in 1 .. n : \A d \in f[s[i]].deps \ l[s[i]] :
            d \in b \/ (i < n /\ d = s[i + 1])
      /\ b \subseteq DOMAIN f
  BY DEF SearchOk
<1>4. s # <<>> => n \in 1 .. n /\ t \in l[s[n]] /\ m = [l EXCEPT ![s[n]] = @ \ {t}]
  BY <1>1, PopIs
<1>5. s = <<>> => n = 0 /\ m = l
  BY <1>1, PopIs
<1>6. \A i \in 1 .. n + 1 : i = n + 1 \/ i \in 1 .. n
  BY <1>1
<1> HIDE DEF n, q, w
<1>7. \A i \in 1 .. n + 1 : q[i] \in DOMAIN f \ b /\ q[i] \in DOMAIN w
  BY <1>1, <1>2, <1>3, <1>6
<1>9. \A i, j \in 1 .. n + 1 : q[i] = q[j] => i = j
  <2>1. \A i \in 1 .. n : q[i] # t
    BY <1>1 DEF n
  <2> QED BY <1>1, <1>3, <1>6, <2>1
<1>10. \A i \in 1 .. n : q[i + 1] \in f[q[i]].deps
  <2> TAKE i \in 1 .. n
  <2>1. CASE i = n
    <3>1. s # <<>>
      BY <1>1, <1>5
    <3>2. t \in l[s[n]] /\ n \in 1 .. n
      BY <1>4, <3>1
    <3> QED BY <1>1, <1>3, <2>1, <3>2
  <2>2. CASE i # n
    <3>1. i \in 1 .. n - 1 /\ i + 1 \in 1 .. n
      BY <1>1, <2>2
    <3> QED BY <1>1, <1>3, <3>1
  <2> QED BY <2>1, <2>2
<1>11. \A i \in 1 .. n : w[s[i]] \subseteq l[s[i]]
  <2> TAKE i \in 1 .. n
  <2>1. s[i] # t /\ s[i] \in DOMAIN l
    BY <1>3 DEF n
  <2>2. w[s[i]] = m[s[i]]
    BY <1>2, <2>1
  <2>3. m[s[i]] \subseteq l[s[i]]
    BY <1>4, <1>5, <2>1
  <2> QED BY <2>2, <2>3
<1>12. \A i \in 1 .. n + 1 : w[q[i]] \subseteq f[q[i]].deps
  BY <1>1, <1>2, <1>3, <1>6, <1>11
<1>13. \A i \in 1 .. n + 1 : \A d \in f[q[i]].deps \ w[q[i]] :
          d \in b \/ (i < n + 1 /\ d = q[i + 1])
  <2> TAKE i \in 1 .. n + 1
  <2> TAKE d \in f[q[i]].deps \ w[q[i]]
  <2>1. i \in 1 .. n
    BY <1>1, <1>2, <1>6
  <2>2. q[i] = s[i] /\ s[i] # t /\ s[i] \in DOMAIN l /\ i < n + 1
    BY <1>1, <1>3, <2>1 DEF n
  <2>3. w[s[i]] = m[s[i]]
    BY <1>2, <2>2
  <2>4. CASE d \in l[s[i]]
    <3>1. s # <<>> /\ s[i] = s[n] /\ d = t
      BY <1>4, <1>5, <2>2, <2>3, <2>4
    <3>2. i = n
      BY <1>3, <1>4, <2>1, <3>1
    <3> QED BY <1>1, <2>2, <3>1, <3>2
  <2>5. CASE d \notin l[s[i]]
    <3>1. d \in b \/ (i < n /\ d = s[i + 1])
      BY <1>3, <2>1, <2>2, <2>5
    <3>2. i < n => i + 1 \in 1 .. n
      BY <1>1, <2>1
    <3> QED BY <1>1, <2>2, <3>1, <3>2
  <2> QED BY <2>4, <2>5
<1>14. (\A u \in b : f[u].deps \subseteq b) /\ Acyclic(b, Deps(f))
  BY DEF SearchOk
<1>15. Len(q) = n + 1 /\ Len(q) - 1 = n
  BY <1>1
<1>16. SearchOk(f, q, w, b)
  BY <1>3, <1>7, <1>9, <1>10, <1>12, <1>13, <1>14, <1>15 DEF SearchOk
<1> QED BY <1>16 DEF q, w

\* A black dependency is passed over.
LEMMA SearchPassesOver ==
    ASSUME NEW f, NEW s \in Seq(Text), NEW b,
           NEW l, l \in [DOMAIN l -> SUBSET Text], SearchOk(f, s, l, b),
           NEW d \in b, NEW t
    PROVE  SearchOk(f, s, [l EXCEPT ![t] = @ \ {d}], b)
<1> DEFINE m == [l EXCEPT ![t] = @ \ {d}]
<1>1. DOMAIN m = DOMAIN l /\ \A z \in DOMAIN l : m[z] \in {l[z], l[z] \ {d}}
  OBVIOUS
<1> HIDE DEF m
<1>2. \A i \in 1 .. Len(s) : m[s[i]] \subseteq l[s[i]] /\ l[s[i]] \subseteq m[s[i]] \cup {d}
  BY <1>1 DEF SearchOk
<1>3. /\ \A i \in 1 .. Len(s) : s[i] \in DOMAIN f \ b /\ s[i] \in DOMAIN m
      /\ b \subseteq DOMAIN f
      /\ \A i, j \in 1 .. Len(s) : s[i] = s[j] => i = j
      /\ \A i \in 1 .. Len(s) - 1 : s[i + 1] \in f[s[i]].deps
      /\ \A t2 \in b : f[t2].deps \subseteq b
      /\ Acyclic(b, Deps(f))
  BY <1>1 DEF SearchOk
<1>4. \A i \in 1 .. Len(s) : m[s[i]] \subseteq f[s[i]].deps
  BY <1>2 DEF SearchOk
<1>5. \A i \in 1 .. Len(s) : \A e \in f[s[i]].deps \ m[s[i]] :
         e \in b \/ (i < Len(s) /\ e = s[i + 1])
  BY <1>2 DEF SearchOk
<1>6. SearchOk(f, s, m, b)
  BY <1>3, <1>4, <1>5 DEF SearchOk
<1> QED BY <1>6 DEF m

\* The last task on the path has looked at everything: it becomes black.
LEMMA SearchPops ==
    ASSUME NEW f, f \in [DOMAIN f -> Task], NEW s \in Seq(Text), s # <<>>, NEW b,
           NEW l, SearchOk(f, s, l, b), l[s[Len(s)]] = {}
    PROVE  SearchOk(f, SubSeq(s, 1, Len(s) - 1), l, b \cup {s[Len(s)]})
<1> DEFINE n == Len(s)
           q == SubSeq(s, 1, Len(s) - 1)
<1>1. /\ n \in Nat \ {0} /\ q \in Seq(Text) /\ Len(q) = n - 1
      /\ \A i \in 1 .. n - 1 : q[i] = s[i]
  BY PopIs
<1>2. /\ \A i \in 1 .. n : s[i] \in DOMAIN f \ b /\ s[i] \in DOMAIN l
      /\ \A i, j \in 1 .. n : s[i] = s[j] => i = j
      /\ \A i \in 1 .. n - 1 : s[i + 1] \in f[s[i]].deps
      /\ \A i \in 1 .. n : l[s[i]] \subseteq f[s[i]].deps
      /\ \A i \in 1 .. n : \A d \in f[s[i]].deps \ l[s[i]] :
            d \in b \/ (i < n /\ d = s[i + 1])
      /\ b \subseteq DOMAIN f /\ \A t \in b : f[t].deps \subseteq b
      /\ Acyclic(b, Deps(f)) /\ l[s[n]] = {}
  BY DEF SearchOk
<1> HIDE DEF n, q
<1>3. n \in 1 .. n /\ \A i \in 1 .. n - 1 : i \in 1 .. n /\ i + 1 \in 1 .. n /\ i # n
  BY <1>1
<1>4. f[s[n]].deps \subseteq b /\ s[n] \in DOMAIN f \ b
  BY <1>2, <1>3
<1>5. Acyclic(b \cup {s[n]}, Deps(f))
  <2>1. Deps(f)[s[n]] \subseteq b /\ \A t \in b : Deps(f)[t] \subseteq b
    BY <1>2, <1>4 DEF Deps
  <2>2. Acyclic(b, Deps(f)) /\ s[n] \notin b
    BY <1>2, <1>4
  <2> QED BY <2>1, <2>2, AcyclicGrows
<1>7. \A i \in 1 .. n - 1 : q[i] \in DOMAIN f \ (b \cup {s[n]}) /\ q[i] \in DOMAIN l
  BY <1>1, <1>2, <1>3
<1>8. \A i, j \in 1 .. n - 1 : q[i] = q[j] => i = j
  BY <1>1, <1>2, <1>3
<1>9. \A i \in 1 .. (n - 1) - 1 : q[i + 1] \in f[q[i]].deps
  <2>1. \A i \in 1 .. (n - 1) - 1 : i \in 1 .. n - 1 /\ i + 1 \in 1 .. n - 1
    BY <1>1
  <2> QED BY <1>1, <1>2, <2>1
<1>10. \A i \in 1 .. n - 1 : l[q[i]] \subseteq f[q[i]].deps
  BY <1>1, <1>2, <1>3
<1>11. \A i \in 1 .. n - 1 : \A d \in f[q[i]].deps \ l[q[i]] :
          d \in b \cup {s[n]} \/ (i < n - 1 /\ d = q[i + 1])
  <2> TAKE i \in 1 .. n - 1
  <2> TAKE d \in f[q[i]].deps \ l[q[i]]
  <2>1. q[i] = s[i] /\ (d \in b \/ d = s[i + 1])
    BY <1>1, <1>2, <1>3
  <2>2. i + 1 = n \/ (i < n - 1 /\ i + 1 \in 1 .. n - 1)
    BY <1>1
  <2> QED BY <1>1, <2>1, <2>2
<1>12. \A t \in b \cup {s[n]} : f[t].deps \subseteq b \cup {s[n]}
  BY <1>2, <1>4
<1>13. b \cup {s[n]} \subseteq DOMAIN f
  BY <1>2, <1>4
<1>14. SearchOk(f, q, l, b \cup {s[n]})
  BY <1>1, <1>5, <1>7, <1>8, <1>9, <1>10, <1>11, <1>12, <1>13 DEF SearchOk
<1> QED BY <1>14 DEF n, q

\* A dependency on the path is a cycle.
LEMMA SearchVerdict ==
    ASSUME NEW f, NEW s \in Seq(Text), NEW l, NEW b, SearchOk(f, s, l, b),
           NEW k \in 1 .. Len(s), s[k] \in l[s[Len(s)]]
    PROVE  ~Acyclic(DOMAIN f, Deps(f))
<1> DEFINE D == Deps(f)
<1>1. /\ Len(s) \in Nat /\ Len(s) \in 1 .. Len(s)
      /\ \A i \in 1 .. Len(s) : s[i] \in DOMAIN f /\ D[s[i]] = f[s[i]].deps
      /\ \A i \in 1 .. Len(s) - 1 : s[i + 1] \in f[s[i]].deps /\ i \in 1 .. Len(s)
      /\ l[s[Len(s)]] \subseteq f[s[Len(s)]].deps
  <2>1. Len(s) \in Nat /\ Len(s) \in 1 .. Len(s)
    OBVIOUS
  <2>2. \A i \in 1 .. Len(s) : s[i] \in DOMAIN f
    BY DEF SearchOk
  <2>3. \A i \in 1 .. Len(s) : D[s[i]] = f[s[i]].deps
    BY <2>2 DEF Deps
  <2>4. \A i \in 1 .. Len(s) - 1 : s[i + 1] \in f[s[i]].deps /\ i \in 1 .. Len(s)
    BY <2>1 DEF SearchOk
  <2>5. l[s[Len(s)]] \subseteq f[s[Len(s)]].deps
    BY <2>1 DEF SearchOk
  <2> HIDE DEF D
  <2> QED BY <2>1, <2>2, <2>3, <2>4, <2>5
<1>2. s \in Seq(DOMAIN f)
  BY <1>1
<1>3. \A i \in 1 .. Len(s) - 1 : s[i + 1] \in D[s[i]]
  BY <1>1
<1>4. s[k] \in D[s[Len(s)]]
  BY <1>1
<1> HIDE DEF D
<1>5. ~Acyclic(DOMAIN f, D)
  BY <1>2, <1>3, <1>4, CycleFound
<1> QED BY <1>5 DEF D

\* With no task on the path and none white, everything is known and without a cycle.
LEMMA SearchDone ==
    ASSUME NEW f, NEW s, NEW l, SearchOk(f, s, l, DOMAIN f) PROVE Checked(f)
  BY DEF SearchOk, Checked, Closed

-----------------------------------------------------------------------------
(* The invariant. *)

\* A task with fields in range goes into a function of such tasks.
LEMMA WithInRange ==
    ASSUME NEW f, f \in [DOMAIN f -> Task], IsFiniteSet(DOMAIN f), InRange(f),
           NEW x, NEW y \in Task, y.priority \in 0 .. 9, y.maxRetries \in 0 .. 10
    PROVE  IsFiniteSet(DOMAIN With(f, x, y)) /\ InRange(With(f, x, y))
<1>1. IsFiniteSet(DOMAIN f \cup {x})
  BY FS_AddElement
<1>2. DOMAIN With(f, x, y) = DOMAIN f \cup {x}
  BY DEF With
<1>3. InRange(With(f, x, y))
  BY DEF With, InRange
<1> QED BY <1>1, <1>2, <1>3

\* Fields stay in range; nothing follows the end.
LEMMA BaseStep == ASSUME TypeOK, BaseInv, [Next]_vars PROVE BaseInv'
<1> USE DEF BaseInv, TypeOK, Searching, Raise, Goto, planVars, searchVars, fileVars, endVars
<1>1. CASE Load
  BY <1>1 DEF Load
<1>2. ASSUME NEW raw \in RawTask, ValidateTask(raw) PROVE BaseInv'
  <2>1. CASE \A i \in 1 .. 6 : FieldOutcomes(raw)[i] = "none"
    <3>1. tasks' = With(tasks, Strip[raw.id], Normalised(raw)) /\ Normalised(raw).id = Strip[raw.id]
      BY <1>2, <2>1 DEF ValidateTask, Normalised
    <3>2. /\ Strip[raw.id] \in Text /\ Normalised(raw) \in Task
          /\ Normalised(raw).priority \in 0 .. 9 /\ Normalised(raw).maxRetries \in 0 .. 10
      BY <2>1, RawOutcomes
    <3>3. IsFiniteSet(DOMAIN tasks') /\ InRange(tasks')
      BY <3>1, <3>2, WithInRange
    <3>4. \A t \in DOMAIN tasks' : tasks'[t].id = t
      BY <3>1 DEF With
    <3> QED BY <1>2, <2>1, <3>3, <3>4 DEF ValidateTask
  <2>2. CASE ~\A i \in 1 .. 6 : FieldOutcomes(raw)[i] = "none"
    BY <1>2, <2>2, RawOutcomes DEF ValidateTask
  <2> QED BY <2>1, <2>2
<1>3. CASE CheckReferences
  BY <1>3 DEF CheckReferences, StartSearch
<1>4. ASSUME NEW t \in Text, SearchFrom(t) PROVE BaseInv'
  BY <1>4 DEF SearchFrom, Enter
<1>5. ASSUME NEW d \in Text, LookAt(d) PROVE BaseInv'
  BY <1>5 DEF LookAt, Enter, Verdict
<1>6. CASE Leave
  BY <1>6 DEF Leave
<1>7. CASE SearchEnds
  BY <1>7 DEF SearchEnds
<1>8. CASE MakeRunDir
  BY <1>8 DEF MakeRunDir
<1>9. CASE BuildFromPlan
  <2>1. PICK t \in DOMAIN tasks \ DOMAIN records : BuildRecord(tasks[t])
    BY <1>9 DEF BuildFromPlan
  <2>2. tasks[t] \in Task /\ tasks[t].priority \in 0 .. 9 /\ tasks[t].maxRetries \in 0 .. 10
    BY DEF InRange
  <2>3. CASE records' = With(records, tasks[t].id, tasks[t])
    <3>1. IsFiniteSet(DOMAIN records') /\ InRange(records')
      BY <2>2, <2>3, WithInRange
    <3>2. \A u \in DOMAIN records' : records'[u].retries.kind = "number"
      BY <2>1, <2>3 DEF With, BuildRecord
    <3> QED BY <1>9, <2>1, <3>1, <3>2 DEF BuildFromPlan, BuildRecord
  <2>4. CASE records' = records
    BY <1>9, <2>1, <2>4 DEF BuildFromPlan, BuildRecord
  <2> QED BY <2>1, <2>3, <2>4 DEF BuildRecord
<1>10. CASE BuildFromList
  <2>1. PICK raw \in RawTask : Conforms(raw) /\ BuildRecord(AsGiven(raw))
    BY <1>10 DEF BuildFromList
  <2>2. /\ AsGiven(raw) \in Task /\ AsGiven(raw).priority \in 0 .. 9
        /\ AsGiven(raw).maxRetries \in 0 .. 10 /\ AsGiven(raw).retries.kind = "number"
    BY <2>1, GivenIsTask
  <2> DEFINE td == AsGiven(raw)
  <2> HIDE DEF td
  <2>3. records' = With(records, td.id, td) /\ pc' = pc /\ pc = "build"
    BY <2>1, <2>2 DEF BuildRecord, td
  <2>4. td \in Task /\ td.priority \in 0 .. 9 /\ td.maxRetries \in 0 .. 10
    BY <2>2 DEF td
  <2>5. IsFiniteSet(DOMAIN records') /\ InRange(records')
    BY <2>3, <2>4, WithInRange
  <2>6. \A u \in DOMAIN records' : records'[u].retries.kind = "number"
    BY <2>2, <2>3 DEF With, td
  <2>7. UNCHANGED <<tasks, command, stateFile, outcome, reason>>
    BY <1>10, <2>1, <2>2 DEF BuildFromList, BuildRecord
  <2> QED BY <2>3, <2>5, <2>6, <2>7
<1>11. CASE RecordsBuilt
  BY <1>11 DEF RecordsBuilt, StartSearch
<1>12. CASE InitState
  BY <1>12 DEF InitState
<1>14. CASE BuildGuards
  BY <1>14 DEF BuildGuards
<1>13. CASE UNCHANGED vars
  BY <1>13 DEF vars
<1> QED
  BY <1>1, <1>2, <1>3, <1>4, <1>5, <1>6, <1>7, <1>8, <1>9, <1>10, <1>11, <1>12,
     <1>13, <1>14
  DEF Next, Parse, Search, Construct, Ended
\* A call of dfs for a white task: the path goes on, or the stack is exhausted.
LEMMA EnterKeepsSearch ==
    ASSUME TypeOK, SearchInv, pc \in Searching, NEW t \in White,
           NEW m, m \in [DOMAIN left -> SUBSET Text],
           \/ stack = <<>> /\ m = left
           \/ stack # <<>> /\ t \in left[Top] /\ m = [left EXCEPT ![Top] = @ \ {t}],
           Enter(t, m), UNCHANGED <<tasks, records, black>>
    PROVE  SearchInv'
<1>1. CASE pc' = "ended"
  BY <1>1 DEF SearchInv, Searching
<1>2. CASE pc' # "ended"
  <2>1. stack' = Append(stack, t) /\ left' = With(m, t, Subject[t].deps) /\ pc' = pc
    BY <1>2 DEF Enter, Raise, Goto
  <2>2. Subject' = Subject
    BY <2>1 DEF Subject
  <2>3. SearchOk(Subject, stack, left, black)
    BY DEF SearchInv
  <2>4. /\ Subject \in [DOMAIN Subject -> Task] /\ stack \in Seq(Text)
        /\ left \in [DOMAIN left -> SUBSET Text]
        /\ t \in DOMAIN Subject \cap Text /\ t \notin black
    BY SearchTypes DEF White, TypeOK
  <2>5. \A i \in 1 .. Len(stack) : stack[i] # t
    BY DEF White, Grey, OnPath
  <2>6. \/ stack = <<>> /\ m = left
        \/ /\ stack # <<>> /\ t \in left[stack[Len(stack)]]
           /\ m = [left EXCEPT ![stack[Len(stack)]] = @ \ {t}]
    BY DEF Top
  <2>7. SearchOk(Subject, Append(stack, t), With(m, t, Subject[t].deps), black)
    BY <2>3, <2>4, <2>5, <2>6, SearchPushes
  <2> QED BY <2>1, <2>2, <2>7 DEF SearchInv
<1> QED BY <1>1, <1>2

\* Every step of a search keeps to it.
LEMMA SearchStep == ASSUME TypeOK, SearchInv, CheckedInv, [Next]_vars PROVE SearchInv'
<1> USE DEF Raise, Goto, planVars, searchVars, fileVars, endVars
<1>1. CASE Load
  BY <1>1 DEF Load, SearchInv, Searching
<1>2. ASSUME NEW raw \in RawTask, ValidateTask(raw) PROVE SearchInv'
  BY <1>2 DEF ValidateTask, SearchInv, Searching
<1>3. CASE CheckReferences
  <2>1. CASE pc' \notin Searching
    BY <2>1 DEF SearchInv
  <2>2. CASE pc' \in Searching
    <3>1. stack' = <<>> /\ left' = NoTasks /\ black' = {}
      BY <1>3, <2>2 DEF CheckReferences, StartSearch, Searching
    <3>2. SearchOk(Subject', <<>>, NoTasks, {})
      BY SearchBegins
    <3> QED BY <3>1, <3>2 DEF SearchInv
  <2> QED BY <2>1, <2>2
<1>4. ASSUME NEW t \in Text, SearchFrom(t) PROVE SearchInv'
  <2>1. Enter(t, left) /\ stack = <<>> /\ t \in White /\ pc \in Searching
    BY <1>4 DEF SearchFrom
  <2>2. left \in [DOMAIN left -> SUBSET Text] /\ UNCHANGED <<tasks, records, black>>
    BY <1>4 DEF SearchFrom, TypeOK
  <2> QED BY <2>1, <2>2, EnterKeepsSearch
<1>5. ASSUME NEW d \in Text, LookAt(d) PROVE SearchInv'
  <2>1. stack # <<>> /\ d \in left[Top] /\ pc \in Searching
    BY <1>5 DEF LookAt
  <2>2. /\ left \in [DOMAIN left -> SUBSET Text] /\ UNCHANGED <<tasks, records, black>>
        /\ SearchOk(Subject, stack, left, black)
    BY <1>5, <2>1 DEF LookAt, TypeOK, SearchInv
  <2>3. CASE pc' = "ended"
    BY <2>3 DEF SearchInv, Searching
  <2>4. CASE pc' # "ended" /\ d \in Skipped /\ left' = WithoutLooked(d) /\ Goto(pc) /\ UNCHANGED stack
    <3>1. d \in black
      <4>1. CASE pc = "parserSearch"
        <5>1. Closed(tasks) /\ Subject = tasks
          BY <4>1 DEF CheckedInv, Subject
        <5>2. Len(stack) \in 1 .. Len(stack) /\ Len(stack) \in Nat
          BY <2>1, PopIs DEF TypeOK
        <5>3. Top \in DOMAIN Subject /\ left[Top] \subseteq Subject[Top].deps
          BY <2>2, <5>2 DEF SearchOk, Top
        <5>4. d \in DOMAIN Subject
          BY <2>1, <5>1, <5>3 DEF Closed
        <5> QED BY <2>4, <5>4 DEF Skipped
      <4>2. CASE pc # "parserSearch"
        BY <2>4, <4>2 DEF Skipped
      <4> QED BY <4>1, <4>2
    <3>2. SearchOk(Subject, stack, [left EXCEPT ![Top] = left[Top] \ {d}], black)
      BY <2>2, <3>1, SearchPassesOver DEF TypeOK
    <3>3. Subject' = Subject
      BY <2>2, <2>4 DEF Subject
    <3> QED BY <2>2, <2>4, <3>2, <3>3 DEF SearchInv, WithoutLooked
  <2>5. CASE d \in White /\ Enter(d, WithoutLooked(d))
    <3>1. WithoutLooked(d) \in [DOMAIN left -> SUBSET Text]
      BY <2>2 DEF WithoutLooked
    <3> QED BY <2>1, <2>2, <2>5, <3>1, EnterKeepsSearch DEF WithoutLooked
  <2> QED BY <1>5, <2>3, <2>4, <2>5 DEF LookAt
<1>6. CASE Leave
  <2>1. stack # <<>> /\ left[Top] = {} /\ pc \in Searching
    BY <1>6 DEF Leave
  <2>2. /\ stack' = SubSeq(stack, 1, Len(stack) - 1) /\ black' = black \cup {Top}
        /\ UNCHANGED <<pc, tasks, records, left>>
    BY <1>6 DEF Leave, Blackened
  <2>3. SearchOk(Subject, stack, left, black)
    BY <2>1 DEF SearchInv
  <2>4. Subject' = Subject
    BY <2>2 DEF Subject
  <2>5. Subject \in [DOMAIN Subject -> Task] /\ stack \in Seq(Text)
    BY SearchTypes DEF TypeOK
  <2>6. SearchOk(Subject, SubSeq(stack, 1, Len(stack) - 1), left, black \cup {stack[Len(stack)]})
    BY <2>1, <2>3, <2>5, SearchPops DEF Top
  <2> QED BY <2>2, <2>4, <2>6 DEF SearchInv, Top
<1>7. CASE SearchEnds
  BY <1>7 DEF SearchEnds, SearchInv, Searching
<1>8. CASE MakeRunDir
  BY <1>8 DEF MakeRunDir, SearchInv, Searching
<1>9. CASE BuildFromPlan
  BY <1>9 DEF BuildFromPlan, BuildRecord, SearchInv, Searching
<1>10. CASE BuildFromList
  BY <1>10 DEF BuildFromList, BuildRecord, SearchInv, Searching
<1>11. CASE RecordsBuilt
  <2>1. CASE pc' \notin Searching
    BY <2>1 DEF SearchInv
  <2>2. CASE pc' \in Searching
    <3>1. stack' = <<>> /\ left' = NoTasks /\ black' = {}
      BY <1>11, <2>2 DEF RecordsBuilt, StartSearch, Searching
    <3>2. SearchOk(Subject', <<>>, NoTasks, {})
      BY SearchBegins
    <3> QED BY <3>1, <3>2 DEF SearchInv
  <2> QED BY <2>1, <2>2
<1>12. CASE InitState
  BY <1>12 DEF InitState, SearchInv, Searching
<1>14. CASE BuildGuards
  BY <1>14 DEF BuildGuards, SearchInv, Searching
<1>13. CASE UNCHANGED vars
  BY <1>13 DEF vars, SearchInv, Subject
<1> QED
  BY <1>1, <1>2, <1>3, <1>4, <1>5, <1>6, <1>7, <1>8, <1>9, <1>10, <1>11, <1>12,
     <1>13, <1>14
  DEF Next, Parse, Search, Construct, Ended
\* What was checked stays checked on the way from the parser to the supervisor.
LEMMA CheckedStep ==
    ASSUME TypeOK, BaseInv, SearchInv, CheckedInv, [Next]_vars PROVE CheckedInv'
<1> USE DEF CheckedInv, HandedOver, Raise, Goto, planVars, searchVars, fileVars, endVars
<1>1. CASE Load
  BY <1>1 DEF Load
<1>2. ASSUME NEW raw \in RawTask, ValidateTask(raw) PROVE CheckedInv'
  BY <1>2 DEF ValidateTask
<1>3. CASE CheckReferences
  BY <1>3 DEF CheckReferences, StartSearch, ReferencesExist, Closed
<1>4. ASSUME NEW t \in Text, SearchFrom(t) PROVE CheckedInv'
  <2>1. UNCHANGED <<tasks, records, command>> /\ pc' \in {pc, "ended"}
    BY <1>4 DEF SearchFrom, Enter
  <2> QED BY <2>1
<1>5. ASSUME NEW d \in Text, LookAt(d) PROVE CheckedInv'
  <2>1. UNCHANGED <<tasks, records, command>> /\ pc' \in {pc, "ended"}
    BY <1>5 DEF LookAt, Enter
  <2> QED BY <2>1
<1>6. CASE Leave
  <2>1. UNCHANGED <<tasks, records, command>> /\ pc' \in {pc, "ended"}
    BY <1>6 DEF Leave
  <2> QED BY <2>1
<1>7. CASE SearchEnds
  <2>1. SearchOk(Subject, stack, left, DOMAIN Subject)
    BY <1>7 DEF SearchEnds, SearchInv
  <2>2. Checked(Subject)
    BY <2>1, SearchDone
  <2> QED BY <1>7, <2>2 DEF SearchEnds, Subject, BaseInv
<1>8. CASE MakeRunDir
  BY <1>8 DEF MakeRunDir
<1>9. CASE BuildFromPlan
  <2>1. PICK t \in DOMAIN tasks \ DOMAIN records : BuildRecord(tasks[t])
    BY <1>9 DEF BuildFromPlan
  <2>2. tasks[t].id = t
    BY DEF BaseInv
  <2>3. UNCHANGED <<tasks, command>> /\ pc = "build" /\ command = "run"
    BY <1>9, <2>1 DEF BuildFromPlan, BuildRecord
  <2>4. records' = records \/ records' = With(records, t, tasks[t])
    BY <2>1, <2>2 DEF BuildRecord
  <2>5. pc' \in {"build", "ended"}
    BY <2>1, <2>3 DEF BuildRecord
  <2>6. DOMAIN records' \subseteq DOMAIN tasks /\ \A u \in DOMAIN records' : records'[u] = tasks[u]
    BY <2>3, <2>4 DEF With
  <2> QED BY <2>3, <2>5, <2>6
<1>10. CASE BuildFromList
  BY <1>10 DEF BuildFromList, BuildRecord
<1>11. CASE RecordsBuilt
  BY <1>11 DEF RecordsBuilt, StartSearch
<1>12. CASE InitState
  BY <1>12 DEF InitState
<1>14. CASE BuildGuards
  BY <1>14 DEF BuildGuards
<1>13. CASE UNCHANGED vars
  BY <1>13 DEF vars
<1> QED
  BY <1>1, <1>2, <1>3, <1>4, <1>5, <1>6, <1>7, <1>8, <1>9, <1>10, <1>11, <1>12,
     <1>13, <1>14
  DEF Next, Parse, Search, Construct, Ended
\* What the search showed, read as the plan of a supervisor.
LEMMA CheckedPlan ==
    ASSUME TypeOK, BaseInv, Checked(records), StatusAllowed, RetriesAllowed
    PROVE  WellFormedPlan(DOMAIN records, Deps(records),
                          [t \in DOMAIN records |-> records[t].priority],
                          [t \in DOMAIN records |-> records[t].maxRetries],
                          {records[t].status : t \in DOMAIN records},
                          {records[t].retries.int : t \in DOMAIN records})
<1>1. IsFiniteSet(DOMAIN records) /\ Acyclic(DOMAIN records, Deps(records))
  BY DEF BaseInv, Checked
<1>2. Deps(records) \in [DOMAIN records -> SUBSET DOMAIN records]
  BY DEF Checked, Closed, Deps
<1>3. /\ [t \in DOMAIN records |-> records[t].priority] \in [DOMAIN records -> 0 .. 9]
      /\ [t \in DOMAIN records |-> records[t].maxRetries] \in [DOMAIN records -> 0 .. 10]
  BY DEF BaseInv, InRange
<1>4. {records[t].status : t \in DOMAIN records} \subseteq TaskStatus
  BY DEF StatusAllowed
<1>5. {records[t].retries.int : t \in DOMAIN records} \subseteq Nat
  BY DEF RetriesAllowed, TypeOK, Task, Scalar
<1> QED BY <1>1, <1>2, <1>3, <1>4, <1>5 DEF WellFormedPlan

\* A command that ended stays as it is.
LEMMA EndIsFinal == ASSUME pc = "ended", [Next]_vars PROVE UNCHANGED vars
  BY DEF Next, Parse, Search, Construct, Ended, Load, ValidateTask, CheckReferences, SearchFrom,
         LookAt, Leave, SearchEnds, MakeRunDir, BuildFromPlan, BuildFromList, BuildRecord,
         RecordsBuilt, BuildGuards, InitState, Searching

\* The file is written only from a plan that was checked.
LEMMA PlanStep ==
    ASSUME TypeOK, BaseInv, CheckedInv, PlanIsWellFormed, [Next]_vars PROVE PlanIsWellFormed'
<1>1. CASE ~stateFile'
  BY <1>1 DEF PlanIsWellFormed
<1>2. CASE stateFile'
  <2>1. CASE stateFile
    <3>1. UNCHANGED vars
      BY <2>1, EndIsFinal DEF BaseInv
    <3> QED BY <3>1 DEF vars, planVars, fileVars, PlanIsWellFormed, Deps
  <2>2. CASE ~stateFile
    <3>1. InitState
      BY <1>2, <2>2 DEF Next, Parse, Search, Construct, Ended, Load, ValidateTask, CheckReferences,
         SearchFrom, LookAt, Leave, SearchEnds, MakeRunDir, BuildFromPlan, BuildFromList,
         BuildRecord, RecordsBuilt, BuildGuards, fileVars, vars, TypeOK
    <3>2. Checked(records) /\ StatusAllowed /\ RetriesAllowed /\ records' = records
      BY <1>2, <2>2, <3>1 DEF InitState, CheckedInv, planVars, Raise
    <3> QED BY <3>2, CheckedPlan DEF PlanIsWellFormed, Deps
  <2> QED BY <2>1, <2>2
<1> QED BY <1>1, <1>2

\* Only a look at a grey task ends with "cycle", only a supervisor's look at a
\* dependency with OrchestratorError, and `validate` ends well only after a search.
EndingsOf ==
    /\ reason' = "cycle" => \E d \in Grey : LookAt(d) /\ outcome' = Verdict
    /\ outcome' = "OrchestratorError" =>
          /\ pc = "supervisorSearch"
          /\ \E d \in Text : LookAt(d) /\ (d \in Grey \/ d \notin DOMAIN Subject)
    /\ outcome' = "ok" /\ command' = "validate" => SearchEnds

\* Every step of a command that had not ended keeps to that.
LEMMA Endings == ASSUME TypeOK, BaseInv, pc # "ended", [Next]_vars PROVE EndingsOf
<1>0. /\ reason = "none" /\ outcome = "none"
      /\ pc \in {"makeDir", "build", "supervisorSearch", "guards", "init"} => command # "validate"
  BY DEF BaseInv
<1> USE <1>0 DEF EndingsOf, Raise, Goto, planVars, endVars
<1>1. CASE Load
  BY <1>1 DEF Load
<1>2. ASSUME NEW raw \in RawTask, ValidateTask(raw) PROVE EndingsOf
  <2>1. outcome' \in {"none", "PlanParseError", "OverflowError"} /\ reason' \in {"none", "field"}
    BY <1>2, RawOutcomes DEF ValidateTask
  <2> QED BY <2>1
<1>3. CASE CheckReferences
  BY <1>3 DEF CheckReferences, StartSearch
<1>4. ASSUME NEW t \in Text, SearchFrom(t) PROVE EndingsOf
  <2>1. reason' \in {"none", "depth"} /\ outcome' \in {"none", "RecursionError"}
    BY <1>4 DEF SearchFrom, Enter
  <2> QED BY <1>4, <2>1 DEF SearchFrom
<1>5. ASSUME NEW d \in Text, LookAt(d) PROVE EndingsOf
  <2>1. CASE pc = "supervisorSearch" /\ d \notin DOMAIN Subject /\ Raise(Verdict, "reference")
    BY <1>5, <2>1 DEF Verdict
  <2>2. CASE d \in Grey /\ Raise(Verdict, "cycle")
    <3>1. outcome' = "OrchestratorError" => pc = "supervisorSearch"
      BY <1>5, <2>2 DEF Verdict, LookAt, Searching
    <3> QED BY <1>5, <2>2, <3>1 DEF Verdict
  <2>3. CASE d \in Skipped /\ Goto(pc)
    BY <2>3
  <2>4. CASE d \in White /\ Enter(d, WithoutLooked(d))
    <3>1. reason' \in {"none", "depth"} /\ outcome' \in {"none", "RecursionError"}
      BY <2>4 DEF Enter
    <3> QED BY <1>5, <2>4, <3>1 DEF LookAt
  <2> QED BY <1>5, <2>1, <2>2, <2>3, <2>4 DEF LookAt
<1>6. CASE Leave
  BY <1>6 DEF Leave
<1>7. CASE SearchEnds
  BY <1>7 DEF SearchEnds
<1>8. CASE MakeRunDir
  BY <1>8 DEF MakeRunDir
<1>9. CASE BuildFromPlan
  BY <1>9 DEF BuildFromPlan, BuildRecord
<1>10. CASE BuildFromList
  BY <1>10 DEF BuildFromList, BuildRecord
<1>11. CASE RecordsBuilt
  BY <1>11 DEF RecordsBuilt, StartSearch
<1>12. CASE InitState
  BY <1>12 DEF InitState
<1>14. CASE BuildGuards
  BY <1>14 DEF BuildGuards
<1>13. CASE UNCHANGED vars
  BY <1>13 DEF vars
<1> QED
  BY <1>1, <1>2, <1>3, <1>4, <1>5, <1>6, <1>7, <1>8, <1>9, <1>10, <1>11, <1>12,
     <1>13, <1>14
  DEF Next, Parse, Search, Construct, Ended

\* A look at a grey task shows a cycle.
LEMMA GreyIsCycle ==
    ASSUME TypeOK, SearchInv, NEW d \in Grey, LookAt(d)
    PROVE  ~Acyclic(DOMAIN Subject, Deps(Subject)) /\ UNCHANGED <<tasks, records>>
<1>1. pc \in Searching /\ d \in left[stack[Len(stack)]] /\ UNCHANGED <<tasks, records>>
  BY DEF LookAt, Top, planVars
<1>2. SearchOk(Subject, stack, left, black) /\ stack \in Seq(Text)
  BY <1>1 DEF SearchInv, TypeOK
<1>3. PICK k \in 1 .. Len(stack) : stack[k] = d
  BY DEF Grey, OnPath
<1> QED BY <1>1, <1>2, <1>3, SearchVerdict

\* The other properties, kept by every step.
LEMMA VerdictStep ==
    ASSUME TypeOK, BaseInv, SearchInv, CheckedInv, [Next]_vars,
           CyclesAreReal, SecondCheckAgrees, ValidPlansAreSound
    PROVE  CyclesAreReal' /\ SecondCheckAgrees' /\ ValidPlansAreSound'
<1>1. CASE pc = "ended"
  <2>1. UNCHANGED vars
    BY <1>1, EndIsFinal
  <2> QED BY <2>1 DEF vars, planVars, endVars, CyclesAreReal, SecondCheckAgrees,
                      ValidPlansAreSound, Checked, Closed, InRange, Deps
<1>2. CASE pc # "ended"
  <2>1. EndingsOf
    BY <1>2, Endings
  <2>2. CyclesAreReal'
    <3>1. ASSUME reason' = "cycle"
          PROVE  LET f == IF outcome' = "PlanParseError" THEN tasks' ELSE records' IN
                 ~Acyclic(DOMAIN f, Deps(f))
      <4>1. PICK d \in Grey : LookAt(d) /\ outcome' = Verdict
        BY <2>1, <3>1 DEF EndingsOf
      <4>2. ~Acyclic(DOMAIN Subject, Deps(Subject)) /\ UNCHANGED <<tasks, records>>
        BY <4>1, GreyIsCycle
      <4> QED BY <4>1, <4>2 DEF Subject, Verdict
    <3> QED BY <3>1 DEF CyclesAreReal, Deps
  <2>3. SecondCheckAgrees'
    <3>1. SUFFICES ASSUME command' = "run", outcome' = "OrchestratorError" PROVE FALSE
      BY DEF SecondCheckAgrees
    <3>2. PICK d \in Text : LookAt(d) /\ (d \in Grey \/ d \notin DOMAIN Subject)
      BY <2>1, <3>1 DEF EndingsOf
    <3>3. pc = "supervisorSearch" /\ command = "run" /\ Subject = records
      BY <2>1, <3>1, <3>2 DEF EndingsOf, LookAt, Subject
    <3>4. /\ Checked(tasks) /\ DOMAIN records = DOMAIN tasks
          /\ \A t \in DOMAIN records : records[t] = tasks[t]
      BY <3>3 DEF CheckedInv, HandedOver
    <3>5. records = tasks
      BY <3>4 DEF TypeOK
    <3>6. d \notin Grey
      BY <3>2, <3>3, <3>4, <3>5, GreyIsCycle DEF Checked
    <3>7. d \in left[Top] /\ stack # <<>> /\ pc \in Searching
      BY <3>2 DEF LookAt
    <3>8. SearchOk(Subject, stack, left, black) /\ Len(stack) \in 1 .. Len(stack)
      BY <3>7, PopIs DEF SearchInv, TypeOK
    <3>9. Top \in DOMAIN records /\ d \in records[Top].deps
      BY <3>3, <3>7, <3>8 DEF SearchOk, Top
    <3> QED BY <3>2, <3>3, <3>4, <3>5, <3>6, <3>9 DEF Checked, Closed
  <2>4. ValidPlansAreSound'
    <3>1. SUFFICES ASSUME command' = "validate", outcome' = "ok"
                   PROVE  Checked(tasks') /\ InRange(tasks')
      BY DEF ValidPlansAreSound
    <3>2. SearchEnds
      BY <2>1, <3>1 DEF EndingsOf
    <3>3. pc = "parserSearch" /\ tasks' = tasks
      BY <3>1, <3>2 DEF SearchEnds, BaseInv, planVars, Searching
    <3>4. SearchOk(tasks, stack, left, DOMAIN tasks)
      BY <3>2, <3>3 DEF SearchEnds, SearchInv, Subject
    <3> QED BY <3>3, <3>4, SearchDone DEF BaseInv
  <2> QED BY <2>2, <2>3, <2>4
<1> QED BY <1>1, <1>2

\* Every command starts with the invariant.
LEMMA IntakeInit == ASSUME Init PROVE IntakeInv
<1>1. DOMAIN tasks = {} /\ DOMAIN records = {}
  BY NoTasksType DEF Init
<1>2. pc \in {"makeDir", "load"} /\ (pc = "load" => command # "api") /\ (command = "run" => pc = "load")
  BY DEF Init
<1>3. BaseInv
  BY <1>1, <1>2, FS_EmptySet DEF Init, BaseInv, InRange
<1>4. SearchInv /\ CheckedInv
  BY <1>2 DEF SearchInv, CheckedInv, HandedOver, Searching
<1>5. PlanIsWellFormed /\ CyclesAreReal /\ SecondCheckAgrees /\ ValidPlansAreSound
  BY DEF Init, PlanIsWellFormed, CyclesAreReal, SecondCheckAgrees, ValidPlansAreSound
<1> QED BY <1>3, <1>4, <1>5, TypeInit DEF IntakeInv

-----------------------------------------------------------------------------
(* Theorems. *)

\* Through all of validate, run and a direct construction of a supervisor, the types
\* hold, each search keeps a path of dependencies with closed black tasks, and what
\* the parser checked is what the supervisor gets.
THEOREM IntakeInvariance == Spec => []IntakeInv
<1>1. IntakeInv /\ [Next]_vars => IntakeInv'
  <2> SUFFICES ASSUME IntakeInv, [Next]_vars PROVE IntakeInv'
    OBVIOUS
  <2>1. TypeOK' /\ BaseInv'
    BY TypeStep, BaseStep DEF IntakeInv
  <2>2. SearchInv' /\ CheckedInv'
    BY SearchStep, CheckedStep DEF IntakeInv
  <2>3. PlanIsWellFormed' /\ CyclesAreReal' /\ SecondCheckAgrees' /\ ValidPlansAreSound'
    BY PlanStep, VerdictStep DEF IntakeInv
  <2> QED BY <2>1, <2>2, <2>3 DEF IntakeInv
<1> QED BY <1>1, IntakeInit, PTL DEF Spec

\* A supervisor never sets out with a plan other than a well-formed one: what
\* Orchestrator.tla assumes of its plan is what the two checks and the schema ensure.
THEOREM WellFormedPlans == Spec => []PlanIsWellFormed
<1>1. IntakeInv => PlanIsWellFormed
  BY DEF IntakeInv
<1> QED BY <1>1, IntakeInvariance, PTL

\* A plan refused for a cycle, by either depth-first search, has one.
THEOREM RealCycles == Spec => []CyclesAreReal
<1>1. IntakeInv => CyclesAreReal
  BY DEF IntakeInv
<1> QED BY <1>1, IntakeInvariance, PTL

\* No plan passes the parser's checks and fails the supervisor's.
THEOREM ChecksAgree == Spec => []SecondCheckAgrees
<1>1. IntakeInv => SecondCheckAgrees
  BY DEF IntakeInv
<1> QED BY <1>1, IntakeInvariance, PTL

\* What `validate` accepts has every dependency it names, no cycle and numbers in range.
THEOREM ValidPlans == Spec => []ValidPlansAreSound
<1>1. IntakeInv => ValidPlansAreSound
  BY DEF IntakeInv
<1> QED BY <1>1, IntakeInvariance, PTL

-----------------------------------------------------------------------------
(* The search ends. *)

\* A call that starts takes its task from the white ones, or exhausts the stack.
LEMMA EnterTakes ==
    ASSUME TypeOK, pc \in Searching, NEW t \in White, NEW todo, Enter(t, todo),
           UNCHANGED <<tasks, records, black>>, pc' = pc
    PROVE  White' \subseteq White /\ White' # White
<1>1. stack \in Seq(Text) /\ t \in Text
  BY SearchTypes DEF White, TypeOK
<1>2. stack' = Append(stack, t)
  BY DEF Enter, Raise, Goto, Searching
<1>3. Grey' = Grey \cup {t}
  BY <1>1, <1>2, PushIs DEF Grey
<1>4. White' = White \ {t}
  BY <1>3 DEF White, Subject
<1> QED BY <1>4

\* Every step of a search brings it nearer to its end.
THEOREM SearchesEnd == Spec => SearchProgresses
<1> DEFINE Nearer ==
      pc' = pc /\ pc \in Searching =>
          \/ White' \subseteq White /\ White' # White
          \/ White' = White /\ Len(stack') < Len(stack)
          \/ /\ White' = White /\ stack' = stack
             /\ left'[Top] \subseteq left[Top] /\ left'[Top] # left[Top]
<1>1. ASSUME IntakeInv, Next, pc' = pc, pc \in Searching PROVE Nearer \/ UNCHANGED vars
  <2>0. TypeOK /\ SearchOk(Subject, stack, left, black) /\ stack \in Seq(Text)
    BY <1>1 DEF IntakeInv, SearchInv, TypeOK
  <2>1. ASSUME NEW t \in Text, SearchFrom(t) PROVE Nearer
    BY <1>1, <2>0, <2>1, EnterTakes DEF SearchFrom, planVars
  <2>2. ASSUME NEW d \in Text, LookAt(d) PROVE Nearer
    <3>1. stack # <<>> /\ d \in left[Top] /\ UNCHANGED <<tasks, records, black>>
      BY <2>2 DEF LookAt, planVars
    <3>2. CASE d \in White /\ Enter(d, WithoutLooked(d))
      BY <1>1, <2>0, <3>1, <3>2, EnterTakes
    <3>3. CASE left' = WithoutLooked(d) /\ UNCHANGED stack
      <4>1. Len(stack) \in 1 .. Len(stack)
        BY <2>0, <3>1, PopIs
      <4>2. Top \in DOMAIN left
        BY <2>0, <4>1 DEF SearchOk, Top
      <4>3. left'[Top] = left[Top] \ {d}
        BY <3>3, <4>2 DEF WithoutLooked
      <4>4. White' = White
        BY <1>1, <3>1, <3>3 DEF White, Grey, Subject
      <4> QED BY <3>1, <3>3, <4>3, <4>4
    <3>4. CASE pc' = "ended"
      BY <1>1, <3>4 DEF Searching
    <3> QED BY <2>2, <3>2, <3>3, <3>4 DEF LookAt, Raise
  <2>3. CASE Leave
    <3>1. /\ stack # <<>> /\ stack' = SubSeq(stack, 1, Len(stack) - 1)
          /\ black' = black \cup {Top} /\ UNCHANGED <<pc, tasks, records>>
      BY <2>3 DEF Leave, Blackened, planVars
    <3>2. /\ Len(stack) \in Nat \ {0} /\ Len(stack') = Len(stack) - 1
          /\ \A i \in 1 .. Len(stack) - 1 : stack'[i] = stack[i]
      BY <2>0, <3>1, PopIs
    <3>3. Grey' \cup black' = Grey \cup black
      <4>1. 1 .. Len(stack) = (1 .. Len(stack) - 1) \cup {Len(stack)}
        BY <3>2
      <4>2. Grey = Grey' \cup {Top}
        BY <3>2, <4>1 DEF Grey, OnPath, Top
      <4> QED BY <3>1, <4>2
    <3>4. White' = White
      BY <3>1, <3>3 DEF White, Subject
    <3> QED BY <3>2, <3>4
  <2> QED
    BY <1>1, <2>1, <2>2, <2>3
    DEF Next, Parse, Search, Construct, Ended, Load, ValidateTask, CheckReferences,
        SearchEnds, MakeRunDir, BuildFromPlan, BuildFromList, BuildRecord, RecordsBuilt,
        BuildGuards, InitState, Raise, Goto, StartSearch, Searching
<1>2. IntakeInv /\ [Next]_vars => [Nearer]_vars
  BY <1>1
<1> QED BY <1>2, IntakeInvariance, PTL DEF Spec, SearchProgresses
=============================================================================
