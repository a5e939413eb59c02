----------------------------- MODULE BatchInputs -----------------------------
(***************************************************************************)
(* How the workbench turns a filled form into the inputs of tasks: POST    *)
(* /api/run makes one task (_resolve_workflow_inputs), POST /api/batch-run *)
(* pairs lists of values into many (_resolve_batch_workflow_inputs), and   *)
(* the browser run resolves the inputs again (workflow_specs.py).          *)
(*                                                                         *)
(* No rule depends on the order of the inputs (conditions name switches,   *)
(* which are resolved first), so a workflow's inputs are a set.  A value   *)
(* is a name; Bad is one that does not parse, is out of range or is not a  *)
(* file of the workbench, Blank is the empty string, White a text of       *)
(* blanks only.  Such a number, switch or file is refused as a Bad one is, *)
(* but for a file of a batch, where it is dropped as a Blank one is.       *)
(***************************************************************************)
EXTENDS WorkflowCatalog, Integers, FiniteSets, Sequences, SequencesExt

CONSTANTS
  Workflows,   \* the workflows of this instance
  MaxValues,   \* bound: values a user puts into one form
  MaxTasks,    \* tasks per batch (500 in the code)
  MaxRepeat    \* generations per group (20 in the code)

ASSUME BatchAssumption ==
  /\ MaxValues \in Nat
  /\ MaxTasks \in Nat \ {0}
  /\ MaxRepeat \in Nat \ {0}

VARIABLES
  chosen,   \* the workflow of the form
  form,     \* per input: None or the list of values given
  answer    \* what the request was answered with

vars == <<chosen, form, answer>>

Blank == "blank"
White == "white"
Bad   == "bad"

\* Values a user can give to an input of each type, and those that are good.
Good(type) ==
  CASE type = "boolean" -> {"on", "off"}
    [] type = "number"  -> {"n1"}
    [] type = "text"    -> {"t1", "t2"}
    [] type = "file"    -> {"f1", "f2"}

Raw(type) == Good(type) \cup {Blank, IF type = "text" THEN White ELSE Bad}

Keys(w) == {i.key : i \in w.inputs}
Input(w, key) == CHOOSE i \in w.inputs : i.key = key

\* A list without some of the values.
Without(list, values) ==
  LET kept[n \in 0..Len(list)] ==
        IF n = 0 THEN <<>>
        ELSE IF list[n] \in values THEN kept[n - 1] ELSE Append(kept[n - 1], list[n])
  IN  kept[Len(list)]

NoAnswer == [kind |-> "none", repeat |-> 1, ok |-> FALSE, tasks |-> <<>>]

\* A value of this input is required whatever the others are.
Supplies(w, key) == \E i \in w.inputs : i.key = key /\ i.required /\ i.when = None

\* What every entry of the catalog obeys: keys are unique, conditions name a
\* switch, defaults are good, a file has none, nor has an input nobody must fill
\* in (switches aside), and what the runner needs is required of the user or has
\* a default.
WellFormed(w) ==
  /\ w.inputs # {} /\ IsFiniteSet(w.inputs)
  /\ \A i, j \in w.inputs : i.key = j.key => i = j
  /\ \A i \in w.inputs :
       /\ i.type \in {"boolean", "number", "text", "file"} /\ i.default \notin {Blank, White, Bad}
       /\ i.type = "file" => i.default = None
       /\ IF i.type = "boolean" THEN i.when = None
          ELSE i.default # None => i.required \/ i.when # None
       /\ i.when # None => \E j \in w.inputs : j.key = i.when /\ j.type = "boolean"
  /\ \A u \in w.uploads : u.required =>
       Supplies(w, u.key) \/ (u.fallback # None /\ Supplies(w, u.fallback))
  /\ \A t \in w.texts : t.required => Supplies(w, t.key)
  /\ \A d \in w.widgets :
       /\ d.key \in Keys(w) /\ d.default \notin {Blank, White, Bad}
       /\ d.required => d.default # None \/ Supplies(w, d.key)

ASSUME WorkflowsAssumption ==
  /\ \A w \in Workflows : WellFormed(w)
  /\ None \notin {"on", "off", "n1", "t1", "t2", "f1", "f2", Blank, White, Bad}

-----------------------------------------------------------------------------
(* Conditions, shared by both requests.                                    *)

Met(i, values) == i.when = None \/ values[i.when] = "on"

Required(i, values) == IF i.when # None THEN Met(i, values) ELSE i.required

-----------------------------------------------------------------------------
(* One task: _resolve_workflow_inputs.                                     *)

\* The value the request has for an input; only texts take their default for an
\* empty value as well, before blanks are stripped.
Asked(i, data) ==
  CASE data[i.key] = None                      -> i.default
    [] i.type = "text" /\ data[i.key] = Blank -> i.default
    [] i.type = "text" /\ data[i.key] = White -> Blank
    [] OTHER                                   -> data[i.key]

Missing(v) == v \in {None, Blank}

\* The switches, resolved first.
Switches(w, data) ==
  [k \in Keys(w) |-> IF Input(w, k).type = "boolean" THEN Asked(Input(w, k), data) ELSE None]

Rejects(i, data, switches) ==
  IF i.type = "boolean"
  THEN IF Asked(i, data) = None THEN Required(i, switches) ELSE Asked(i, data) \in {Blank, White, Bad}
  ELSE /\ Met(i, switches)
       /\ \/ Asked(i, data) \in {White, Bad}
          \/ Missing(Asked(i, data)) /\ Required(i, switches)

Resolved(i, data, switches) ==
  IF i.type # "boolean" /\ (~Met(i, switches) \/ Missing(Asked(i, data)))
  THEN None ELSE Asked(i, data)

\* The task /api/run makes of the data, if it accepts them.
Run(w, data) ==
  LET switches == Switches(w, data) IN
  [ok |-> \A i \in w.inputs : ~Rejects(i, data, switches),
   inputs |-> [k \in Keys(w) |-> Resolved(Input(w, k), data, switches)]]

-----------------------------------------------------------------------------
(* A batch: _resolve_batch_workflow_inputs.                                *)

\* The list of an input after defaults: a switch takes its default for a list
\* that is absent, texts and numbers for an empty one as well.
List(i) ==
  LET given == form[i.key] IN
  CASE given = None /\ i.default # None -> <<i.default>>
    [] given = <<>> /\ i.default # None /\ i.type \in {"text", "number"} -> <<i.default>>
    [] given = None -> <<>>
    [] OTHER -> given

\* Blank values are dropped; a list with no value left stands for "no value".
Values(i) ==
  LET kept == Without(List(i), IF i.type = "boolean" THEN {} ELSE {Blank, White})
  IN IF kept = <<>> THEN <<None>> ELSE kept

Optional(i) == ~i.required \/ i.when # None

\* A list that is refused before any combination is made.
Malformed(i) ==
  IF i.type = "boolean"
  THEN List(i) = <<>> \/ \E v \in Range(List(i)) : v \in {Blank, White, Bad}
  ELSE \/ form[i.key] = None /\ List(i) = <<>> /\ ~Optional(i)
       \/ Bad \in Range(List(i))

\* Wrong on purpose: as many groups as the switch or the shortest list has.
Groups_Shortest(w) == CHOOSE n \in {Len(Values(i)) : i \in w.inputs} :
                        \A i \in w.inputs : n <= Len(Values(i))

\* As many groups as the longest list has values.
Groups(w) == CHOOSE n \in {Len(Values(i)) : i \in w.inputs} :
               \A i \in w.inputs : n >= Len(Values(i))

\* Group g takes the g-th value of every list, shorter lists being cycled.
Candidate(w, g) ==
  [k \in Keys(w) |->
     LET values == Values(Input(w, k)) IN values[((g - 1) % Len(values)) + 1]]

\* Wrong on purpose: nothing is required of a combination.
Lacks_Nothing(w, candidate) == FALSE

Lacks(w, candidate) ==
  \E i \in w.inputs : Required(i, candidate) /\ candidate[i.key] = None

\* Wrong on purpose: a value is kept whatever its switch says.
Combination_Unconditional(w, candidate) == candidate

\* Values whose condition is not met are left out of the task.
Combination(w, candidate) ==
  [k \in Keys(w) |-> IF Met(Input(w, k), candidate) THEN candidate[k] ELSE None]

\* Wrong on purpose: the limit is checked before the repetition.
TooMany_Unrepeated(w, repeat) == Groups(w) > MaxTasks

TooMany(w, repeat) == Groups(w) * repeat > MaxTasks

\* The tasks /api/batch-run makes, each group's repetitions side by side.
Batch(w, repeat) ==
  [kind |-> "batch", repeat |-> repeat,
   ok |-> /\ repeat \in 1..MaxRepeat
          /\ \A i \in w.inputs : ~Malformed(i)
          /\ ~TooMany(w, repeat)
          /\ \A g \in 1..Groups(w) : ~Lacks(w, Candidate(w, g)),
   tasks |-> [n \in 1..(Groups(w) * repeat) |->
                Combination(w, Candidate(w, ((n - 1) \div repeat) + 1))]]

-----------------------------------------------------------------------------
(* The browser run: WorkflowSpec.resolve_uploads, _texts and _widgets.     *)

ResolvesUpload(u, task) ==
  \/ task[u.key] # None
  \/ u.fallback # None /\ task[u.fallback] # None
  \/ ~u.required

ResolvesText(t, task) == ~Missing(task[t.key]) \/ ~t.required

ResolvesWidget(d, task) ==
  LET v == IF task[d.key] = None THEN d.default ELSE task[d.key]
  IN IF v = None THEN ~d.required ELSE v \notin {Blank, White, Bad}

RunnerTakes(w, task) ==
  /\ \A u \in w.uploads : ResolvesUpload(u, task)
  /\ \A t \in w.texts : ResolvesText(t, task)
  /\ \A d \in w.widgets : ResolvesWidget(d, task)

-----------------------------------------------------------------------------
(* The page: a form is filled and sent.                                    *)

Size(k) == IF form[k] = None THEN 0 ELSE Len(form[k])
Total == FoldSet(LAMBDA k, n : Size(k) + n, 0, DOMAIN form)

Init ==
  /\ chosen \in Workflows
  /\ form = [k \in Keys(chosen) |-> None]
  /\ answer = NoAnswer

\* An input is sent as an empty list,
SendEmpty(k) ==
  /\ answer = NoAnswer
  /\ form[k] = None
  /\ form' = [form EXCEPT ![k] = <<>>]
  /\ UNCHANGED <<chosen, answer>>

\* or with one value more.
Give(k, v) ==
  /\ answer = NoAnswer
  /\ Total < MaxValues
  /\ form' = [form EXCEPT ![k] = IF form[k] = None THEN <<v>> ELSE Append(form[k], v)]
  /\ UNCHANGED <<chosen, answer>>

\* /api/run: one value for each input, or none.
SubmitRun ==
  /\ answer = NoAnswer
  /\ \A k \in DOMAIN form : form[k] # <<>> /\ Size(k) <= 1
  /\ LET data == [k \in DOMAIN form |-> IF form[k] = None THEN None ELSE form[k][1]]
         run  == Run(chosen, data)
     IN answer' = [kind |-> "run", repeat |-> 1, ok |-> run.ok,
                   tasks |-> IF run.ok THEN <<run.inputs>> ELSE <<>>]
  /\ UNCHANGED <<chosen, form>>

SubmitBatch(repeat) ==
  /\ answer = NoAnswer
  /\ LET batch == Batch(chosen, repeat)
     IN answer' = IF batch.ok THEN batch ELSE [batch EXCEPT !.tasks = <<>>]
  /\ UNCHANGED <<chosen, form>>

Next ==
  \/ \E k \in DOMAIN form : SendEmpty(k)
  \/ \E k \in DOMAIN form : \E v \in Raw(Input(chosen, k).type) : Give(k, v)
  \/ SubmitRun
  \/ \E repeat \in 0..(MaxRepeat + 1) : SubmitBatch(repeat)

Spec == Init /\ [][Next]_vars

-----------------------------------------------------------------------------
(* What the two requests promise.                                          *)

\* The values of an input that count: neither blank nor malformed.
Usable(k) ==
  IF form[k] = None THEN <<>> ELSE Without(form[k], {Blank, White, Bad})

\* A batch never has more tasks than the limit, and is never cut down to it:
\* there is a group, repeated as asked, for every value of every list.
WithinLimits ==
  answer.kind = "batch" /\ answer.ok =>
    /\ Len(answer.tasks) \in 1..MaxTasks
    /\ \A k \in DOMAIN form : Len(answer.tasks) >= answer.repeat * Len(Usable(k))

\* Every value the user gave is worked on, and values given once are worked on
\* equally often, but for one round of the cycle (inputs that depend on a switch
\* are used only where it is on).
EveryValueServed ==
  answer.kind = "batch" /\ answer.ok =>
    \A i \in {j \in chosen.inputs : j.when = None} :
      LET uses(v) == Cardinality({n \in DOMAIN answer.tasks : answer.tasks[n][i.key] = v})
          once(v) == Cardinality({n \in DOMAIN form[i.key] : form[i.key][n] = v}) = 1
      IN \A u, v \in Range(Usable(i.key)) :
           uses(u) > 0 /\ (once(u) /\ once(v) => uses(u) <= uses(v) + answer.repeat)

\* A batch makes no task that could not have been made alone: /api/run accepts
\* the inputs of every one of them and resolves them to themselves.
TaskIsARun ==
  answer.ok => \A n \in DOMAIN answer.tasks :
    Run(chosen, answer.tasks[n]) = [ok |-> TRUE, inputs |-> answer.tasks[n]]

\* No accepted task fails for want of an input when its turn comes: the runner
\* finds every file, text and widget value its workflow needs.
RunnerAccepts ==
  answer.ok => \A n \in DOMAIN answer.tasks : RunnerTakes(chosen, answer.tasks[n])
=============================================================================
