------------------------------ MODULE Workflows -------------------------------
(* WorkflowEngine of src/src/workflows.py.                                     *)
(*                                                                             *)
(* execute_workflow stores the execution as RUNNING, publishes, runs the       *)
(* handler of one step after the other, and publishes again.  Handlers and     *)
(* listeners are the user's code: they may call the engine and raise.  A       *)
(* handler that raises makes a FAILED step; a listener that raises ends the    *)
(* call where it stands.  An execution in progress is a frame of a call stack  *)
(* shared with the other engines that run user code (see Automation).  No      *)
(* operation disables a workflow, contexts and parameters are left out, and    *)
(* the list of steps, which stays the creator's, is taken not to change.       *)
EXTENDS Naturals, FiniteSets, Sequences

CONSTANTS
  Flows,       \* the workflow ids that uuid4 will yield
  StopOn,      \* StopOn[w][i]: stop_on_failure of step i of workflow w
  Execs,       \* the execution ids that uuid4 will yield
  NoExec,      \* no execute_workflow has made this execution
  MaxDepth     \* bound: calls in progress inside one another

\* results: the status of each entry of step_results.
Execution == [flow : Flows, status : {"RUNNING", "COMPLETED", "FAILED"},
              results : Seq({"COMPLETED", "FAILED"})]

\* What the constants are, assumed by the modules that use this one.
WorkflowAssumption ==
  /\ NoExec \notin Execution
  /\ StopOn \in [Flows -> Seq(BOOLEAN) \ {<<>>}]
  /\ MaxDepth \in Nat

VARIABLES
  created,      \* the workflows that create_workflow has made
  workflows,    \* the keys of _workflows
  executions,   \* the WorkflowExecution objects
  stored,       \* the keys of _executions
  stack         \* the calls in progress, outermost first

flowVars == <<created, workflows>>
execVars == <<executions, stored>>
vars == <<flowVars, execVars, stack>>

\* starting, ending: the listeners of those events run; step: a step's handler does.
Frame == [kind : {"execution"}, exec : Execs, stage : {"starting", "step", "ending"}]

Init ==
  /\ created = {}
  /\ workflows = {}
  /\ executions = [x \in Execs |-> NoExec]
  /\ stored = {}
  /\ stack = <<>>

-------------------------------------------------------------------------------
(* create_workflow, delete_workflow, clear                                     *)

Create(w) ==
  /\ w \notin created
  /\ created' = created \cup {w}
  /\ workflows' = workflows \cup {w}
  /\ UNCHANGED <<execVars, stack>>

Delete(w) ==
  /\ w \in workflows
  /\ workflows' = workflows \ {w}
  /\ UNCHANGED <<created, execVars, stack>>

Clear ==
  /\ workflows' = {}
  /\ stored' = {}
  /\ UNCHANGED <<created, executions, stack>>

-------------------------------------------------------------------------------
(* execute_workflow                                                            *)

Execute(w, x) ==
  /\ Len(stack) < MaxDepth
  /\ w \in workflows
  /\ executions[x] = NoExec
  /\ executions' = [executions EXCEPT ![x] = [flow |-> w, status |-> "RUNNING", results |-> <<>>]]
  /\ stored' = stored \cup {x}
  /\ stack' = Append(stack, [kind |-> "execution", exec |-> x, stage |-> "starting"])
  /\ UNCHANGED flowVars

Top == stack[Len(stack)]

InExecution(stage) == stack # <<>> /\ Top.kind = "execution" /\ Top.stage = stage

Enter(stage) == stack' = [stack EXCEPT ![Len(stack)].stage = stage]

Leave == stack' = SubSeq(stack, 1, Len(stack) - 1)

StartAnnounced ==
  /\ InExecution("starting")
  /\ Enter("step")
  /\ UNCHANGED <<flowVars, execVars>>

\* A listener of workflow_execution_started raised, outside of any try block.
StartRaises ==
  /\ InExecution("starting")
  /\ Leave
  /\ UNCHANGED <<flowVars, execVars>>

Steps(x) == StopOn[executions[x].flow]

Stops(x, outcome) == outcome = "FAILED" /\ Steps(x)[Len(executions[x].results) + 1]

LastStep(x) == Len(executions[x].results) + 1 = Len(Steps(x))

WithResult(x, outcome) ==
  [executions EXCEPT ![x].results = Append(@, outcome)]

\* Mutant: the exception of a handler leaves execute_workflow.
RaisesThrough(outcome) == IF outcome = "FAILED" THEN Leave ELSE UNCHANGED stack

\* The try block around the handler: the loop goes on.
StepCaught(outcome) == UNCHANGED stack

StepGoesOn(outcome) ==
  /\ InExecution("step")
  /\ ~Stops(Top.exec, outcome)
  /\ ~LastStep(Top.exec)
  /\ executions' = WithResult(Top.exec, outcome)
  /\ StepCaught(outcome)
  /\ UNCHANGED <<flowVars, stored>>

\* Mutant: what failed last decides, not what stopped the execution.
LastOutcome(x, outcome) == outcome

FinalStatus(x, outcome) == IF Stops(x, outcome) THEN "FAILED" ELSE "COMPLETED"

\* The execution is put back into _executions, should it have been cleared away.
StepEnds(outcome) ==
  LET x == Top.exec IN
  /\ InExecution("step")
  /\ Stops(x, outcome) \/ LastStep(x)
  /\ executions' = [WithResult(x, outcome) EXCEPT ![x].status = FinalStatus(x, outcome)]
  /\ stored' = stored \cup {x}
  /\ Enter("ending")
  /\ UNCHANGED flowVars

\* With an answer, or with the exception of a listener.
ExecuteLeaves ==
  /\ InExecution("ending")
  /\ Leave
  /\ UNCHANGED <<flowVars, execVars>>

-------------------------------------------------------------------------------
Call ==
  \/ \E w \in Flows : Create(w)
  \/ \E w \in Flows : Delete(w)
  \/ \E w \in Flows, x \in Execs : Execute(w, x)
  \/ Clear

Proceed ==
  \/ StartAnnounced
  \/ StartRaises
  \/ \E outcome \in {"COMPLETED", "FAILED"} : StepGoesOn(outcome)
  \/ \E outcome \in {"COMPLETED", "FAILED"} : StepEnds(outcome)
  \/ ExecuteLeaves

Next == Call \/ Proceed

Spec == Init /\ [][Next]_vars

-------------------------------------------------------------------------------
TypeOK ==
  /\ workflows \subseteq created
  /\ created \subseteq Flows
  /\ executions \in [Execs -> Execution \cup {NoExec}]
  /\ stored \subseteq Execs

Made(x) == executions[x] # NoExec

\* The step that stops an execution when it fails.
StoppedAt(x, i) == executions[x].results[i] = "FAILED" /\ Steps(x)[i]

\* The status sums up the steps: FAILED exactly when the last of the results is a
\* failure that stops, COMPLETED when every step has a result and no failure was one
\* that stops; handlers and listeners may execute, delete and clear in between.
StatusTellsResults ==
  \A x \in Execs :
    Made(x) =>
      LET n == Len(executions[x].results) IN
      /\ \A i \in 1..n - 1 : ~StoppedAt(x, i)
      /\ CASE executions[x].status = "FAILED"    -> n > 0 /\ StoppedAt(x, n)
           [] executions[x].status = "COMPLETED" -> n = Len(Steps(x)) /\ ~StoppedAt(x, n)
           [] executions[x].status = "RUNNING"   -> n < Len(Steps(x)) /\ (n > 0 => ~StoppedAt(x, n))

InProgress(x) == \E i \in 1..Len(stack) : stack[i].kind = "execution" /\ stack[i].exec = x

\* An execution that stays RUNNING although nobody runs it never ran a step: it was
\* given up by a listener of its start.  One that is in progress is RUNNING until its
\* last step has ended, whatever was cleared meanwhile.
AbandonedBeforeFirstStep ==
  \A x \in Execs :
    Made(x) /\ executions[x].status = "RUNNING" =>
      InProgress(x) \/ executions[x].results = <<>>
===============================================================================
