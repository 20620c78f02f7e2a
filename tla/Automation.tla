------------------------------ MODULE Automation ------------------------------
(* SchedulerEngine and WorkflowEngine as APIService holds them: two engines in *)
(* one thread.  Handlers and listeners of either may call both, so that a job  *)
(* executes workflows and a step triggers jobs; whatever an engine has in      *)
(* progress is a frame of one call stack.  A call that raises leaves its       *)
(* frame; the user's code around it catches the exception or raises in turn.   *)
EXTENDS Naturals, FiniteSets, Sequences

CONSTANTS Jobs, Runs, NoRecord, Flows, StopOn, Execs, NoExec, MaxDepth

VARIABLES
  jobs, status, totalRuns, failures, records, history, forgotten,
  created, workflows, executions, stored,
  stack

schedulerVars == <<jobs, status, totalRuns, failures, records, history, forgotten>>
workflowVars == <<created, workflows, executions, stored>>
vars == <<schedulerVars, workflowVars, stack>>

Sched == INSTANCE Scheduler
Flow == INSTANCE Workflows

ASSUME AutomationAssumption == Sched!SchedulerAssumption /\ Flow!WorkflowAssumption

Init == Sched!Init /\ Flow!Init

SchedulerStep == Sched!Next /\ UNCHANGED workflowVars

WorkflowStep == Flow!Next /\ UNCHANGED schedulerVars

Next == SchedulerStep \/ WorkflowStep

Spec == Init /\ [][Next]_vars

-------------------------------------------------------------------------------
\* Both engines are well typed, and the stack holds frames of theirs and no others.
TypeOK ==
  /\ Sched!TypeOK
  /\ Flow!TypeOK
  /\ stack \in Seq(Sched!Frame \cup Flow!Frame)

\* Every run is in total_runs, and in there twice only if its handler returned and it
\* is recorded as failed all the same, also when the handler triggers the job again,
\* directly or from the step of a workflow.
RunsAreCounted == Sched!RunsAreCounted

\* total_runs is the number of the job's runs that have ended.
RunsCountedOnce == Sched!RunsCountedOnce

\* Every execution of a job is in progress, once in the history or forgotten.
RunsAreRecorded == Sched!RunsAreRecorded

\* A cancelled job stays cancelled and starts no run.
CancelledIsFinal == Sched!CancelledIsFinal

\* The status of a workflow execution sums up its steps.
StatusTellsResults == Flow!StatusTellsResults

\* Only an execution whose start a listener gave up stays RUNNING for ever.
AbandonedBeforeFirstStep == Flow!AbandonedBeforeFirstStep
===============================================================================
