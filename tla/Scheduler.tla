------------------------------ MODULE Scheduler -------------------------------
(* SchedulerEngine of src/src/scheduler.py.                                    *)
(*                                                                             *)
(* trigger_now runs the job's handler, and the listeners of job_executed,      *)
(* inside one try block, and the listeners of job_failed in its except clause. *)
(* All of them are the user's code: they may call the engine, also for the job *)
(* that is running, and may raise.  A trigger in progress is a frame of a call *)
(* stack, which the engine shares with the other engines that run user code    *)
(* (see Automation).  The other calls change state in one piece and publish    *)
(* last.  Times, payloads and the interval, which nothing here decides on, are *)
(* left out.                                                                   *)
EXTENDS Naturals, FiniteSets, Sequences

CONSTANTS
  Jobs,        \* the job ids that uuid4 will yield
  Runs,        \* the execution ids that uuid4 will yield
  NoRecord,    \* no trigger_now has made this execution
  MaxDepth     \* bound: calls in progress inside one another

\* output: the handler returned, and record.output was assigned.
Record == [job : Jobs, status : {"RUNNING", "COMPLETED", "FAILED"}, output : BOOLEAN]

\* What the constants are, assumed by the modules that use this one.
SchedulerAssumption ==
  /\ IsFiniteSet(Runs)
  /\ NoRecord \notin Record
  /\ MaxDepth \in Nat

VARIABLES
  jobs,         \* the keys of _jobs
  status,       \* job.status, "NEW" before schedule_job made the job
  totalRuns,    \* job.total_runs
  failures,     \* job.consecutive_failures
  records,      \* the JobExecutionRecord of each execution
  history,      \* _history
  forgotten,    \* executions whose record clear() or a raising listener lost
  stack         \* the calls in progress, outermost first

jobVars == <<jobs, status, totalRuns, failures>>
recordVars == <<records, history, forgotten>>
vars == <<jobVars, recordVars, stack>>

\* handling: the handler runs; executed, failed: the listeners of that event do.
Frame == [kind : {"trigger"}, run : Runs, stage : {"handling", "executed", "failed"}]

Init ==
  /\ jobs = {}
  /\ status = [j \in Jobs |-> "NEW"]
  /\ totalRuns = [j \in Jobs |-> 0]
  /\ failures = [j \in Jobs |-> 0]
  /\ records = [x \in Runs |-> NoRecord]
  /\ history = <<>>
  /\ forgotten = {}
  /\ stack = <<>>

-------------------------------------------------------------------------------
(* schedule_job, pause_job, resume_job, cancel_job                             *)

SetStatus(j, s) ==
  /\ status' = [status EXCEPT ![j] = s]
  /\ UNCHANGED <<totalRuns, failures, recordVars, stack>>

Schedule(j) ==
  /\ status[j] = "NEW"
  /\ jobs' = jobs \cup {j}
  /\ SetStatus(j, "SCHEDULED")

\* Mutant: a cancelled job can be paused, and so resumed.
NotPaused(j) == status[j] # "PAUSED"

Pausable(j) == status[j] \notin {"PAUSED", "CANCELLED"}

Pause(j) ==
  /\ j \in jobs
  /\ Pausable(j)
  /\ SetStatus(j, "PAUSED")
  /\ UNCHANGED jobs

Resume(j) ==
  /\ j \in jobs
  /\ status[j] = "PAUSED"
  /\ SetStatus(j, "SCHEDULED")
  /\ UNCHANGED jobs

Cancel(j) ==
  /\ j \in jobs
  /\ status[j] # "CANCELLED"
  /\ SetStatus(j, "CANCELLED")
  /\ UNCHANGED jobs

-------------------------------------------------------------------------------
(* trigger_now                                                                 *)

\* A paused job can be triggered.
Trigger(j, x) ==
  /\ Len(stack) < MaxDepth
  /\ j \in jobs
  /\ status[j] # "CANCELLED"
  /\ records[x] = NoRecord
  /\ records' = [records EXCEPT ![x] = [job |-> j, status |-> "RUNNING", output |-> FALSE]]
  /\ stack' = Append(stack, [kind |-> "trigger", run |-> x, stage |-> "handling"])
  /\ UNCHANGED <<jobVars, history, forgotten>>

Top == stack[Len(stack)]

InTrigger(stage) == stack # <<>> /\ Top.kind = "trigger" /\ Top.stage = stage

Enter(stage) == stack' = [stack EXCEPT ![Len(stack)].stage = stage]

Leave == stack' = SubSeq(stack, 1, Len(stack) - 1)

\* The job that the innermost call triggered, which the engine may no longer know.
Job == records[Top.run].job

HandlerReturns ==
  /\ InTrigger("handling")
  /\ records' = [records EXCEPT ![Top.run].status = "COMPLETED", ![Top.run].output = TRUE]
  /\ totalRuns' = [totalRuns EXCEPT ![Job] = @ + 1]
  /\ failures' = [failures EXCEPT ![Job] = 0]
  /\ Enter("executed")
  /\ UNCHANGED <<jobs, status, history, forgotten>>

\* Mutant: total_runs counts the runs that succeed.
Uncounted(j) == totalRuns[j]

CountedAgain(j) == totalRuns[j] + 1

\* The handler raised, or a listener of job_executed did: the except clause is the
\* same, and in the second case counts the run once more.
RunRaises ==
  /\ InTrigger("handling") \/ InTrigger("executed")
  /\ records' = [records EXCEPT ![Top.run].status = "FAILED"]
  /\ totalRuns' = [totalRuns EXCEPT ![Job] = CountedAgain(Job)]
  /\ failures' = [failures EXCEPT ![Job] = @ + 1]
  /\ Enter("failed")
  /\ UNCHANGED <<jobs, status, history, forgotten>>

\* Mutant: no record of jobs that clear() has dropped meanwhile.
WithKnownRecord(x) == IF Job \in jobs THEN Append(history, x) ELSE history

WithRecord(x) == Append(history, x)

\* The listeners returned.
TriggerReturns ==
  /\ InTrigger("executed") \/ InTrigger("failed")
  /\ history' = WithRecord(Top.run)
  /\ Leave
  /\ UNCHANGED <<jobVars, records, forgotten>>

\* A listener of job_failed raised: trigger_now raises, and appends no record.
TriggerRaises ==
  /\ InTrigger("failed")
  /\ forgotten' = forgotten \cup {Top.run}
  /\ Leave
  /\ UNCHANGED <<jobVars, records, history>>

InHistory == {history[i] : i \in 1..Len(history)}

\* Triggers in progress go on, on jobs that the engine no longer knows.
Clear ==
  /\ jobs' = {}
  /\ history' = <<>>
  /\ forgotten' = forgotten \cup InHistory
  /\ UNCHANGED <<status, totalRuns, failures, records, stack>>

-------------------------------------------------------------------------------
Call ==
  \/ \E j \in Jobs : Schedule(j)
  \/ \E j \in Jobs : Pause(j)
  \/ \E j \in Jobs : Resume(j)
  \/ \E j \in Jobs : Cancel(j)
  \/ \E j \in Jobs, x \in Runs : Trigger(j, x)
  \/ Clear

Proceed ==
  \/ HandlerReturns
  \/ RunRaises
  \/ TriggerReturns
  \/ TriggerRaises

Next == Call \/ Proceed

Spec == Init /\ [][Next]_vars

-------------------------------------------------------------------------------
TypeOK ==
  /\ jobs \subseteq Jobs
  /\ status \in [Jobs -> {"NEW", "SCHEDULED", "PAUSED", "CANCELLED"}]
  /\ totalRuns \in [Jobs -> Nat]
  /\ failures \in [Jobs -> Nat]
  /\ records \in [Runs -> Record \cup {NoRecord}]
  /\ history \in Seq(Runs)
  /\ forgotten \subseteq Runs

Of(j) == {x \in Runs : records[x] # NoRecord /\ records[x].job = j}
Returned(j) == {x \in Of(j) : records[x].output}
Failed(j) == {x \in Of(j) : records[x].status = "FAILED"}

Ended(j) == {x \in Of(j) : records[x].status # "RUNNING"}

\* No run that has ended is missing from total_runs, and none is counted more than
\* once but those whose handler returned and that are recorded as failed all the
\* same.  No more failures are consecutive than there were, and as long as no handler
\* of the job returned, all its runs are.  Runs nest, so that the counters move
\* between the two halves of other runs of the same job.
RunsAreCounted ==
  \A j \in Jobs :
    /\ Cardinality(Ended(j)) <= totalRuns[j]
    /\ totalRuns[j] <= Cardinality(Ended(j)) + Cardinality(Returned(j) \cap Failed(j))
    /\ failures[j] <= Cardinality(Failed(j))
    /\ Returned(j) = {} => failures[j] = totalRuns[j]

\* What total_runs is read as: the job's runs that have ended, each counted once.  A
\* listener of job_executed that raises makes the except clause count its run again.
RunsCountedOnce == \A j \in Jobs : totalRuns[j] = Cardinality(Ended(j))

InProgress(x) == \E i \in 1..Len(stack) : stack[i].kind = "trigger" /\ stack[i].run = x

\* Every execution is in exactly one place: in progress, once in the history, or
\* forgotten; what is in the history has ended.
RunsAreRecorded ==
  /\ \A x \in Runs :
       CASE InProgress(x) -> x \notin InHistory \cup forgotten
         [] ~InProgress(x) /\ records[x] # NoRecord -> x \in InHistory <=> x \notin forgotten
         [] OTHER -> x \notin InHistory \cup forgotten
  /\ \A x \in InHistory : records[x].status # "RUNNING"
  /\ \A i, k \in 1..Len(history) : history[i] = history[k] => i = k

\* A cancelled job stays cancelled, and starts no run, whatever pauses and resumes
\* its own handlers and listeners ask for.
CancelledIsFinal ==
  [][\A j \in Jobs :
       status[j] = "CANCELLED" => status'[j] = "CANCELLED" /\ Of(j)' = Of(j)]_vars
===============================================================================
