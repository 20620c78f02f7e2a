------------------------------ MODULE TaskQueue -------------------------------
(* TaskQueue of src/src/task_queue.py.                                         *)
(*                                                                             *)
(* process_next picks the oldest pending task and runs its handler inside the  *)
(* call.  The handler has the queue at hand: it may enqueue, cancel, clear and *)
(* process other tasks, so runs nest.  A task that fails goes back to pending, *)
(* in its old place, until its retries are used up.                            *)
EXTENDS Naturals, FiniteSets, Sequences

CONSTANTS
  Tasks,        \* the ids that uuid4 will yield
  MaxRetries,   \* Task.max_retries, which enqueue leaves at its default
  MaxDepth      \* bound: handlers running inside one another

ASSUME QueueAssumption == MaxRetries \in Nat \ {0} /\ MaxDepth \in Nat \ {0}

VARIABLES
  queue,     \* the keys of _tasks, in insertion order
  status,    \* task.status, "NEW" before the task exists
  retries,   \* task.retries
  runs,      \* how often the handler of each task was started
  stack      \* the tasks whose handlers are running, outermost first

vars == <<queue, status, retries, runs, stack>>

Ended == {"COMPLETED", "FAILED", "CANCELLED"}

Queued(t) == \E i \in 1..Len(queue) : queue[i] = t

Init ==
  /\ queue = <<>>
  /\ status = [t \in Tasks |-> "NEW"]
  /\ retries = [t \in Tasks |-> 0]
  /\ runs = [t \in Tasks |-> 0]
  /\ stack = <<>>

Enqueue(t) ==
  /\ status[t] = "NEW"
  /\ queue' = Append(queue, t)
  /\ status' = [status EXCEPT ![t] = "PENDING"]
  /\ UNCHANGED <<retries, runs, stack>>

\* Mutant: a task can be cancelled whatever its status.
Known(t) == Queued(t)

Cancellable(t) == Queued(t) /\ status[t] = "PENDING"

Cancel(t) ==
  /\ Cancellable(t)
  /\ status' = [status EXCEPT ![t] = "CANCELLED"]
  /\ UNCHANGED <<queue, retries, runs, stack>>

\* The handlers in progress go on, on tasks the queue no longer knows.
Clear ==
  /\ queue' = <<>>
  /\ UNCHANGED <<status, retries, runs, stack>>

-------------------------------------------------------------------------------
(* process_next                                                                *)

\* Mutant: a task that is running is taken again.
FirstUnfinished(i) ==
  /\ status[queue[i]] \in {"PENDING", "RUNNING"}
  /\ \A j \in 1..i - 1 : status[queue[j]] \notin {"PENDING", "RUNNING"}

\* Mutant: only the oldest task is looked at.
HeadPending(i) == i = 1 /\ status[queue[i]] = "PENDING"

FirstPending(i) ==
  /\ status[queue[i]] = "PENDING"
  /\ \A j \in 1..i - 1 : status[queue[j]] # "PENDING"

Start ==
  /\ Len(stack) < MaxDepth
  /\ \E i \in 1..Len(queue) :
       /\ FirstPending(i)
       /\ status' = [status EXCEPT ![queue[i]] = "RUNNING"]
       /\ runs' = [runs EXCEPT ![queue[i]] = @ + 1]
       /\ stack' = Append(stack, queue[i])
  /\ UNCHANGED <<queue, retries>>

Running == stack[Len(stack)]

Return == stack' = SubSeq(stack, 1, Len(stack) - 1)

HandlerReturns ==
  /\ stack # <<>>
  /\ status' = [status EXCEPT ![Running] = "COMPLETED"]
  /\ Return
  /\ UNCHANGED <<queue, retries, runs>>

RetriesLeft(t) == retries[t] + 1 < MaxRetries

\* Mutant: the last failure is not counted.
CountUnlessLast(t) == IF RetriesLeft(t) THEN retries[t] + 1 ELSE retries[t]

CountRetry(t) == retries[t] + 1

HandlerRaises ==
  /\ stack # <<>>
  /\ retries' = [retries EXCEPT ![Running] = CountRetry(Running)]
  /\ status' = [status EXCEPT ![Running] = IF RetriesLeft(Running) THEN "PENDING" ELSE "FAILED"]
  /\ Return
  /\ UNCHANGED <<queue, runs>>

Finish == HandlerReturns \/ HandlerRaises

Next ==
  \/ \E t \in Tasks : Enqueue(t)
  \/ \E t \in Tasks : Cancel(t)
  \/ Clear
  \/ Start
  \/ HandlerReturns
  \/ HandlerRaises

Spec == Init /\ [][Next]_vars

\* process_all calls process_next as long as it finds a task, and handlers end,
\* one way or the other.
FairSpec == Spec /\ WF_vars(Start) /\ WF_vars(Finish)

-------------------------------------------------------------------------------
TypeOK ==
  /\ queue \in Seq(Tasks)
  /\ status \in [Tasks -> {"NEW", "PENDING", "RUNNING"} \cup Ended]
  /\ retries \in [Tasks -> 0..MaxRetries]
  /\ runs \in [Tasks -> Nat]
  /\ stack \in Seq(Tasks)

\* A task is running exactly while its handler is, and never twice at once: not
\* even when a handler processes the queue it was started from.
RunsOnce ==
  /\ \A i, j \in 1..Len(stack) : stack[i] = stack[j] => i = j
  /\ \A t \in Tasks : status[t] = "RUNNING" <=> \E i \in 1..Len(stack) : stack[i] = t

\* Every run is accounted for: it failed and was counted as a retry, or it is the
\* last one.  So a handler is started max_retries times at most.
RunsMatchRetries ==
  \A t \in Tasks :
    runs[t] = retries[t] + (IF status[t] \in {"RUNNING", "COMPLETED"} THEN 1 ELSE 0)

\* What ended stays as it ended, whichever handlers are still in progress.
EndedIsFinal ==
  [][\A t \in Tasks : status[t] \in Ended => status'[t] = status[t]]_vars

\* Processing the queue until it finds no task ends every task that is not cleared
\* away: failing tasks, which stay at the head of the queue, hold up the others
\* only for a while.
EveryTaskEnds ==
  \A t \in Tasks : status[t] = "PENDING" ~> (status[t] \in Ended \/ ~Queued(t))
===============================================================================
