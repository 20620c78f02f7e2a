---------------------------- MODULE TaskQueueProofs ---------------------------
(* Theorems about TaskQueue, for any tasks, retries and depth of nesting.      *)
EXTENDS TaskQueue, ListProofs, TLAPS

-------------------------------------------------------------------------------
(* The invariant                                                               *)

\* The tasks whose handlers are in progress.
OnStack(t) == \E i \in 1..Len(stack) : stack[i] = t

\* Retries are used up exactly by the tasks that failed for good.
RetriesBounded ==
  \A t \in Tasks : retries[t] < MaxRetries \/ status[t] = "FAILED"

\* New tasks have not run.
IInv == TypeOK /\ RunsOnce /\ RunsMatchRetries /\ RetriesBounded

LEMMA InitInv == Init => IInv
<1> SUFFICES ASSUME Init PROVE IInv
  OBVIOUS
<1>1. 0 \in 0..MaxRetries /\ 0 < MaxRetries
  BY QueueAssumption
<1>2. TypeOK
  BY <1>1 DEF Init, TypeOK
<1>3. RunsOnce /\ RunsMatchRetries /\ RetriesBounded
  BY <1>1 DEF Init, RunsOnce, RunsMatchRetries, RetriesBounded
<1> QED BY <1>2, <1>3 DEF IInv

\* Enqueueing touches a task that has not run.
LEMMA EnqueueInv == ASSUME IInv, NEW t \in Tasks, Enqueue(t) PROVE IInv'
<1> USE DEF IInv
<1>1. TypeOK'
  BY DEF TypeOK, Enqueue
<1>2. RunsOnce'
  BY DEF TypeOK, RunsOnce, Enqueue
<1>3. RunsMatchRetries'
  BY DEF TypeOK, RunsMatchRetries, Enqueue
<1>4. RetriesBounded'
  BY DEF TypeOK, RetriesBounded, Enqueue
<1> QED BY <1>1, <1>2, <1>3, <1>4

\* Cancelling touches a task that is not running.
LEMMA CancelInv == ASSUME IInv, NEW t \in Tasks, Cancel(t) PROVE IInv'
<1> USE DEF IInv
<1>1. TypeOK'
  BY DEF TypeOK, Cancel, Cancellable, Ended
<1>2. RunsOnce'
  BY DEF TypeOK, RunsOnce, Cancel, Cancellable
<1>3. RunsMatchRetries'
  BY DEF TypeOK, RunsMatchRetries, Cancel, Cancellable
<1>4. RetriesBounded'
  BY DEF TypeOK, RetriesBounded, Cancel, Cancellable
<1> QED BY <1>1, <1>2, <1>3, <1>4

\* A handler is started on a pending task, which is on no level of the stack.
LEMMA StartInv == ASSUME IInv, Start PROVE IInv'
<1> USE DEF IInv
<1>1. PICK k \in 1..Len(queue) :
        /\ FirstPending(k)
        /\ status' = [status EXCEPT ![queue[k]] = "RUNNING"]
        /\ runs' = [runs EXCEPT ![queue[k]] = @ + 1]
        /\ stack' = Append(stack, queue[k])
  BY DEF Start
<1> DEFINE t == queue[k]
<1>2. t \in Tasks /\ stack \in Seq(Tasks)
  BY <1>1 DEF TypeOK
<1>3. status[t] = "PENDING" /\ ~OnStack(t)
  BY <1>1, <1>2 DEF FirstPending, RunsOnce, OnStack
<1>4. /\ status' = [status EXCEPT ![t] = "RUNNING"]
      /\ runs' = [runs EXCEPT ![t] = @ + 1]
      /\ stack' = Append(stack, t)
      /\ UNCHANGED <<queue, retries>>
  BY <1>1 DEF Start
<1>5. /\ stack' \in Seq(Tasks)
      /\ Len(stack) \in Nat
      /\ Len(stack') = Len(stack) + 1
      /\ stack'[Len(stack) + 1] = t
      /\ \A i \in 1..Len(stack) : stack'[i] = stack[i]
  BY <1>2, <1>4, StackPush
<1> HIDE DEF t
<1>6. TypeOK'
  <2>1. queue' \in Seq(Tasks) /\ retries' \in [Tasks -> 0..MaxRetries]
    BY <1>4 DEF TypeOK
  <2>2. status' \in [Tasks -> {"NEW", "PENDING", "RUNNING"} \cup Ended]
    BY <1>2, <1>4 DEF TypeOK
  <2>3. runs[t] + 1 \in Nat
    BY <1>2 DEF TypeOK
  <2>4. runs' \in [Tasks -> Nat]
    BY <1>2, <1>4, <2>3 DEF TypeOK
  <2> QED BY <1>5, <2>1, <2>2, <2>4 DEF TypeOK
<1>7. RunsOnce'
  <2>1. \A i \in 1..Len(stack') : i \in 1..Len(stack) \/ i = Len(stack) + 1
    BY <1>5
  <2>2. \A i, j \in 1..Len(stack') : stack'[i] = stack'[j] => i = j
    BY <1>3, <1>5, <2>1 DEF RunsOnce, OnStack
  <2>3. ASSUME NEW u \in Tasks
        PROVE  status'[u] = "RUNNING" <=> \E i \in 1..Len(stack') : stack'[i] = u
    <3>1. Len(stack) + 1 \in 1..Len(stack') /\ 1..Len(stack) \subseteq 1..Len(stack')
      BY <1>5
    <3>2. CASE u = t
      BY <1>2, <1>4, <1>5, <3>1, <3>2 DEF TypeOK
    <3>3. CASE u # t
      <4>1. status'[u] = status[u]
        BY <1>2, <1>4, <3>3 DEF TypeOK
      <4>2. (\E i \in 1..Len(stack') : stack'[i] = u) <=> OnStack(u)
        BY <1>5, <2>1, <3>1, <3>3 DEF OnStack
      <4> QED BY <4>1, <4>2 DEF RunsOnce, OnStack
    <3> QED BY <3>2, <3>3
  <2> QED BY <2>2, <2>3 DEF RunsOnce
<1>8. RunsMatchRetries'
  BY <1>2, <1>3, <1>4 DEF TypeOK, RunsMatchRetries
<1>9. RetriesBounded'
  BY <1>2, <1>3, <1>4 DEF TypeOK, RetriesBounded
<1> QED BY <1>6, <1>7, <1>8, <1>9

\* The task whose handler ends is running, and on the innermost level only.
LEMMA TopRuns ==
  ASSUME IInv, stack # <<>>, Return
  PROVE  /\ Running \in Tasks
         /\ status[Running] = "RUNNING"
         /\ stack' \in Seq(Tasks)
         /\ \A t \in Tasks : t = Running => ~OnStack(t)'
         /\ \A t \in Tasks : t # Running => (OnStack(t) <=> OnStack(t)')
         /\ \A i, j \in 1..Len(stack') : stack'[i] = stack'[j] => i = j
<1>1. stack \in Seq(Tasks) /\ stack' = SubSeq(stack, 1, Len(stack) - 1)
  BY DEF IInv, TypeOK, Return
<1>2. /\ stack' \in Seq(Tasks)
      /\ Len(stack) \in Nat \ {0}
      /\ Running \in Tasks
      /\ Len(stack') = Len(stack) - 1
      /\ \A i \in 1..Len(stack') : stack'[i] = stack[i]
  BY <1>1, StackPop, StackTop DEF Running
<1>3. /\ \A i \in 1..Len(stack) : i \in 1..Len(stack') \/ i = Len(stack)
      /\ 1..Len(stack') \subseteq 1..Len(stack)
      /\ Len(stack) \in 1..Len(stack)
      /\ Len(stack) \notin 1..Len(stack')
  BY <1>2
<1>4. status[Running] = "RUNNING"
  BY <1>2, <1>3 DEF IInv, RunsOnce, Running
<1>5. \A t \in Tasks : t = Running => ~OnStack(t)'
  BY <1>2, <1>3 DEF IInv, RunsOnce, Running, OnStack
<1>6. \A t \in Tasks : t # Running => (OnStack(t) <=> OnStack(t)')
  BY <1>2, <1>3 DEF Running, OnStack
<1>7. \A i, j \in 1..Len(stack') : stack'[i] = stack'[j] => i = j
  BY <1>2, <1>3 DEF IInv, RunsOnce
<1> QED BY <1>2, <1>4, <1>5, <1>6, <1>7

\* The innermost handler ends, with whatever status that is not RUNNING.
LEMMA FinishRunsOnce ==
  ASSUME IInv, stack # <<>>, Return, NEW s, s # "RUNNING",
         status' = [status EXCEPT ![Running] = s]
  PROVE  RunsOnce'
<1>1. /\ Running \in Tasks
      /\ \A t \in Tasks : t = Running => ~OnStack(t)'
      /\ \A t \in Tasks : t # Running => (OnStack(t) <=> OnStack(t)')
      /\ \A i, j \in 1..Len(stack') : stack'[i] = stack'[j] => i = j
  BY TopRuns
<1>2. ASSUME NEW t \in Tasks PROVE status'[t] = "RUNNING" <=> OnStack(t)'
  <2>1. CASE t = Running
    BY <1>1, <2>1 DEF IInv, TypeOK
  <2>2. CASE t # Running
    <3>1. status'[t] = status[t] /\ (OnStack(t) <=> OnStack(t)')
      BY <1>1, <2>2 DEF IInv, TypeOK
    <3> QED BY <3>1 DEF IInv, RunsOnce, OnStack
  <2> QED BY <2>1, <2>2
<1> QED BY <1>1, <1>2 DEF RunsOnce, OnStack

LEMMA ReturnsInv == ASSUME IInv, HandlerReturns PROVE IInv'
<1>1. /\ Running \in Tasks
      /\ status[Running] = "RUNNING"
      /\ stack' \in Seq(Tasks)
  BY TopRuns DEF HandlerReturns
<1>2. /\ status' = [status EXCEPT ![Running] = "COMPLETED"]
      /\ UNCHANGED <<queue, retries, runs>>
  BY DEF HandlerReturns
<1>3. TypeOK'
  BY <1>1, <1>2 DEF IInv, TypeOK, Ended
<1>4. RunsOnce'
  BY <1>2, FinishRunsOnce DEF HandlerReturns
<1>5. RunsMatchRetries'
  BY <1>1, <1>2 DEF IInv, TypeOK, RunsMatchRetries
<1>6. RetriesBounded'
  BY <1>1, <1>2 DEF IInv, TypeOK, RetriesBounded
<1> QED BY <1>3, <1>4, <1>5, <1>6 DEF IInv

LEMMA RaisesInv == ASSUME IInv, HandlerRaises PROVE IInv'
<1> DEFINE r == Running
           s == IF RetriesLeft(r) THEN "PENDING" ELSE "FAILED"
<1>1. /\ r \in Tasks
      /\ status[r] = "RUNNING"
      /\ stack' \in Seq(Tasks)
  BY TopRuns DEF HandlerRaises
<1>2. /\ retries' = [retries EXCEPT ![r] = retries[r] + 1]
      /\ status' = [status EXCEPT ![r] = s]
      /\ UNCHANGED <<queue, runs>>
  BY DEF HandlerRaises, CountRetry
<1>3. retries[r] \in Nat /\ retries[r] < MaxRetries /\ retries[r] + 1 \in 0..MaxRetries
  BY <1>1, QueueAssumption DEF IInv, TypeOK, RetriesBounded
<1>4. /\ s \in {"PENDING", "FAILED"}
      /\ s = "PENDING" => retries[r] + 1 < MaxRetries
  BY DEF RetriesLeft
<1>5. RunsOnce'
  BY <1>2, <1>4, FinishRunsOnce DEF HandlerRaises
<1> HIDE DEF r, s
<1>6. TypeOK'
  BY <1>1, <1>2, <1>3, <1>4 DEF IInv, TypeOK, Ended
<1>7. RunsMatchRetries'
  BY <1>1, <1>2, <1>3, <1>4 DEF IInv, TypeOK, RunsMatchRetries
<1>8. RetriesBounded'
  BY <1>1, <1>2, <1>3, <1>4 DEF IInv, TypeOK, RetriesBounded
<1> QED BY <1>5, <1>6, <1>7, <1>8 DEF IInv

LEMMA NextInv == IInv /\ [Next]_vars => IInv'
<1> SUFFICES ASSUME IInv, [Next]_vars PROVE IInv'
  OBVIOUS
<1>1. ASSUME NEW t \in Tasks, Enqueue(t) PROVE IInv'
  BY <1>1, EnqueueInv
<1>2. ASSUME NEW t \in Tasks, Cancel(t) PROVE IInv'
  BY <1>2, CancelInv
<1>3. CASE Clear
  BY <1>3 DEF Clear, IInv, TypeOK, RunsOnce, RunsMatchRetries, RetriesBounded
<1>4. CASE Start
  BY <1>4, StartInv
<1>5. CASE HandlerReturns
  BY <1>5, ReturnsInv
<1>6. CASE HandlerRaises
  BY <1>6, RaisesInv
<1>7. CASE UNCHANGED vars
  BY <1>7 DEF vars, IInv, TypeOK, RunsOnce, RunsMatchRetries, RetriesBounded
<1> QED BY <1>1, <1>2, <1>3, <1>4, <1>5, <1>6, <1>7 DEF Next

-------------------------------------------------------------------------------
(* The theorems                                                                *)

\* Tasks, counters and the stack of handlers have the values declared for them; in
\* particular no task is retried more than max_retries times.
THEOREM TypeCorrect == Spec => []TypeOK
<1>1. IInv => TypeOK
  BY DEF IInv
<1> QED BY <1>1, InitInv, NextInv, PTL DEF Spec

\* No task runs twice at once, however deep handlers process the queue.
THEOREM TasksRunOnce == Spec => []RunsOnce
<1>1. IInv => RunsOnce
  BY DEF IInv
<1> QED BY <1>1, InitInv, NextInv, PTL DEF Spec

\* Every start of a handler is a counted retry, or the last run of its task.
THEOREM RunsAreRetries == Spec => []RunsMatchRetries
<1>1. IInv => RunsMatchRetries
  BY DEF IInv
<1> QED BY <1>1, InitInv, NextInv, PTL DEF Spec

\* A task that ended keeps the status it ended with.
LEMMA EndedStep ==
  ASSUME IInv, [Next]_vars, NEW t \in Tasks, status[t] \in Ended
  PROVE  status'[t] = status[t]
<1>1. ASSUME NEW u \in Tasks, Enqueue(u) PROVE status'[t] = status[t]
  BY <1>1 DEF Enqueue, Ended, IInv, TypeOK
<1>2. ASSUME NEW u \in Tasks, Cancel(u) PROVE status'[t] = status[t]
  BY <1>2 DEF Cancel, Cancellable, Ended, IInv, TypeOK
<1>3. CASE Clear
  BY <1>3 DEF Clear
<1>4. CASE Start
  BY <1>4 DEF Start, FirstPending, Ended, IInv, TypeOK
<1>5. CASE HandlerReturns
  BY <1>5, TopRuns DEF HandlerReturns, Ended, IInv, TypeOK
<1>6. CASE HandlerRaises
  BY <1>6, TopRuns DEF HandlerRaises, Ended, IInv, TypeOK
<1>7. CASE UNCHANGED vars
  BY <1>7 DEF vars
<1> QED BY <1>1, <1>2, <1>3, <1>4, <1>5, <1>6, <1>7 DEF Next

\* Completed, failed and cancelled are final, whichever handlers go on.
THEOREM EndsAreFinal == Spec => EndedIsFinal
<1>1. IInv /\ [Next]_vars => [\A t \in Tasks : status[t] \in Ended => status'[t] = status[t]]_vars
  BY EndedStep
<1> QED BY <1>1, InitInv, NextInv, PTL DEF Spec, EndedIsFinal
===============================================================================
