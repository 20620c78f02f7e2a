--------------------------- MODULE AutomationProofs ---------------------------
(* Theorems about SchedulerEngine and WorkflowEngine, for any jobs, workflows, *)
(* executions and depth of nesting.  Each engine has an invariant of its own,  *)
(* which the calls of the other keep: they come and go on the same stack.      *)
EXTENDS Automation, ListProofs, FiniteSetTheorems, TLAPS

\* Sched takes the operators of FiniteSets from its own instance.
LEMMA SameSets ==
  /\ \A X : Sched!Cardinality(X) = Cardinality(X)
  /\ \A X : Sched!IsFiniteSet(X) <=> IsFiniteSet(X)
BY DEF Sched!Cardinality, Cardinality, Sched!IsFiniteSet, IsFiniteSet

LEMMA FlowsAreNoTriggers == \A f \in Flow!Frame : f.kind # "trigger"
BY DEF Flow!Frame

LEMMA TriggersAreNoFlows == \A f \in Sched!Frame : f.kind # "execution"
BY DEF Sched!Frame

-------------------------------------------------------------------------------
(* SchedulerEngine: the invariant                                              *)

\* The record of a trigger in progress is as its stage says.
RecordAtStage(f) ==
  /\ records[f.run] # NoRecord
  /\ f.stage = "handling" => records[f.run].status = "RUNNING" /\ ~records[f.run].output
  /\ f.stage = "executed" => records[f.run].status = "COMPLETED" /\ records[f.run].output
  /\ f.stage = "failed" => records[f.run].status = "FAILED"

\* The levels of the stack that are triggers.
IsTrigger(i) == stack[i].kind = "trigger"

\* Triggers in progress are of different executions.
TriggersSound ==
  /\ stack \in Seq(Sched!Frame \cup Flow!Frame)
  /\ \A i, k \in 1..Len(stack) :
       IsTrigger(i) /\ IsTrigger(k) /\ stack[i].run = stack[k].run => i = k
  /\ \A i \in 1..Len(stack) : IsTrigger(i) => stack[i] \in Sched!Frame /\ RecordAtStage(stack[i])

\* What is in the history or forgotten was made.
RecordsMade == \A x \in Sched!InHistory \cup forgotten : records[x] # NoRecord

JobsInv == Sched!TypeOK /\ TriggersSound /\ RecordsMade /\ Sched!RunsAreRecorded

\* RunsAreRecorded without its cases.
LEMMA Recorded ==
  Sched!RunsAreRecorded <=>
    /\ \A x \in Runs :
         /\ Sched!InProgress(x) => x \notin Sched!InHistory \cup forgotten
         /\ ~Sched!InProgress(x) /\ records[x] # NoRecord => (x \in Sched!InHistory <=> x \notin forgotten)
         /\ ~Sched!InProgress(x) /\ records[x] = NoRecord => x \notin Sched!InHistory \cup forgotten
    /\ \A x \in Sched!InHistory : records[x].status # "RUNNING"
    /\ \A i, k \in 1..Len(history) : history[i] = history[k] => i = k
BY DEF Sched!RunsAreRecorded

LEMMA JobsInit == Sched!Init => JobsInv
<1> SUFFICES ASSUME Sched!Init PROVE JobsInv
  OBVIOUS
<1>1. Sched!TypeOK
  BY DEF Sched!Init, Sched!TypeOK
<1>2. TriggersSound
  BY DEF Sched!Init, TriggersSound
<1>3. Sched!InHistory = {} /\ forgotten = {} /\ Len(history) = 0
  BY DEF Sched!Init, Sched!InHistory
<1>4. RecordsMade
  BY <1>3 DEF RecordsMade
<1>5. \A x \in Runs : ~Sched!InProgress(x)
  BY DEF Sched!Init, Sched!InProgress
<1>6. Sched!RunsAreRecorded
  <2>1. \A x \in Runs : records[x] = NoRecord
    BY DEF Sched!Init
  <2> QED BY <1>3, <1>5, <2>1, Recorded
<1> QED BY <1>1, <1>2, <1>4, <1>6 DEF JobsInv

\* Calls that do not trigger, and steps that do nothing, leave records and stack
\* alone, and history and forgotten too.
LEMMA RecordFrameInv ==
  ASSUME JobsInv, Sched!TypeOK', UNCHANGED <<Sched!recordVars, stack>>
  PROVE  JobsInv'
BY
   DEF JobsInv, Sched!recordVars, TriggersSound, IsTrigger, RecordAtStage, RecordsMade,
       Sched!RunsAreRecorded,
       Sched!InHistory, Sched!InProgress

LEMMA TriggerInv ==
  ASSUME Sched!SchedulerAssumption, JobsInv, NEW j \in Jobs, NEW x \in Runs,
         Sched!Trigger(j, x)
  PROVE  JobsInv'
<1> DEFINE r == [job |-> j, status |-> "RUNNING", output |-> FALSE]
           f == [kind |-> "trigger", run |-> x, stage |-> "handling"]
<1>1. /\ records[x] = NoRecord
      /\ records' = [records EXCEPT ![x] = r]
      /\ stack' = Append(stack, f)
      /\ UNCHANGED <<Sched!jobVars, history, forgotten>>
  BY DEF Sched!Trigger
<1>2. r \in Sched!Record /\ r # NoRecord
  <2>1. r \in Sched!Record
    BY DEF Sched!Record
  <2> HIDE DEF r
  <2> QED BY <2>1 DEF Sched!SchedulerAssumption
<1>3. f \in Sched!Frame /\ f \in Sched!Frame \cup Flow!Frame
  BY DEF Sched!Frame
<1>4. /\ stack' \in Seq(Sched!Frame \cup Flow!Frame)
      /\ Len(stack) \in Nat
      /\ Len(stack') = Len(stack) + 1
      /\ stack'[Len(stack) + 1] = f
      /\ \A i \in 1..Len(stack) : stack'[i] = stack[i]
  BY <1>1, <1>3, StackPush DEF JobsInv, TriggersSound
<1>5. \A i \in 1..Len(stack') : i \in 1..Len(stack) \/ i = Len(stack) + 1
  BY <1>4
<1>6. Sched!TypeOK'
  BY <1>1, <1>2 DEF JobsInv, Sched!TypeOK, Sched!jobVars
<1>7. \A y \in Runs : records'[y] = IF y = x THEN r ELSE records[y]
  BY <1>1 DEF JobsInv, Sched!TypeOK
<1>8. \A i \in 1..Len(stack) : IsTrigger(i) => stack[i].run \in Runs /\ stack[i].run # x
  <2>1. ASSUME NEW i \in 1..Len(stack),
               IsTrigger(i) PROVE stack[i].run \in Runs /\ stack[i].run # x
    <3>1. stack[i] \in Sched!Frame /\ RecordAtStage(stack[i])
      BY <2>1 DEF JobsInv, TriggersSound
    <3> QED BY <1>1, <3>1 DEF RecordAtStage, Sched!Frame
  <2> QED BY <2>1
<1>9. TriggersSound'
  <2>1. \A i \in 1..Len(stack) : IsTrigger(i)' <=> IsTrigger(i)
    BY <1>4 DEF IsTrigger
  <2>2. ASSUME NEW i \in 1..Len(stack'), NEW k \in 1..Len(stack'),
               IsTrigger(i)', IsTrigger(k)', stack'[i].run = stack'[k].run
        PROVE  i = k
    BY <1>4, <1>5, <1>8, <2>1, <2>2 DEF JobsInv, TriggersSound
  <2>3. ASSUME NEW i \in 1..Len(stack'), IsTrigger(i)'
        PROVE  stack'[i] \in Sched!Frame /\ RecordAtStage(stack[i])'
    <3>1. CASE i \in 1..Len(stack)
      BY <1>4, <1>7, <1>8, <2>1, <2>3, <3>1 DEF JobsInv, TriggersSound, RecordAtStage
    <3>2. CASE i = Len(stack) + 1
      BY <1>2, <1>3, <1>4, <1>7, <3>2 DEF RecordAtStage
    <3> QED BY <1>5, <3>1, <3>2
  <2> QED BY <1>4, <2>2, <2>3 DEF TriggersSound
<1>10. Sched!InHistory' = Sched!InHistory /\ forgotten' = forgotten
  BY <1>1 DEF Sched!InHistory
<1>11. Sched!InHistory \cup forgotten \subseteq Runs /\ x \notin Sched!InHistory \cup forgotten
  BY <1>1 DEF JobsInv, Sched!TypeOK, RecordsMade, Sched!InHistory
<1> HIDE DEF r, f
<1>12. RecordsMade'
  BY <1>2, <1>7, <1>10, <1>11 DEF JobsInv, RecordsMade
<1>13. \A y \in Runs : Sched!InProgress(y)' <=> Sched!InProgress(y) \/ y = x
  <2>1. 1..Len(stack) \subseteq 1..Len(stack') /\ Len(stack) + 1 \in 1..Len(stack')
    BY <1>4
  <2>2. f.kind = "trigger" /\ f.run = x
    BY DEF f
  <2> QED BY <1>4, <1>5, <2>1, <2>2 DEF Sched!InProgress
<1>14. Sched!RunsAreRecorded'
  <2>1. \A y \in Sched!InHistory : records'[y].status # "RUNNING"
    BY <1>7, <1>11, Recorded DEF JobsInv
  <2>2. \A y \in Runs : y # x => (Sched!InProgress(y)' <=> Sched!InProgress(y)) /\ records'[y] = records[y]
    BY <1>7, <1>13
  <2>3. Sched!InProgress(x)'
    BY <1>13
  <2> QED BY <1>1, <1>10, <1>11, <2>1, <2>2, <2>3, Recorded
             DEF JobsInv, Sched!RunsAreRecorded
<1> QED BY <1>6, <1>9, <1>12, <1>14 DEF JobsInv

-------------------------------------------------------------------------------
(* The steps of a trigger in progress                                          *)

\* The record of the innermost trigger is of one of the jobs.
LEMMA TopRecord ==
  ASSUME JobsInv, stack # <<>>, Sched!Top.kind = "trigger"
  PROVE  /\ Sched!Top.run \in Runs
         /\ records[Sched!Top.run] \in Sched!Record
         /\ records[Sched!Top.run] # NoRecord
         /\ RecordAtStage(Sched!Top)
         /\ Sched!Job \in Jobs
<1>1. Len(stack) \in 1..Len(stack)
  BY StackTop DEF JobsInv, TriggersSound
<1>2. Sched!Top \in Sched!Frame /\ RecordAtStage(Sched!Top)
  BY <1>1 DEF JobsInv, TriggersSound, IsTrigger, Sched!Top
<1>3. Sched!Top.run \in Runs /\ records[Sched!Top.run] # NoRecord
  BY <1>2 DEF Sched!Frame, RecordAtStage
<1>4. records[Sched!Top.run] \in Sched!Record
  BY <1>3 DEF JobsInv, Sched!TypeOK
<1> QED BY <1>2, <1>3, <1>4 DEF Sched!Job, Sched!Record

\* A step that replaces the innermost trigger by its next stage, and its record by
\* one that is as that stage says.
LEMMA TriggerStageInv ==
  ASSUME JobsInv, stack # <<>>, Sched!Top.kind = "trigger", NEW stage \in {"executed",
         "failed"}, NEW r \in Sched!Record,
         r # NoRecord,
         stage = "executed" => r.status = "COMPLETED" /\ r.output,
         stage = "failed" => r.status = "FAILED",
         records' = [records EXCEPT ![Sched!Top.run] = r], Sched!Enter(stage), Sched!TypeOK',
         UNCHANGED <<history, forgotten>>
  PROVE  JobsInv'
<1> DEFINE n == Len(stack)
           f == [Sched!Top EXCEPT !.stage = stage]
<1>1. /\ stack \in Seq(Sched!Frame \cup Flow!Frame)
      /\ n \in Nat /\ n >= 1 /\ n \in 1..n
      /\ IsTrigger(n)
      /\ Sched!Top \in Sched!Frame
  <2>1. /\ stack \in Seq(Sched!Frame \cup Flow!Frame)
        /\ n \in Nat /\ n >= 1 /\ n \in 1..n
    BY StackTop DEF JobsInv, TriggersSound
  <2>2. IsTrigger(n)
    BY DEF Sched!Top, IsTrigger
  <2> QED BY <2>1, <2>2 DEF JobsInv, TriggersSound, Sched!Top
<1>2. /\ f \in Sched!Frame /\ f \in Sched!Frame \cup Flow!Frame
      /\ f.run = Sched!Top.run /\ f.stage = stage /\ f.kind = "trigger"
  BY <1>1 DEF Sched!Frame
<1>3. stack' = [stack EXCEPT ![n] = f]
  BY <1>1 DEF Sched!Enter, Sched!Top
<1>4. /\ stack' \in Seq(Sched!Frame \cup Flow!Frame)
      /\ Len(stack') = n
      /\ stack'[n] = f
      /\ \A i \in 1..n - 1 : stack'[i] = stack[i]
  BY <1>1, <1>2, <1>3, StackReplace
<1>5. \A i \in 1..n : i \in 1..n - 1 \/ i = n
  BY <1>1
<1>6. \A i \in 1..n : /\ IsTrigger(i)' <=> IsTrigger(i)
                      /\ IsTrigger(i) => stack'[i].run = stack[i].run
  BY <1>1, <1>2, <1>4, <1>5 DEF Sched!Top, IsTrigger
<1>7. \A y \in Runs : records'[y] = IF y = Sched!Top.run THEN r ELSE records[y]
  BY <1>1 DEF JobsInv, Sched!TypeOK
<1>8. /\ Sched!Top.run \in Runs
      /\ \A i \in 1..n - 1 : IsTrigger(i) => stack[i].run \in Runs /\ stack[i].run # Sched!Top.run
  BY <1>1 DEF JobsInv, TriggersSound, Sched!Top, Sched!Frame
<1>9. TriggersSound'
  <2>1. ASSUME NEW i \in 1..Len(stack'), NEW k \in 1..Len(stack'),
               IsTrigger(i)', IsTrigger(k)', stack'[i].run = stack'[k].run
        PROVE  i = k
    BY <1>4, <1>6, <2>1 DEF JobsInv, TriggersSound
  <2>2. ASSUME NEW i \in 1..Len(stack'), IsTrigger(i)'
        PROVE  stack'[i] \in Sched!Frame /\ RecordAtStage(stack[i])'
    <3>1. CASE i \in 1..n - 1
      <4>1. i \in 1..n /\ stack'[i] = stack[i] /\ IsTrigger(i)
        BY <1>1, <1>4, <1>6, <2>2, <3>1
      <4>2. records'[stack[i].run] = records[stack[i].run]
        BY <1>7, <1>8, <3>1, <4>1
      <4> QED BY <4>1, <4>2 DEF JobsInv, TriggersSound, RecordAtStage
    <3>2. CASE i = n
      <4>1. stack'[i] = f /\ records'[f.run] = r
        BY <1>2, <1>4, <1>7, <1>8, <3>2
      <4> QED BY <1>2, <4>1 DEF RecordAtStage
    <3> QED BY <1>4, <1>5, <3>1, <3>2
  <2> QED BY <1>4, <2>1, <2>2 DEF TriggersSound
<1>10. Sched!InHistory' = Sched!InHistory /\ forgotten' = forgotten /\ history' = history
  BY DEF Sched!InHistory
<1>11. Sched!InHistory \cup forgotten \subseteq Runs
  BY DEF JobsInv, Sched!TypeOK, Sched!InHistory
<1>12. RecordsMade'
  BY <1>7, <1>10, <1>11 DEF JobsInv, RecordsMade
<1>13. \A y \in Runs : Sched!InProgress(y)' <=> Sched!InProgress(y)
  BY <1>4, <1>6 DEF Sched!InProgress, IsTrigger
<1>14. \A y \in Runs : records'[y] # NoRecord <=> records[y] # NoRecord
  <2>1. records[Sched!Top.run] # NoRecord
    BY <1>1 DEF JobsInv, TriggersSound, RecordAtStage, Sched!Top
  <2> QED BY <1>7, <2>1
<1>15. \A y \in Sched!InHistory : records'[y].status # "RUNNING"
  <2>1. r.status # "RUNNING"
    OBVIOUS
  <2> QED BY <1>7, <1>11, <2>1, Recorded DEF JobsInv
<1>16. Sched!RunsAreRecorded'
  <2> HIDE DEF n, f
  <2>1. \A x \in Runs :
         /\ Sched!InProgress(x)' => x \notin Sched!InHistory \cup forgotten
         /\ ~Sched!InProgress(x)' /\ records'[x] # NoRecord => (x \in Sched!InHistory <=> x \notin forgotten)
         /\ ~Sched!InProgress(x)' /\ records'[x] = NoRecord => x \notin Sched!InHistory \cup forgotten
    BY <1>13, <1>14, Recorded DEF JobsInv
  <2> QED BY <1>10, <1>15, <2>1, Recorded DEF JobsInv, Sched!RunsAreRecorded
<1> QED BY <1>9, <1>12, <1>16 DEF JobsInv

\* A trigger ends: its execution is put into the history or forgotten, and no other
\* moves.
LEMMA LeaveTriggerFacts ==
  ASSUME JobsInv, stack # <<>>, Sched!Top.kind = "trigger", Sched!Leave, UNCHANGED records
  PROVE  /\ TriggersSound'
         /\ Sched!Top.run \in Runs
         /\ records[Sched!Top.run] # NoRecord
         /\ Sched!Top.run \notin Sched!InHistory \cup forgotten
         /\ Sched!Top.stage \in {"executed", "failed"} => records[Sched!Top.run].status # "RUNNING"
         /\ \A y \in Runs : Sched!InProgress(y)' <=> Sched!InProgress(y) /\ y # Sched!Top.run
<1> DEFINE n == Len(stack)
<1>1. /\ stack \in Seq(Sched!Frame \cup Flow!Frame)
      /\ n \in Nat /\ n >= 1 /\ n \in 1..n
      /\ IsTrigger(n)
      /\ Sched!Top \in Sched!Frame
  <2>1. /\ stack \in Seq(Sched!Frame \cup Flow!Frame)
        /\ n \in Nat /\ n >= 1 /\ n \in 1..n
    BY StackTop DEF JobsInv, TriggersSound
  <2>2. IsTrigger(n)
    BY DEF Sched!Top, IsTrigger
  <2> QED BY <2>1, <2>2 DEF JobsInv, TriggersSound, Sched!Top
<1>2. /\ stack' \in Seq(Sched!Frame \cup Flow!Frame)
      /\ Len(stack') = n - 1
      /\ \A i \in 1..Len(stack') : stack'[i] = stack[i]
  BY <1>1, StackPop DEF Sched!Leave
<1>3. /\ 1..Len(stack') \subseteq 1..n
      /\ n \notin 1..Len(stack')
      /\ \A i \in 1..n : i \in 1..Len(stack') \/ i = n
  BY <1>1, <1>2
<1>4. TriggersSound'
  BY <1>2, <1>3 DEF JobsInv, TriggersSound, IsTrigger, RecordAtStage
<1>5. /\ Sched!Top.run \in Runs
      /\ Sched!Top.kind = "trigger"
      /\ Sched!InProgress(Sched!Top.run)
  BY <1>1 DEF Sched!Frame, Sched!InProgress, IsTrigger, Sched!Top
<1>6. RecordAtStage(Sched!Top)
  BY <1>1 DEF JobsInv, TriggersSound, Sched!Top
<1>7. \A i \in 1..Len(stack') : /\ IsTrigger(i) => stack[i].run # Sched!Top.run
                               /\ stack'[i] = stack[i]
  BY <1>1, <1>2, <1>3 DEF JobsInv, TriggersSound, Sched!Top
<1>8. \A y \in Runs : Sched!InProgress(y)' <=> Sched!InProgress(y) /\ y # Sched!Top.run
  <2>1. ASSUME NEW y \in Runs,
               Sched!InProgress(y)' PROVE Sched!InProgress(y) /\ y # Sched!Top.run
    BY <1>2, <1>3, <1>7, <2>1 DEF Sched!InProgress, IsTrigger
  <2>2. ASSUME NEW y \in Runs, Sched!InProgress(y),
               y # Sched!Top.run PROVE Sched!InProgress(y)'
    BY <1>3, <1>7, <2>2 DEF Sched!InProgress, Sched!Top
  <2> QED BY <2>1, <2>2
<1>9. Sched!Top.run \notin Sched!InHistory \cup forgotten
  BY <1>5, Recorded DEF JobsInv
<1> QED BY <1>4, <1>5, <1>6, <1>8, <1>9 DEF RecordAtStage

LEMMA HandlerReturnsInv ==
  ASSUME Sched!SchedulerAssumption, JobsInv, Sched!HandlerReturns PROVE JobsInv'
<1> DEFINE r == [records[Sched!Top.run] EXCEPT !.status = "COMPLETED", !.output = TRUE]
<1>1. /\ stack # <<>> /\ Sched!Top.kind = "trigger"
      /\ Sched!Top.run \in Runs /\ records[Sched!Top.run] \in Sched!Record /\ Sched!Job \in Jobs
  BY TopRecord DEF Sched!HandlerReturns, Sched!InTrigger
<1>2. r \in Sched!Record /\ r.status = "COMPLETED" /\ r.output
  BY <1>1 DEF Sched!Record
<1>3. records' = [records EXCEPT ![Sched!Top.run] = r]
  BY <1>1 DEF Sched!HandlerReturns, JobsInv, Sched!TypeOK
<1> HIDE DEF r
<1>5. Sched!TypeOK'
  <2>1. totalRuns' \in [Jobs -> Nat] /\ failures' \in [Jobs -> Nat]
    BY <1>1 DEF JobsInv, Sched!TypeOK, Sched!HandlerReturns
  <2>2. records' \in [Runs -> Sched!Record \cup {NoRecord}]
    BY <1>1, <1>2, <1>3 DEF JobsInv, Sched!TypeOK
  <2> QED BY <2>1, <2>2 DEF JobsInv, Sched!TypeOK, Sched!HandlerReturns
<1>6. r # NoRecord
  BY <1>2 DEF Sched!SchedulerAssumption
<1> QED BY <1>1, <1>2, <1>3, <1>5, <1>6, TriggerStageInv DEF Sched!HandlerReturns

LEMMA RunRaisesInv ==
  ASSUME Sched!SchedulerAssumption, JobsInv, Sched!RunRaises PROVE JobsInv'
<1> DEFINE r == [records[Sched!Top.run] EXCEPT !.status = "FAILED"]
<1>1. /\ stack # <<>> /\ Sched!Top.kind = "trigger"
      /\ Sched!Top.run \in Runs /\ records[Sched!Top.run] \in Sched!Record /\ Sched!Job \in Jobs
  BY TopRecord DEF Sched!RunRaises, Sched!InTrigger
<1>2. r \in Sched!Record /\ r.status = "FAILED"
  BY <1>1 DEF Sched!Record
<1>3. records' = [records EXCEPT ![Sched!Top.run] = r]
  BY <1>1 DEF Sched!RunRaises, JobsInv, Sched!TypeOK
<1> HIDE DEF r
<1>5. Sched!TypeOK'
  <2>1. totalRuns' \in [Jobs -> Nat] /\ failures' \in [Jobs -> Nat]
    BY <1>1 DEF JobsInv, Sched!TypeOK, Sched!RunRaises, Sched!CountedAgain
  <2>2. records' \in [Runs -> Sched!Record \cup {NoRecord}]
    BY <1>1, <1>2, <1>3 DEF JobsInv, Sched!TypeOK
  <2> QED BY <2>1, <2>2 DEF JobsInv, Sched!TypeOK, Sched!RunRaises
<1>6. r # NoRecord
  BY <1>2 DEF Sched!SchedulerAssumption
<1> QED BY <1>1, <1>2, <1>3, <1>5, <1>6, TriggerStageInv DEF Sched!RunRaises

LEMMA TriggerReturnsInv == ASSUME JobsInv, Sched!TriggerReturns PROVE JobsInv'
<1> DEFINE x == Sched!Top.run
<1>1. /\ stack # <<>>
      /\ Sched!Top.kind = "trigger"
      /\ Sched!Top.stage \in {"executed", "failed"}
      /\ history' = Append(history, x)
      /\ Sched!Leave
      /\ UNCHANGED <<Sched!jobVars, records, forgotten>>
  BY DEF Sched!TriggerReturns, Sched!InTrigger, Sched!WithRecord
<1>2. /\ TriggersSound'
      /\ x \in Runs
      /\ records[x] # NoRecord
      /\ x \notin Sched!InHistory \cup forgotten
      /\ records[x].status # "RUNNING"
      /\ \A y \in Runs : Sched!InProgress(y)' <=> Sched!InProgress(y) /\ y # x
  BY <1>1, LeaveTriggerFacts
<1> HIDE DEF x
<1>3. history \in Seq(Runs)
  BY DEF JobsInv, Sched!TypeOK
<1>4. /\ history' \in Seq(Runs)
      /\ Len(history) \in Nat
      /\ Len(history') = Len(history) + 1
      /\ history'[Len(history) + 1] = x
      /\ \A i \in 1..Len(history) : history'[i] = history[i]
  BY <1>1, <1>2, <1>3, StackPush
<1>5. Sched!InHistory' = Sched!InHistory \cup {x}
  BY <1>1, <1>2, <1>3, AppendRange DEF Sched!InHistory
<1>6. Sched!TypeOK'
  BY <1>1, <1>4 DEF JobsInv, Sched!TypeOK, Sched!jobVars
<1>7. RecordsMade'
  BY <1>1, <1>2, <1>5 DEF JobsInv, RecordsMade
<1>8. Sched!RunsAreRecorded'
  <2>1. \A y \in Runs :
         /\ Sched!InProgress(y)' => y \notin Sched!InHistory' \cup forgotten'
         /\ ~Sched!InProgress(y)' /\ records'[y] # NoRecord => (y \in Sched!InHistory' <=> y \notin forgotten')
         /\ ~Sched!InProgress(y)' /\ records'[y] = NoRecord => y \notin Sched!InHistory' \cup forgotten'
    BY <1>1, <1>2, <1>5, Recorded DEF JobsInv
  <2>2. \A y \in Sched!InHistory' : records'[y].status # "RUNNING"
    BY <1>1, <1>2, <1>5, Recorded DEF JobsInv
  <2>3. \A i, k \in 1..Len(history') : history'[i] = history'[k] => i = k
    <3>1. \A i \in 1..Len(history') : i \in 1..Len(history) \/ i = Len(history) + 1
      BY <1>4
    <3>2. \A i \in 1..Len(history) : history[i] # x
      BY <1>2 DEF Sched!InHistory
    <3>3. \A i, k \in 1..Len(history) : history[i] = history[k] => i = k
      BY Recorded DEF JobsInv
    <3> QED BY <1>4, <3>1, <3>2, <3>3
  <2> QED BY <2>1, <2>2, <2>3 DEF Sched!RunsAreRecorded
<1> QED BY <1>2, <1>6, <1>7, <1>8 DEF JobsInv

LEMMA TriggerRaisesInv == ASSUME JobsInv, Sched!TriggerRaises PROVE JobsInv'
<1> DEFINE x == Sched!Top.run
<1>1. /\ stack # <<>>
      /\ Sched!Top.kind = "trigger"
      /\ forgotten' = forgotten \cup {x}
      /\ Sched!Leave
      /\ UNCHANGED <<Sched!jobVars, records, history>>
  BY DEF Sched!TriggerRaises, Sched!InTrigger
<1>2. /\ TriggersSound'
      /\ x \in Runs
      /\ records[x] # NoRecord
      /\ x \notin Sched!InHistory \cup forgotten
      /\ \A y \in Runs : Sched!InProgress(y)' <=> Sched!InProgress(y) /\ y # x
  BY <1>1, LeaveTriggerFacts
<1> HIDE DEF x
<1>3. Sched!InHistory' = Sched!InHistory
  BY <1>1 DEF Sched!InHistory
<1>4. Sched!TypeOK'
  BY <1>1, <1>2 DEF JobsInv, Sched!TypeOK, Sched!jobVars
<1>5. RecordsMade'
  BY <1>1, <1>2, <1>3 DEF JobsInv, RecordsMade
<1>6. Sched!RunsAreRecorded'
  <2>1. \A y \in Runs :
         /\ Sched!InProgress(y)' => y \notin Sched!InHistory \cup forgotten'
         /\ ~Sched!InProgress(y)' /\ records[y] # NoRecord => (y \in Sched!InHistory <=> y \notin forgotten')
         /\ ~Sched!InProgress(y)' /\ records[y] = NoRecord => y \notin Sched!InHistory \cup forgotten'
    BY <1>1, <1>2, Recorded DEF JobsInv
  <2> QED BY <1>1, <1>3, <2>1, Recorded DEF JobsInv, Sched!RunsAreRecorded
<1> QED BY <1>2, <1>4, <1>5, <1>6 DEF JobsInv

LEMMA ClearJobsInv == ASSUME JobsInv, Sched!Clear PROVE JobsInv'
<1>1. /\ history' = <<>>
      /\ forgotten' = forgotten \cup Sched!InHistory
      /\ UNCHANGED <<status, totalRuns, failures, records, stack>>
      /\ jobs' = {}
  BY DEF Sched!Clear
<1>2. Sched!InHistory' = {} /\ Len(history') = 0 /\ Sched!InHistory \subseteq Runs
  BY <1>1 DEF Sched!InHistory, JobsInv, Sched!TypeOK
<1>3. Sched!TypeOK'
  BY <1>1, <1>2 DEF JobsInv, Sched!TypeOK
<1>4. TriggersSound'
  BY <1>1 DEF JobsInv, TriggersSound, IsTrigger, RecordAtStage
<1>5. RecordsMade'
  BY <1>1, <1>2 DEF JobsInv, RecordsMade
<1>6. \A x \in Runs : Sched!InProgress(x)' <=> Sched!InProgress(x)
  BY <1>1 DEF Sched!InProgress
<1>7. Sched!RunsAreRecorded'
  <2>1. \A x \in Runs :
         /\ Sched!InProgress(x)' => x \notin forgotten'
         /\ ~Sched!InProgress(x)' /\ records[x] # NoRecord => x \in forgotten'
         /\ ~Sched!InProgress(x)' /\ records[x] = NoRecord => x \notin forgotten'
    BY <1>1, <1>6, Recorded DEF JobsInv
  <2> QED BY <1>1, <1>2, <2>1 DEF Sched!RunsAreRecorded
<1> QED BY <1>3, <1>4, <1>5, <1>7 DEF JobsInv

\* Calls of other engines begin, go on and return between those of this one.
OutsideTriggers ==
  /\ UNCHANGED <<Sched!jobVars, Sched!recordVars>>
  /\ \/ UNCHANGED stack
     \/ \E f \in Flow!Frame : stack' = Append(stack, f)
     \/ stack # <<>> /\ Sched!Top.kind # "trigger" /\ Sched!Leave
     \/ /\ stack # <<>>
        /\ Sched!Top.kind # "trigger"
        /\ \E f \in Flow!Frame : stack' = [stack EXCEPT ![Len(stack)] = f]

\* They leave every trigger on its level.
LEMMA TriggersKept ==
  ASSUME JobsInv, OutsideTriggers
  PROVE  /\ stack' \in Seq(Sched!Frame \cup Flow!Frame)
         /\ \A i \in 1..Len(stack') : IsTrigger(i)' => i \in 1..Len(stack) /\ stack'[i] = stack[i]
         /\ \A i \in 1..Len(stack) : IsTrigger(i) => i \in 1..Len(stack') /\ stack'[i] = stack[i]
<1>1. stack \in Seq(Sched!Frame \cup Flow!Frame)
  BY DEF JobsInv, TriggersSound
<1>2. CASE UNCHANGED stack
  BY <1>1, <1>2
<1>3. ASSUME NEW f \in Flow!Frame, stack' = Append(stack, f)
      PROVE  /\ stack' \in Seq(Sched!Frame \cup Flow!Frame)
             /\ \A i \in 1..Len(stack') :
                  IsTrigger(i)' => i \in 1..Len(stack) /\ stack'[i] = stack[i]
             /\ \A i \in 1..Len(stack) : IsTrigger(i) => i \in 1..Len(stack') /\ stack'[i] = stack[i]
  <2>1. /\ stack' \in Seq(Sched!Frame \cup Flow!Frame)
        /\ Len(stack) \in Nat
        /\ Len(stack') = Len(stack) + 1
        /\ stack'[Len(stack) + 1] = f
        /\ \A i \in 1..Len(stack) : stack'[i] = stack[i]
    BY <1>1, <1>3, StackPush
  <2>2. f.kind # "trigger"
    BY FlowsAreNoTriggers
  <2>3. \A i \in 1..Len(stack') : i \in 1..Len(stack) \/ i = Len(stack) + 1
    BY <2>1
  <2> QED BY <2>1, <2>2, <2>3 DEF IsTrigger
<1>4. ASSUME stack # <<>>, Sched!Top.kind # "trigger", Sched!Leave
      PROVE  /\ stack' \in Seq(Sched!Frame \cup Flow!Frame)
             /\ \A i \in 1..Len(stack') :
                  IsTrigger(i)' => i \in 1..Len(stack) /\ stack'[i] = stack[i]
             /\ \A i \in 1..Len(stack) : IsTrigger(i) => i \in 1..Len(stack') /\ stack'[i] = stack[i]
  <2>1. /\ stack' \in Seq(Sched!Frame \cup Flow!Frame)
        /\ Len(stack') = Len(stack) - 1
        /\ \A i \in 1..Len(stack') : stack'[i] = stack[i]
    BY <1>1, <1>4, StackPop DEF Sched!Leave
  <2>2. Len(stack) \in Nat /\ Len(stack) >= 1
    BY <1>1, <1>4, StackTop
  <2>3. /\ 1..Len(stack') \subseteq 1..Len(stack)
        /\ \A i \in 1..Len(stack) : i \in 1..Len(stack') \/ i = Len(stack)
    BY <2>1, <2>2
  <2>4. ~IsTrigger(Len(stack))
    BY <1>4 DEF Sched!Top, IsTrigger
  <2> QED BY <2>1, <2>3, <2>4
<1>5. ASSUME stack # <<>>, Sched!Top.kind # "trigger",
             NEW f \in Flow!Frame, stack' = [stack EXCEPT ![Len(stack)] = f]
      PROVE  /\ stack' \in Seq(Sched!Frame \cup Flow!Frame)
             /\ \A i \in 1..Len(stack') :
                  IsTrigger(i)' => i \in 1..Len(stack) /\ stack'[i] = stack[i]
             /\ \A i \in 1..Len(stack) : IsTrigger(i) => i \in 1..Len(stack') /\ stack'[i] = stack[i]
  <2>1. /\ stack' \in Seq(Sched!Frame \cup Flow!Frame)
        /\ Len(stack') = Len(stack)
        /\ stack'[Len(stack)] = f
        /\ \A i \in 1..Len(stack) - 1 : stack'[i] = stack[i]
    BY <1>1, <1>5, StackReplace
  <2>2. \A i \in 1..Len(stack) : i \in 1..Len(stack) - 1 \/ i = Len(stack)
    BY <1>1, <1>5, StackTop
  <2>3. f.kind # "trigger" /\ ~IsTrigger(Len(stack))
    BY <1>5, FlowsAreNoTriggers DEF Sched!Top, IsTrigger
  <2> QED BY <2>1, <2>2, <2>3 DEF IsTrigger
<1> QED BY <1>2, <1>3, <1>4, <1>5 DEF OutsideTriggers

LEMMA OutsideTriggersInv ==
  ASSUME JobsInv, OutsideTriggers
  PROVE  JobsInv'
<1>1. /\ stack' \in Seq(Sched!Frame \cup Flow!Frame)
      /\ \A i \in 1..Len(stack') : IsTrigger(i)' => i \in 1..Len(stack) /\ stack'[i] = stack[i]
      /\ \A i \in 1..Len(stack) : IsTrigger(i) => i \in 1..Len(stack') /\ stack'[i] = stack[i]
  BY TriggersKept
<1>2. UNCHANGED <<jobs, status, totalRuns, failures, records, history, forgotten>>
  BY DEF OutsideTriggers, Sched!jobVars, Sched!recordVars
<1>3. \A i \in 1..Len(stack') : IsTrigger(i)' => IsTrigger(i) /\ RecordAtStage(stack[i])'
  <2> SUFFICES ASSUME NEW i \in 1..Len(stack'), IsTrigger(i)'
               PROVE  IsTrigger(i) /\ RecordAtStage(stack[i])'
    OBVIOUS
  <2>1. i \in 1..Len(stack) /\ stack'[i] = stack[i] /\ IsTrigger(i)
    BY <1>1 DEF IsTrigger
  <2> QED BY <1>2, <2>1 DEF JobsInv, TriggersSound, RecordAtStage
<1>4. TriggersSound'
  <2>1. ASSUME NEW i \in 1..Len(stack'), NEW k \in 1..Len(stack'),
               IsTrigger(i)', IsTrigger(k)', stack'[i].run = stack'[k].run
        PROVE  i = k
    BY <1>1, <1>3, <2>1 DEF JobsInv, TriggersSound
  <2>2. \A i \in 1..Len(stack') : IsTrigger(i)' => stack'[i] \in Sched!Frame
    BY <1>1, <1>3 DEF JobsInv, TriggersSound
  <2> QED BY <1>1, <1>3, <2>1, <2>2 DEF TriggersSound
<1>5. \A x \in Runs : Sched!InProgress(x)' <=> Sched!InProgress(x)
  BY <1>1, <1>3 DEF Sched!InProgress, IsTrigger
<1>6. Sched!TypeOK' /\ RecordsMade'
  BY <1>2 DEF JobsInv, Sched!TypeOK, RecordsMade, Sched!InHistory
<1>7. Sched!RunsAreRecorded'
  <2>1. Sched!InHistory' = Sched!InHistory
    BY <1>2 DEF Sched!InHistory
  <2> QED BY <1>2, <1>5, <2>1, Recorded DEF JobsInv, Sched!RunsAreRecorded
<1> QED BY <1>4, <1>6, <1>7 DEF JobsInv

LEMMA JobsStepInv == ASSUME Sched!SchedulerAssumption PROVE JobsInv /\ [Sched!Next]_Sched!vars => JobsInv'
<1> SUFFICES ASSUME JobsInv, [Sched!Next]_Sched!vars PROVE JobsInv'
  OBVIOUS
<1>1. ASSUME NEW j \in Jobs,
             Sched!Schedule(j) \/ Sched!Pause(j) \/ Sched!Resume(j) \/ Sched!Cancel(j) PROVE JobsInv'
  <2>1. Sched!TypeOK'
    BY <1>1
       DEF JobsInv, Sched!TypeOK, Sched!Schedule, Sched!Pause, Sched!Resume, Sched!Cancel,
           Sched!SetStatus, Sched!recordVars
  <2> QED BY <1>1, <2>1, RecordFrameInv
          DEF Sched!Schedule, Sched!Pause, Sched!Resume, Sched!Cancel, Sched!SetStatus,
                  Sched!recordVars
<1>2. ASSUME NEW j \in Jobs, NEW x \in Runs, Sched!Trigger(j, x) PROVE JobsInv'
  BY <1>2, TriggerInv
<1>3. CASE Sched!Clear
  BY <1>3, ClearJobsInv
<1>4. CASE Sched!HandlerReturns
  BY <1>4, HandlerReturnsInv
<1>5. CASE Sched!RunRaises
  BY <1>5, RunRaisesInv
<1>6. CASE Sched!TriggerReturns
  BY <1>6, TriggerReturnsInv
<1>7. CASE Sched!TriggerRaises
  BY <1>7, TriggerRaisesInv
<1>8. CASE UNCHANGED Sched!vars
  <2>1. Sched!TypeOK'
    BY <1>8 DEF JobsInv, Sched!TypeOK, Sched!vars, Sched!jobVars, Sched!recordVars
  <2> QED BY <1>8, <2>1, RecordFrameInv DEF Sched!vars
<1> QED BY <1>1, <1>2, <1>3, <1>4, <1>5, <1>6, <1>7, <1>8
           DEF Sched!Next, Sched!Call, Sched!Proceed

-------------------------------------------------------------------------------
(* SchedulerEngine: the counters                                              *)

\* The executions that are counted are finite in number, and counted one by one.
LEMMA CountOne ==
  ASSUME Sched!SchedulerAssumption, NEW S \in SUBSET Runs
  PROVE  /\ Cardinality(S) \in Nat
         /\ \A x \in Runs \ S : Cardinality(S \cup {x}) = Cardinality(S) + 1
<1>1. IsFiniteSet(S)
  BY FS_Subset, SameSets DEF Sched!SchedulerAssumption
<1> QED BY <1>1, FS_CardinalityType, FS_AddElement

\* What the counters are, to the last run: every handler that returned and every run
\* that failed has counted.  A run has ended by the one or by the other.
Counted ==
  /\ \A j \in Jobs :
       /\ totalRuns[j] = Cardinality(Sched!Returned(j)) + Cardinality(Sched!Failed(j))
       /\ failures[j] <= Cardinality(Sched!Failed(j))
       /\ Sched!Returned(j) = {} => failures[j] = totalRuns[j]
  /\ \A j \in Jobs : Sched!Ended(j) = Sched!Returned(j) \cup Sched!Failed(j)

LEMMA CountsEnded ==
  ASSUME Sched!SchedulerAssumption, JobsInv, Counted
  PROVE  Sched!RunsAreCounted
<1> SUFFICES ASSUME NEW j \in Jobs
             PROVE  /\ Cardinality(Sched!Ended(j)) <= totalRuns[j]
                    /\ totalRuns[j] <= Cardinality(Sched!Ended(j))
                                         + Cardinality(Sched!Returned(j) \cap Sched!Failed(j))
                    /\ failures[j] <= Cardinality(Sched!Failed(j))
                    /\ Sched!Returned(j) = {} => failures[j] = totalRuns[j]
  BY SameSets DEF Sched!RunsAreCounted
<1>1. Sched!Returned(j) \in SUBSET Runs /\ Sched!Failed(j) \in SUBSET Runs
  BY DEF Sched!Returned, Sched!Failed, Sched!Of
<1>2. IsFiniteSet(Sched!Returned(j)) /\ IsFiniteSet(Sched!Failed(j))
  BY <1>1, FS_Subset, SameSets DEF Sched!SchedulerAssumption
<1>3. Cardinality(Sched!Ended(j)) =
        Cardinality(Sched!Returned(j)) + Cardinality(Sched!Failed(j))
          - Cardinality(Sched!Returned(j) \cap Sched!Failed(j))
  BY <1>2, FS_Union DEF Counted
<1>4. /\ Cardinality(Sched!Returned(j)) \in Nat /\ Cardinality(Sched!Failed(j)) \in Nat
      /\ Cardinality(Sched!Returned(j) \cap Sched!Failed(j)) \in Nat
  <2>1. Sched!Returned(j) \cap Sched!Failed(j) \in SUBSET Runs
    BY <1>1
  <2> QED BY <1>1, <2>1, CountOne
<1> QED BY <1>3, <1>4 DEF Counted

\* A step that leaves counters and outcomes alone.
LEMMA SameOutcomes ==
  ASSUME Counted, UNCHANGED <<totalRuns, failures>>,
         \A j \in Jobs : /\ Sched!Returned(j)' = Sched!Returned(j)
                         /\ Sched!Failed(j)' = Sched!Failed(j)
                         /\ Sched!Ended(j)' = Sched!Ended(j)
  PROVE  Counted'
BY DEF Counted

LEMMA TriggerCounted ==
  ASSUME Sched!SchedulerAssumption, JobsInv, Counted, NEW j \in Jobs,
         NEW x \in Runs, Sched!Trigger(j, x)
  PROVE  Counted'
<1> DEFINE r == [job |-> j, status |-> "RUNNING", output |-> FALSE]
<1>1. /\ records[x] = NoRecord
      /\ records' = [records EXCEPT ![x] = r]
      /\ UNCHANGED <<totalRuns, failures>>
  BY DEF Sched!Trigger, Sched!jobVars
<1>2. \A y \in Runs : records'[y] = IF y = x THEN r ELSE records[y]
  BY <1>1 DEF JobsInv, Sched!TypeOK
<1>3. \A k \in Jobs : /\ Sched!Returned(k)' = Sched!Returned(k)
                      /\ Sched!Failed(k)' = Sched!Failed(k)
                      /\ Sched!Ended(k)' = Sched!Ended(k)
  BY <1>1, <1>2 DEF Sched!Returned, Sched!Failed, Sched!Ended, Sched!Of
<1> QED BY <1>1, <1>3, SameOutcomes

LEMMA HandlerReturnsCounted ==
  ASSUME Sched!SchedulerAssumption, JobsInv, Counted, Sched!HandlerReturns
  PROVE  Counted'
<1> DEFINE x == Sched!Top.run
           r == [records[x] EXCEPT !.status = "COMPLETED", !.output = TRUE]
<1>1. stack # <<>> /\ Sched!Top.kind = "trigger" /\ Sched!Top.stage = "handling"
  BY DEF Sched!HandlerReturns, Sched!InTrigger
<1>2. /\ x \in Runs /\ records[x] \in Sched!Record /\ records[x] # NoRecord
      /\ records[x].status = "RUNNING" /\ ~records[x].output
      /\ Sched!Job \in Jobs /\ records[x].job = Sched!Job
  BY <1>1, TopRecord DEF RecordAtStage, Sched!Job
<1>3. r \in Sched!Record /\ r.status = "COMPLETED" /\ r.output /\ r.job = Sched!Job
  BY <1>2 DEF Sched!Record
<1>4. /\ records' = [records EXCEPT ![x] = r]
      /\ totalRuns' = [totalRuns EXCEPT ![Sched!Job] = totalRuns[Sched!Job] + 1]
      /\ failures' = [failures EXCEPT ![Sched!Job] = 0]
  BY <1>2 DEF Sched!HandlerReturns, JobsInv, Sched!TypeOK
<1> HIDE DEF r, x
<1>5. r # NoRecord
  BY <1>3 DEF Sched!SchedulerAssumption
<1>6. \A y \in Runs : records'[y] = IF y = x THEN r ELSE records[y]
  BY <1>4 DEF JobsInv, Sched!TypeOK
<1>7. \A k \in Jobs : /\ Sched!Returned(k)' =
                            IF k = Sched!Job THEN Sched!Returned(k) \cup {x} ELSE Sched!Returned(k)
                      /\ Sched!Failed(k)' = Sched!Failed(k)
                      /\ Sched!Ended(k)' =
                            IF k = Sched!Job THEN Sched!Ended(k) \cup {x} ELSE Sched!Ended(k)
  <2> DEFINE j == Sched!Job
  <2>1. records[x].job = j /\ r.job = j
    BY <1>2, <1>3
  <2> HIDE DEF j
  <2>2. \A k \in Jobs : Sched!Of(k)' = Sched!Of(k)
    BY <1>2, <1>5, <1>6, <2>1 DEF Sched!Of
  <2>3. \A k \in Jobs : x \in Sched!Of(k) <=> k = j
    BY <1>2, <2>1 DEF Sched!Of
  <2>4. \A k \in Jobs : Sched!Failed(k)' = Sched!Failed(k)
    BY <1>2, <1>3, <1>6, <2>2 DEF Sched!Failed, Sched!Of
  <2>5. \A k \in Jobs : Sched!Returned(k)' = IF k = j THEN Sched!Returned(k) \cup {x} ELSE Sched!Returned(k)
    BY <1>2, <1>3, <1>6, <2>2, <2>3 DEF Sched!Returned, Sched!Of
  <2>6. \A k \in Jobs : Sched!Ended(k)' = IF k = j THEN Sched!Ended(k) \cup {x} ELSE Sched!Ended(k)
    BY <1>2, <1>3, <1>6, <2>2, <2>3 DEF Sched!Ended, Sched!Of
  <2> QED BY <2>4, <2>5, <2>6 DEF j
<1>8. x \notin Sched!Returned(Sched!Job)
  BY <1>2 DEF Sched!Returned
<1>9. ASSUME NEW k \in Jobs
      PROVE  /\ totalRuns'[k] = Cardinality(Sched!Returned(k)') + Cardinality(Sched!Failed(k)')
             /\ failures'[k] <= Cardinality(Sched!Failed(k)')
             /\ Sched!Returned(k)' = {} => failures'[k] = totalRuns'[k]
  <2>1. /\ totalRuns[k] = Cardinality(Sched!Returned(k)) + Cardinality(Sched!Failed(k))
        /\ failures[k] <= Cardinality(Sched!Failed(k))
        /\ Sched!Returned(k) = {} => failures[k] = totalRuns[k]
    BY DEF Counted
  <2>2. Sched!Returned(k) \in SUBSET Runs /\ Sched!Failed(k) \in SUBSET Runs
    BY DEF Sched!Returned, Sched!Failed, Sched!Of
  <2>3. /\ Cardinality(Sched!Returned(k)) \in Nat /\ Cardinality(Sched!Failed(k)) \in Nat
        /\ failures[k] \in Nat
    BY <2>2, CountOne DEF JobsInv, Sched!TypeOK
  <2>4. CASE k = Sched!Job
    <3>1. Cardinality(Sched!Returned(k) \cup {x}) = Cardinality(Sched!Returned(k)) + 1
      BY <1>2, <1>8, <2>2, <2>4, CountOne
    <3>2. totalRuns'[k] = totalRuns[k] + 1 /\ failures'[k] = 0
      BY <1>2, <1>4, <2>4 DEF JobsInv, Sched!TypeOK
    <3>3. Sched!Returned(k)' = Sched!Returned(k) \cup {x} /\ Sched!Failed(k)' = Sched!Failed(k)
      BY <1>7, <2>4
    <3>4. Sched!Returned(k)' # {}
      BY <3>3
    <3> QED BY <2>1, <2>3, <3>1, <3>2, <3>3, <3>4
  <2>5. CASE k # Sched!Job
    <3>1. totalRuns'[k] = totalRuns[k] /\ failures'[k] = failures[k]
      BY <1>2, <1>4, <2>5 DEF JobsInv, Sched!TypeOK
    <3>2. Sched!Returned(k)' = Sched!Returned(k) /\ Sched!Failed(k)' = Sched!Failed(k)
      BY <1>7, <2>5
    <3> QED BY <2>1, <3>1, <3>2
  <2> QED BY <2>4, <2>5
<1>10. \A k \in Jobs : Sched!Ended(k)' = Sched!Returned(k)' \cup Sched!Failed(k)'
  BY <1>7 DEF Counted
<1> QED BY <1>9, <1>10 DEF Counted

LEMMA RunRaisesCounted ==
  ASSUME Sched!SchedulerAssumption, JobsInv, Counted, Sched!RunRaises
  PROVE  Counted'
<1> DEFINE x == Sched!Top.run
           r == [records[x] EXCEPT !.status = "FAILED"]
<1>1. stack # <<>> /\ Sched!Top.kind = "trigger" /\ Sched!Top.stage \in {"handling",
      "executed"}
  BY DEF Sched!RunRaises, Sched!InTrigger
<1>2. /\ x \in Runs /\ records[x] \in Sched!Record /\ records[x] # NoRecord
      /\ records[x].status # "FAILED"
      /\ Sched!Job \in Jobs /\ records[x].job = Sched!Job
  BY <1>1, TopRecord DEF RecordAtStage, Sched!Job
<1>3. r \in Sched!Record /\ r.status = "FAILED" /\ r.output = records[x].output /\ r.job = Sched!Job
  BY <1>2 DEF Sched!Record
<1>4. /\ records' = [records EXCEPT ![x] = r]
      /\ totalRuns' = [totalRuns EXCEPT ![Sched!Job] = totalRuns[Sched!Job] + 1]
      /\ failures' = [failures EXCEPT ![Sched!Job] = failures[Sched!Job] + 1]
  BY <1>2 DEF Sched!RunRaises, Sched!CountedAgain, JobsInv, Sched!TypeOK
<1> HIDE DEF r, x
<1>5. r # NoRecord
  BY <1>3 DEF Sched!SchedulerAssumption
<1>6. \A y \in Runs : records'[y] = IF y = x THEN r ELSE records[y]
  BY <1>4 DEF JobsInv, Sched!TypeOK
<1>7. \A k \in Jobs : /\ Sched!Failed(k)' =
                            IF k = Sched!Job THEN Sched!Failed(k) \cup {x} ELSE Sched!Failed(k)
                      /\ Sched!Returned(k)' = Sched!Returned(k)
                      /\ Sched!Ended(k)' =
                            IF k = Sched!Job THEN Sched!Ended(k) \cup {x} ELSE Sched!Ended(k)
  <2> DEFINE j == Sched!Job
  <2>1. records[x].job = j /\ r.job = j
    BY <1>2, <1>3
  <2> HIDE DEF j
  <2>2. \A k \in Jobs : Sched!Of(k)' = Sched!Of(k)
    BY <1>2, <1>5, <1>6, <2>1 DEF Sched!Of
  <2>3. \A k \in Jobs : x \in Sched!Of(k) <=> k = j
    BY <1>2, <2>1 DEF Sched!Of
  <2>4. \A k \in Jobs : Sched!Returned(k)' = Sched!Returned(k)
    BY <1>2, <1>3, <1>6, <2>2 DEF Sched!Returned, Sched!Of
  <2>5. \A k \in Jobs : Sched!Failed(k)' = IF k = j THEN Sched!Failed(k) \cup {x} ELSE Sched!Failed(k)
    BY <1>2, <1>3, <1>6, <2>2, <2>3 DEF Sched!Failed, Sched!Of
  <2>6. \A k \in Jobs : Sched!Ended(k)' = IF k = j THEN Sched!Ended(k) \cup {x} ELSE Sched!Ended(k)
    BY <1>2, <1>3, <1>6, <2>2, <2>3 DEF Sched!Ended, Sched!Of
  <2> QED BY <2>4, <2>5, <2>6 DEF j
<1>8. x \notin Sched!Failed(Sched!Job)
  BY <1>2 DEF Sched!Failed
<1>9. ASSUME NEW k \in Jobs
      PROVE  /\ totalRuns'[k] = Cardinality(Sched!Returned(k)') + Cardinality(Sched!Failed(k)')
             /\ failures'[k] <= Cardinality(Sched!Failed(k)')
             /\ Sched!Returned(k)' = {} => failures'[k] = totalRuns'[k]
  <2>1. /\ totalRuns[k] = Cardinality(Sched!Returned(k)) + Cardinality(Sched!Failed(k))
        /\ failures[k] <= Cardinality(Sched!Failed(k))
        /\ Sched!Returned(k) = {} => failures[k] = totalRuns[k]
    BY DEF Counted
  <2>2. Sched!Returned(k) \in SUBSET Runs /\ Sched!Failed(k) \in SUBSET Runs
    BY DEF Sched!Returned, Sched!Failed, Sched!Of
  <2>3. /\ Cardinality(Sched!Returned(k)) \in Nat /\ Cardinality(Sched!Failed(k)) \in Nat
        /\ failures[k] \in Nat
    BY <2>2, CountOne DEF JobsInv, Sched!TypeOK
  <2>4. CASE k = Sched!Job
    <3>1. Cardinality(Sched!Failed(k) \cup {x}) = Cardinality(Sched!Failed(k)) + 1
      BY <1>2, <1>8, <2>2, <2>4, CountOne
    <3>2. totalRuns'[k] = totalRuns[k] + 1 /\ failures'[k] = failures[k] + 1
      BY <1>2, <1>4, <2>4 DEF JobsInv, Sched!TypeOK
    <3>3. Sched!Failed(k)' = Sched!Failed(k) \cup {x} /\ Sched!Returned(k)' = Sched!Returned(k)
      BY <1>7, <2>4
    <3> QED BY <2>1, <2>3, <3>1, <3>2, <3>3
  <2>5. CASE k # Sched!Job
    <3>1. totalRuns'[k] = totalRuns[k] /\ failures'[k] = failures[k]
      BY <1>2, <1>4, <2>5 DEF JobsInv, Sched!TypeOK
    <3>2. Sched!Returned(k)' = Sched!Returned(k) /\ Sched!Failed(k)' = Sched!Failed(k)
      BY <1>7, <2>5
    <3> QED BY <2>1, <3>1, <3>2
  <2> QED BY <2>4, <2>5
<1>10. \A k \in Jobs : Sched!Ended(k)' = Sched!Returned(k)' \cup Sched!Failed(k)'
  BY <1>7 DEF Counted
<1> QED BY <1>9, <1>10 DEF Counted

LEMMA InitCounted == ASSUME Sched!SchedulerAssumption PROVE Sched!Init => Counted
<1> SUFFICES ASSUME Sched!Init, NEW j \in Jobs
             PROVE  /\ totalRuns[j] = Cardinality(Sched!Returned(j)) + Cardinality(Sched!Failed(j))
                    /\ failures[j] <= Cardinality(Sched!Failed(j))
                    /\ Sched!Returned(j) = {} => failures[j] = totalRuns[j]
                    /\ Sched!Ended(j) = Sched!Returned(j) \cup Sched!Failed(j)
  BY DEF Counted
<1>1. Sched!Returned(j) = {} /\ Sched!Failed(j) = {} /\ Sched!Ended(j) = {}
  BY DEF Sched!Init, Sched!Returned, Sched!Failed, Sched!Ended, Sched!Of
<1> QED BY <1>1, FS_EmptySet DEF Sched!Init

LEMMA NextCounted ==
  ASSUME Sched!SchedulerAssumption
  PROVE  JobsInv /\ Counted /\ [Sched!Next]_Sched!vars => Counted'
<1> SUFFICES ASSUME JobsInv, Counted,
    [Sched!Next]_Sched!vars PROVE Counted'
  OBVIOUS
<1>1. ASSUME UNCHANGED <<totalRuns, failures, records>> PROVE Counted'
  BY <1>1, SameOutcomes DEF Sched!Returned, Sched!Failed, Sched!Ended, Sched!Of
<1>2. ASSUME NEW j \in Jobs,
             Sched!Schedule(j) \/ Sched!Pause(j) \/ Sched!Resume(j) \/ Sched!Cancel(j)
      PROVE  Counted'
  BY <1>1, <1>2
     DEF Sched!Schedule, Sched!Pause, Sched!Resume, Sched!Cancel, Sched!SetStatus,
         Sched!recordVars
<1>3. ASSUME NEW j \in Jobs, NEW x \in Runs, Sched!Trigger(j, x) PROVE Counted'
  BY <1>3, TriggerCounted
<1>4. CASE Sched!Clear
  BY <1>1, <1>4 DEF Sched!Clear
<1>5. CASE Sched!HandlerReturns
  BY <1>5, HandlerReturnsCounted
<1>6. CASE Sched!RunRaises
  BY <1>6, RunRaisesCounted
<1>7. CASE Sched!TriggerReturns \/ Sched!TriggerRaises \/ UNCHANGED Sched!vars
  BY <1>1, <1>7
     DEF Sched!TriggerReturns, Sched!TriggerRaises, Sched!jobVars, Sched!vars,
         Sched!recordVars
<1> QED BY <1>2, <1>3, <1>4, <1>5, <1>6, <1>7 DEF Sched!Next, Sched!Call, Sched!Proceed

-------------------------------------------------------------------------------
\* A step leaves a cancelled job cancelled and starts no run of it.
LEMMA CancelledJobStep ==
  ASSUME Sched!SchedulerAssumption, JobsInv, [Sched!Next]_Sched!vars, NEW j \in Jobs,
         status[j] = "CANCELLED"
  PROVE  status'[j] = "CANCELLED" /\ Sched!Of(j)' = Sched!Of(j)
<1>1. ASSUME UNCHANGED records PROVE Sched!Of(j)' = Sched!Of(j)
  BY <1>1 DEF Sched!Of
<1>2. ASSUME NEW k \in Jobs,
             Sched!Schedule(k) \/ Sched!Pause(k) \/ Sched!Resume(k) \/ Sched!Cancel(k)
      PROVE  status'[j] = "CANCELLED" /\ Sched!Of(j)' = Sched!Of(j)
  <2>1. UNCHANGED records
    BY <1>2
       DEF Sched!Schedule, Sched!Pause, Sched!Resume, Sched!Cancel, Sched!SetStatus,
           Sched!recordVars
  <2>2. k # j \/ status' = [status EXCEPT ![j] = "CANCELLED"]
    BY <1>2
       DEF Sched!Schedule, Sched!Pause, Sched!Pausable, Sched!Resume, Sched!Cancel,
           Sched!SetStatus
  <2>3. \E s : status' = [status EXCEPT ![k] = s]
    BY <1>2 DEF Sched!Schedule, Sched!Pause, Sched!Resume, Sched!Cancel, Sched!SetStatus
  <2> QED BY <1>1, <2>1, <2>2, <2>3 DEF JobsInv, Sched!TypeOK
<1>3. ASSUME NEW k \in Jobs, NEW x \in Runs, Sched!Trigger(k, x)
      PROVE  status'[j] = "CANCELLED" /\ Sched!Of(j)' = Sched!Of(j)
  <2>1. /\ k # j /\ UNCHANGED status /\ records[x] = NoRecord
        /\ records' = [records EXCEPT ![x] = [job |-> k, status |-> "RUNNING", output |-> FALSE]]
    BY <1>3 DEF Sched!Trigger, Sched!jobVars
  <2>2. Sched!Of(j)' = Sched!Of(j)
    BY <2>1 DEF Sched!Of, JobsInv, Sched!TypeOK
  <2> QED BY <2>1, <2>2
<1>4. ASSUME Sched!HandlerReturns \/ Sched!RunRaises
      PROVE  status'[j] = "CANCELLED" /\ Sched!Of(j)' = Sched!Of(j)
  <2>1. stack # <<>> /\ Sched!Top.kind = "trigger" /\ UNCHANGED status
    BY <1>4 DEF Sched!HandlerReturns, Sched!RunRaises, Sched!InTrigger
  <2>2. /\ Sched!Top.run \in Runs
        /\ records[Sched!Top.run] \in Sched!Record /\ records[Sched!Top.run] # NoRecord
    BY <2>1, TopRecord
  <2>3. PICK r \in Sched!Record : /\ r.job = records[Sched!Top.run].job
                                  /\ records' = [records EXCEPT ![Sched!Top.run] = r]
    <3>1. CASE Sched!HandlerReturns
      <4> DEFINE r == [records[Sched!Top.run] EXCEPT !.status = "COMPLETED",
             !.output = TRUE]
      <4>1. r \in Sched!Record /\ r.job = records[Sched!Top.run].job
        BY <2>2 DEF Sched!Record
      <4>2. records' = [records EXCEPT ![Sched!Top.run] = r]
        BY <2>2, <3>1 DEF Sched!HandlerReturns, JobsInv, Sched!TypeOK
      <4> QED BY <4>1, <4>2
    <3>2. CASE Sched!RunRaises
      <4> DEFINE r == [records[Sched!Top.run] EXCEPT !.status = "FAILED"]
      <4>1. r \in Sched!Record /\ r.job = records[Sched!Top.run].job
        BY <2>2 DEF Sched!Record
      <4>2. records' = [records EXCEPT ![Sched!Top.run] = r]
        BY <2>2, <3>2 DEF Sched!RunRaises, JobsInv, Sched!TypeOK
      <4> QED BY <4>1, <4>2
    <3> QED BY <1>4, <3>1, <3>2
  <2>4. r # NoRecord
    BY DEF Sched!SchedulerAssumption
  <2>5. Sched!Of(j)' = Sched!Of(j)
    BY <2>2, <2>3, <2>4 DEF Sched!Of, JobsInv, Sched!TypeOK
  <2> QED BY <2>1, <2>5
<1>5. CASE Sched!TriggerReturns \/ Sched!TriggerRaises \/ Sched!Clear \/ UNCHANGED Sched!vars
  <2>1. UNCHANGED <<status, records>>
    BY <1>5
       DEF Sched!TriggerReturns, Sched!TriggerRaises, Sched!Clear, Sched!jobVars,
           Sched!vars, Sched!recordVars
  <2> QED BY <1>1, <2>1
<1> QED BY <1>2, <1>3, <1>4, <1>5 DEF Sched!Next, Sched!Call, Sched!Proceed

-------------------------------------------------------------------------------
(* WorkflowEngine                                                              *)
(* What the status of one execution says of its results                        *)

Stopped(e, i) == e.results[i] = "FAILED" /\ StopOn[e.flow][i]

ResultsSound(e) ==
  /\ \A i \in 1..Len(e.results) - 1 : ~Stopped(e, i)
  /\ e.status = "FAILED" => Len(e.results) > 0 /\ Stopped(e, Len(e.results))
  /\ e.status = "COMPLETED" =>
       Len(e.results) = Len(StopOn[e.flow]) /\ ~Stopped(e, Len(e.results))
  /\ e.status = "RUNNING" =>
       /\ Len(e.results) < Len(StopOn[e.flow])
       /\ Len(e.results) > 0 => ~Stopped(e, Len(e.results))

\* StatusTellsResults speaks of each execution on its own.
LEMMA EachExecution ==
  ASSUME Flow!TypeOK
  PROVE  Flow!StatusTellsResults <=> \A x \in Execs : Flow!Made(x) => ResultsSound(executions[x])
<1> SUFFICES ASSUME NEW x \in Execs, Flow!Made(x)
             PROVE  ResultsSound(executions[x]) <=>
                      LET n == Len(executions[x].results) IN
                      /\ \A i \in 1..n - 1 : ~Flow!StoppedAt(x, i)
                      /\ CASE executions[x].status = "FAILED"    -> n > 0 /\ Flow!StoppedAt(x, n)
                           [] executions[x].status = "COMPLETED" ->
                                n = Len(Flow!Steps(x)) /\ ~Flow!StoppedAt(x, n)
                           [] executions[x].status = "RUNNING"   ->
                                n < Len(Flow!Steps(x)) /\ (n > 0 => ~Flow!StoppedAt(x, n))
  BY DEF Flow!StatusTellsResults
<1>1. executions[x].status \in {"RUNNING", "COMPLETED", "FAILED"}
  BY DEF Flow!TypeOK, Flow!Made, Flow!Execution
<1> QED BY <1>1 DEF ResultsSound, Stopped, Flow!StoppedAt, Flow!Steps

\* A new execution has no results, and at least one step to go.
LEMMA StartSound ==
  ASSUME Flow!WorkflowAssumption, NEW w \in Flows
  PROVE  LET e == [flow |-> w, status |-> "RUNNING", results |-> <<>>]
         IN  e \in Flow!Execution /\ e # NoExec /\ ResultsSound(e)
<1> DEFINE e == [flow |-> w, status |-> "RUNNING", results |-> <<>>]
<1>1. e \in Flow!Execution
  BY DEF Flow!Execution
<1>2. Len(StopOn[w]) \in Nat /\ Len(StopOn[w]) > 0
  BY DEF Flow!WorkflowAssumption
<1>3. ResultsSound(e)
  BY <1>2 DEF ResultsSound
<1> HIDE DEF e
<1>4. e # NoExec
  BY <1>1 DEF Flow!WorkflowAssumption
<1> QED BY <1>1, <1>3, <1>4 DEF e

\* The result of one more step, and the status that goes with it.
LEMMA ResultSound ==
  ASSUME Flow!WorkflowAssumption, NEW e \in Flow!Execution, ResultsSound(e),
         e.status = "RUNNING",
         NEW outcome \in {"COMPLETED", "FAILED"},
         NEW s \in {"RUNNING", "COMPLETED", "FAILED"},
         LET stops == outcome = "FAILED" /\ StopOn[e.flow][Len(e.results) + 1]
             last  == Len(e.results) + 1 = Len(StopOn[e.flow])
         IN  \/ s = "RUNNING" /\ ~stops /\ ~last
             \/ s = "FAILED" /\ stops
             \/ s = "COMPLETED" /\ ~stops /\ last
  PROVE  LET d == [e EXCEPT !.results = Append(e.results, outcome), !.status = s]
         IN  d \in Flow!Execution /\ d # NoExec /\ ResultsSound(d)
<1> DEFINE n == Len(e.results)
           d == [e EXCEPT !.results = Append(e.results, outcome), !.status = s]
<1>1. /\ e.flow \in Flows
      /\ e.results \in Seq({"COMPLETED", "FAILED"})
      /\ n \in Nat
      /\ Len(StopOn[e.flow]) \in Nat
      /\ n < Len(StopOn[e.flow])
  BY DEF Flow!Execution, ResultsSound, Flow!WorkflowAssumption
<1>2. /\ d \in Flow!Execution
      /\ d.flow = e.flow /\ d.status = s /\ d.results = Append(e.results, outcome)
  <2>1. Append(e.results, outcome) \in Seq({"COMPLETED", "FAILED"})
    BY <1>1
  <2> DEFINE more == Append(e.results, outcome)
  <2> HIDE DEF more
  <2>2. [e EXCEPT !.results = more, !.status = s] \in Flow!Execution
    BY <2>1 DEF Flow!Execution, more
  <2>3. /\ [e EXCEPT !.results = more, !.status = s].flow = e.flow
        /\ [e EXCEPT !.results = more, !.status = s].status = s
        /\ [e EXCEPT !.results = more, !.status = s].results = more
    BY DEF Flow!Execution
  <2> QED BY <2>2, <2>3 DEF more
<1>3. /\ Len(d.results) = n + 1
      /\ d.results[n + 1] = outcome
      /\ \A i \in 1..n : d.results[i] = e.results[i]
  BY <1>1, <1>2
<1> HIDE DEF d
<1>4. \A i \in 1..n : ~Stopped(d, i)
  <2>1. \A i \in 1..n : ~Stopped(e, i)
    BY <1>1 DEF ResultsSound
  <2> QED BY <1>2, <1>3, <2>1 DEF Stopped
<1>5. Stopped(d, n + 1) <=> outcome = "FAILED" /\ StopOn[e.flow][n + 1]
  BY <1>2, <1>3 DEF Stopped
<1>6. ResultsSound(d)
  BY <1>1, <1>2, <1>3, <1>4, <1>5 DEF ResultsSound
<1>7. d # NoExec
  BY <1>2 DEF Flow!WorkflowAssumption
<1> QED BY <1>2, <1>6, <1>7 DEF d

-------------------------------------------------------------------------------
(* The invariant                                                               *)

\* An execution in progress is as its stage says.
ExecutionAtStage(f) ==
  /\ Flow!Made(f.exec)
  /\ f.stage \in {"starting", "step"} => executions[f.exec].status = "RUNNING"
  /\ f.stage = "starting" => executions[f.exec].results = <<>>
  /\ f.stage = "ending" => executions[f.exec].status # "RUNNING"

\* The levels of the stack that are executions.
IsExecution(i) == stack[i].kind = "execution"

\* Executions in progress are different ones.
ExecutionsSound ==
  /\ stack \in Seq(Flow!Frame \cup Sched!Frame)
  /\ \A i, k \in 1..Len(stack) :
       IsExecution(i) /\ IsExecution(k) /\ stack[i].exec = stack[k].exec => i = k
  /\ \A i \in 1..Len(stack) : IsExecution(i) => stack[i] \in Flow!Frame /\ ExecutionAtStage(stack[i])

\* The status of every execution that was made tells its results.
AllSound == \A x \in Execs : Flow!Made(x) => ResultsSound(executions[x])

FlowsInv == Flow!TypeOK /\ ExecutionsSound /\ AllSound /\ Flow!AbandonedBeforeFirstStep

LEMMA FlowsInit == Flow!Init => FlowsInv
<1> SUFFICES ASSUME Flow!Init PROVE FlowsInv
  OBVIOUS
<1>1. \A x \in Execs : ~Flow!Made(x)
  BY DEF Flow!Init, Flow!Made
<1>2. Flow!TypeOK
  BY DEF Flow!Init, Flow!TypeOK
<1>3. ExecutionsSound
  BY DEF Flow!Init, ExecutionsSound
<1> QED BY <1>1, <1>2, <1>3 DEF FlowsInv, AllSound, Flow!AbandonedBeforeFirstStep

\* Calls that do not execute leave executions and stack alone.
LEMMA ExecutionFrameInv ==
  ASSUME FlowsInv, Flow!TypeOK', UNCHANGED <<executions, stack>>
  PROVE  FlowsInv'
BY
   DEF FlowsInv, ExecutionsSound, IsExecution, ExecutionAtStage, AllSound,
       Flow!AbandonedBeforeFirstStep,
       Flow!Made, Flow!InProgress

LEMMA ExecuteInv ==
  ASSUME Flow!WorkflowAssumption, FlowsInv, NEW w \in Flows, NEW x \in Execs,
         Flow!Execute(w, x)
  PROVE  FlowsInv'
<1> DEFINE e == [flow |-> w, status |-> "RUNNING", results |-> <<>>]
           f == [kind |-> "execution", exec |-> x, stage |-> "starting"]
<1>1. /\ executions[x] = NoExec
      /\ executions' = [executions EXCEPT ![x] = e]
      /\ stored' = stored \cup {x}
      /\ stack' = Append(stack, f)
      /\ UNCHANGED Flow!flowVars
  BY DEF Flow!Execute
<1>2. e \in Flow!Execution /\ e # NoExec /\ ResultsSound(e)
  BY StartSound
<1>3. f \in Flow!Frame /\ f \in Flow!Frame \cup Sched!Frame
  BY DEF Flow!Frame
<1>4. /\ stack' \in Seq(Flow!Frame \cup Sched!Frame)
      /\ Len(stack) \in Nat
      /\ Len(stack') = Len(stack) + 1
      /\ stack'[Len(stack) + 1] = f
      /\ \A i \in 1..Len(stack) : stack'[i] = stack[i]
  BY <1>1, <1>3, StackPush DEF FlowsInv, ExecutionsSound
<1>5. \A i \in 1..Len(stack') : i \in 1..Len(stack) \/ i = Len(stack) + 1
  BY <1>4
<1>6. Flow!TypeOK'
  BY <1>1, <1>2 DEF FlowsInv, Flow!TypeOK, Flow!flowVars
<1>7. \A y \in Execs : executions'[y] = IF y = x THEN e ELSE executions[y]
  BY <1>1 DEF FlowsInv, Flow!TypeOK
<1>8. \A i \in 1..Len(stack) : IsExecution(i) => stack[i].exec \in Execs /\ stack[i].exec # x
  <2>1. ASSUME NEW i \in 1..Len(stack), IsExecution(i)
        PROVE  stack[i].exec \in Execs /\ stack[i].exec # x
    <3>1. stack[i] \in Flow!Frame /\ ExecutionAtStage(stack[i])
      BY <2>1 DEF FlowsInv, ExecutionsSound
    <3> QED BY <1>1, <3>1 DEF ExecutionAtStage, Flow!Made, Flow!Frame
  <2> QED BY <2>1
<1>9. ExecutionsSound'
  <2>1. \A i \in 1..Len(stack) : IsExecution(i)' <=> IsExecution(i)
    BY <1>4 DEF IsExecution
  <2>2. ASSUME NEW i \in 1..Len(stack'), NEW k \in 1..Len(stack'),
               IsExecution(i)', IsExecution(k)', stack'[i].exec = stack'[k].exec
        PROVE  i = k
    BY <1>4, <1>5, <1>8, <2>1, <2>2 DEF FlowsInv, ExecutionsSound
  <2>3. ASSUME NEW i \in 1..Len(stack'), IsExecution(i)'
        PROVE  stack'[i] \in Flow!Frame /\ ExecutionAtStage(stack[i])'
    <3>1. CASE i \in 1..Len(stack)
      BY <1>4, <1>7, <1>8, <2>1, <2>3, <3>1
         DEF FlowsInv, ExecutionsSound, ExecutionAtStage, Flow!Made
    <3>2. CASE i = Len(stack) + 1
      BY <1>2, <1>3, <1>4, <1>7, <3>2 DEF ExecutionAtStage, Flow!Made
    <3> QED BY <1>5, <3>1, <3>2
  <2> QED BY <1>4, <2>2, <2>3 DEF ExecutionsSound
<1>10. AllSound'
  BY <1>2, <1>7 DEF FlowsInv, AllSound, Flow!Made
<1>11. Flow!AbandonedBeforeFirstStep'
  <2>1. \A i \in 1..Len(stack) : i \in 1..Len(stack')
    BY <1>4
  <2>2. \A y \in Execs : Flow!InProgress(y) => Flow!InProgress(y)'
    BY <1>4, <2>1 DEF Flow!InProgress
  <2>3. e.results = <<>>
    OBVIOUS
  <2> QED BY <1>2, <1>7, <2>2, <2>3 DEF FlowsInv, Flow!AbandonedBeforeFirstStep, Flow!Made
<1> QED BY <1>6, <1>9, <1>10, <1>11 DEF FlowsInv

-------------------------------------------------------------------------------
(* The steps of an execution in progress                                       *)

\* The execution of the innermost call.
LEMMA TopExecution ==
  ASSUME FlowsInv, stack # <<>>, Flow!Top.kind = "execution"
  PROVE  /\ Flow!Top \in Flow!Frame
         /\ Flow!Top.exec \in Execs
         /\ executions[Flow!Top.exec] \in Flow!Execution
         /\ ExecutionAtStage(Flow!Top)
         /\ ResultsSound(executions[Flow!Top.exec])
<1>1. Len(stack) \in 1..Len(stack)
  BY StackTop DEF FlowsInv, ExecutionsSound
<1>2. Flow!Top \in Flow!Frame /\ ExecutionAtStage(Flow!Top)
  BY <1>1 DEF FlowsInv, ExecutionsSound, IsExecution, Flow!Top
<1>3. Flow!Top.exec \in Execs /\ Flow!Made(Flow!Top.exec)
  BY <1>2 DEF Flow!Frame, ExecutionAtStage
<1> QED BY <1>2, <1>3 DEF FlowsInv, Flow!TypeOK, Flow!Made, AllSound

\* A step after which the innermost call is still there, at the same or at another
\* stage, and its execution is as that stage says.
LEMMA ExecutionStageInv ==
  ASSUME FlowsInv, stack # <<>>, Flow!Top.kind = "execution",
         NEW stage \in {"starting", "step", "ending"}, NEW e \in Flow!Execution,
         e # NoExec, ResultsSound(e),
         stage \in {"starting", "step"} => e.status = "RUNNING",
         stage = "starting" => e.results = <<>>,
         stage = "ending" => e.status # "RUNNING",
         executions' = [executions EXCEPT ![Flow!Top.exec] = e], Flow!Enter(stage), Flow!TypeOK'
  PROVE  FlowsInv'
<1> DEFINE n == Len(stack)
           f == [Flow!Top EXCEPT !.stage = stage]
<1>1. /\ stack \in Seq(Flow!Frame \cup Sched!Frame)
      /\ n \in Nat /\ n >= 1 /\ n \in 1..n
      /\ IsExecution(n)
      /\ Flow!Top \in Flow!Frame
  <2>1. /\ stack \in Seq(Flow!Frame \cup Sched!Frame)
        /\ n \in Nat /\ n >= 1 /\ n \in 1..n
    BY StackTop DEF FlowsInv, ExecutionsSound
  <2>2. IsExecution(n)
    BY DEF Flow!Top, IsExecution
  <2> QED BY <2>1, <2>2, TopExecution
<1>2. f \in Flow!Frame /\ f \in Flow!Frame \cup Sched!Frame
      /\ f.exec = Flow!Top.exec /\ f.stage = stage /\ f.kind = "execution"
  BY <1>1 DEF Flow!Frame
<1>3. stack' = [stack EXCEPT ![n] = f]
  BY <1>1 DEF Flow!Enter, Flow!Top
<1>4. /\ stack' \in Seq(Flow!Frame \cup Sched!Frame)
      /\ Len(stack') = n
      /\ stack'[n] = f
      /\ \A i \in 1..n - 1 : stack'[i] = stack[i]
  BY <1>1, <1>2, <1>3, StackReplace
<1>5. \A i \in 1..n : i \in 1..n - 1 \/ i = n
  BY <1>1
<1>6. \A i \in 1..n : /\ IsExecution(i)' <=> IsExecution(i)
                      /\ IsExecution(i) => stack'[i].exec = stack[i].exec
  BY <1>1, <1>2, <1>4, <1>5 DEF Flow!Top, IsExecution
<1>7. \A y \in Execs : executions'[y] = IF y = Flow!Top.exec THEN e ELSE executions[y]
  BY <1>1 DEF FlowsInv, Flow!TypeOK
<1>8. /\ Flow!Top.exec \in Execs
      /\ \A i \in 1..n - 1 : IsExecution(i) => stack[i].exec \in Execs /\ stack[i].exec # Flow!Top.exec
  BY <1>1 DEF FlowsInv, ExecutionsSound, Flow!Top, Flow!Frame
<1>9. ExecutionsSound'
  <2>1. ASSUME NEW i \in 1..Len(stack'), NEW k \in 1..Len(stack'),
               IsExecution(i)', IsExecution(k)', stack'[i].exec = stack'[k].exec
        PROVE  i = k
    BY <1>4, <1>6, <2>1 DEF FlowsInv, ExecutionsSound
  <2>2. ASSUME NEW i \in 1..Len(stack'), IsExecution(i)'
        PROVE  stack'[i] \in Flow!Frame /\ ExecutionAtStage(stack[i])'
    <3>1. CASE i \in 1..n - 1
      <4>1. i \in 1..n /\ stack'[i] = stack[i] /\ IsExecution(i)
        BY <1>1, <1>4, <1>6, <2>2, <3>1
      <4>2. executions'[stack[i].exec] = executions[stack[i].exec]
        BY <1>7, <1>8, <3>1, <4>1
      <4> QED BY <4>1, <4>2 DEF FlowsInv, ExecutionsSound, ExecutionAtStage, Flow!Made
    <3>2. CASE i = n
      <4>1. stack'[i] = f /\ executions'[f.exec] = e
        BY <1>2, <1>4, <1>7, <1>8, <3>2
      <4> QED BY <1>2, <4>1 DEF ExecutionAtStage, Flow!Made
    <3> QED BY <1>4, <1>5, <3>1, <3>2
  <2> QED BY <1>4, <2>1, <2>2 DEF ExecutionsSound
<1>10. AllSound'
  BY <1>7 DEF FlowsInv, AllSound, Flow!Made
<1>11. Flow!AbandonedBeforeFirstStep'
  <2>1. \A y \in Execs : Flow!InProgress(y)' <=> Flow!InProgress(y)
    BY <1>4, <1>6 DEF Flow!InProgress, IsExecution
  <2>2. Flow!InProgress(Flow!Top.exec)
    BY <1>1 DEF Flow!InProgress, IsExecution, Flow!Top
  <2>3. ASSUME NEW y \in Execs, Flow!Made(y)', executions'[y].status = "RUNNING",
               ~Flow!InProgress(y)
        PROVE  executions'[y].results = <<>>
    BY <1>7, <2>2, <2>3 DEF FlowsInv, Flow!AbandonedBeforeFirstStep, Flow!Made
  <2> QED BY <2>1, <2>3 DEF Flow!AbandonedBeforeFirstStep
<1> QED BY <1>9, <1>10, <1>11 DEF FlowsInv

\* An execution that is RUNNING is left only before its first step.
LEMMA LeaveExecutionInv ==
  ASSUME FlowsInv, stack # <<>>, Flow!Top.kind = "execution",
         Flow!Top.stage \in {"starting", "ending"},
         Flow!Leave, UNCHANGED <<Flow!flowVars, Flow!execVars>>
  PROVE  FlowsInv'
<1> DEFINE n == Len(stack)
<1>1. /\ stack \in Seq(Flow!Frame \cup Sched!Frame)
      /\ n \in Nat /\ n >= 1 /\ n \in 1..n
  BY StackTop DEF FlowsInv, ExecutionsSound
<1>2. /\ stack' \in Seq(Flow!Frame \cup Sched!Frame)
      /\ Len(stack') = n - 1
      /\ \A i \in 1..Len(stack') : stack'[i] = stack[i]
  BY <1>1, StackPop DEF Flow!Leave
<1>3. /\ 1..Len(stack') \subseteq 1..n
      /\ \A i \in 1..n : i \in 1..Len(stack') \/ i = n
  BY <1>1, <1>2
<1>4. UNCHANGED <<created, workflows, executions, stored>>
  BY DEF Flow!flowVars, Flow!execVars
<1>5. ExecutionsSound'
  BY <1>2, <1>3, <1>4
     DEF FlowsInv, ExecutionsSound, IsExecution, ExecutionAtStage, Flow!Made
<1>6. Flow!TypeOK' /\ AllSound'
  BY <1>4 DEF FlowsInv, Flow!TypeOK, AllSound, Flow!Made
<1>7. \A y \in Execs : Flow!InProgress(y) => Flow!InProgress(y)' \/ y = Flow!Top.exec
  BY <1>2, <1>3 DEF Flow!InProgress, Flow!Top
<1>8. executions[Flow!Top.exec].status = "RUNNING" => executions[Flow!Top.exec].results = <<>>
  BY TopExecution DEF ExecutionAtStage
<1>9. Flow!AbandonedBeforeFirstStep'
  BY <1>4, <1>7, <1>8 DEF FlowsInv, Flow!AbandonedBeforeFirstStep, Flow!Made
<1> QED BY <1>5, <1>6, <1>9 DEF FlowsInv

LEMMA StartAnnouncedInv == ASSUME FlowsInv, Flow!StartAnnounced PROVE FlowsInv'
<1>1. /\ stack # <<>> /\ Flow!Top.kind = "execution" /\ Flow!Top.stage = "starting"
      /\ Flow!Enter("step")
      /\ UNCHANGED <<created, workflows, executions, stored>>
  BY DEF Flow!StartAnnounced, Flow!InExecution, Flow!flowVars, Flow!execVars
<1> DEFINE e == executions[Flow!Top.exec]
<1>2. /\ e \in Flow!Execution /\ Flow!Made(Flow!Top.exec) /\ ResultsSound(e) /\ e.status = "RUNNING"
      /\ Flow!Top.exec \in Execs
  BY <1>1, TopExecution DEF ExecutionAtStage
<1>3. executions' = [executions EXCEPT ![Flow!Top.exec] = e]
  BY <1>1 DEF FlowsInv, Flow!TypeOK
<1>4. Flow!TypeOK' /\ e # NoExec
  BY <1>1, <1>2 DEF FlowsInv, Flow!TypeOK, Flow!Made
<1> HIDE DEF e
<1> QED BY <1>1, <1>2, <1>3, <1>4, ExecutionStageInv

LEMMA StepGoesOnInv ==
  ASSUME Flow!WorkflowAssumption, FlowsInv, NEW outcome \in {"COMPLETED", "FAILED"},
         Flow!StepGoesOn(outcome)
  PROVE  FlowsInv'
<1> DEFINE e == executions[Flow!Top.exec]
           d == [e EXCEPT !.results = Append(e.results, outcome), !.status = "RUNNING"]
<1>1. /\ stack # <<>> /\ Flow!Top.kind = "execution" /\ Flow!Top.stage = "step"
      /\ ~Flow!Stops(Flow!Top.exec, outcome) /\ ~Flow!LastStep(Flow!Top.exec)
      /\ executions' = Flow!WithResult(Flow!Top.exec, outcome)
      /\ UNCHANGED <<created, workflows, stored, stack>>
  BY DEF Flow!StepGoesOn, Flow!InExecution, Flow!StepCaught, Flow!flowVars
<1>2. /\ e \in Flow!Execution /\ ResultsSound(e) /\ e.status = "RUNNING"
      /\ Flow!Top \in Flow!Frame /\ Flow!Top.exec \in Execs
  BY <1>1, TopExecution DEF ExecutionAtStage
<1>3. d \in Flow!Execution /\ d # NoExec /\ ResultsSound(d)
  BY <1>1, <1>2, ResultSound DEF Flow!Stops, Flow!LastStep, Flow!Steps
<1>4. d.status = "RUNNING"
  BY <1>2 DEF Flow!Execution
<1>5. executions' = [executions EXCEPT ![Flow!Top.exec] = d]
  <2>1. d = [e EXCEPT !.results = Append(e.results, outcome)]
    BY <1>2 DEF Flow!Execution
  <2> QED BY <1>1, <2>1 DEF Flow!WithResult
<1> HIDE DEF d, e
<1>6. Flow!TypeOK'
  BY <1>1, <1>2, <1>3, <1>5 DEF FlowsInv, Flow!TypeOK
<1>7. Flow!Enter("step")
  <2>1. stack \in Seq(Flow!Frame \cup Sched!Frame) /\ Len(stack) \in 1..Len(stack)
    BY <1>1, StackTop DEF FlowsInv, ExecutionsSound
  <2>2. [Flow!Top EXCEPT !.stage = "step"] = Flow!Top
    BY <1>1, <1>2 DEF Flow!Frame
  <2>3. stack = [stack EXCEPT ![Len(stack)] = Flow!Top]
    BY <2>1 DEF Flow!Top
  <2> QED BY <1>1, <2>2, <2>3 DEF Flow!Enter, Flow!Top
<1> QED BY <1>1, <1>3, <1>4, <1>5, <1>6, <1>7, ExecutionStageInv

LEMMA StepEndsInv ==
  ASSUME Flow!WorkflowAssumption, FlowsInv, NEW outcome \in {"COMPLETED", "FAILED"},
         Flow!StepEnds(outcome)
  PROVE  FlowsInv'
<1> DEFINE e == executions[Flow!Top.exec]
           s == Flow!FinalStatus(Flow!Top.exec, outcome)
           d == [e EXCEPT !.results = Append(e.results, outcome), !.status = s]
<1>1. /\ stack # <<>> /\ Flow!Top.kind = "execution" /\ Flow!Top.stage = "step"
      /\ Flow!Stops(Flow!Top.exec, outcome) \/ Flow!LastStep(Flow!Top.exec)
      /\ executions' = [Flow!WithResult(Flow!Top.exec, outcome) EXCEPT ![Flow!Top.exec].status = s]
      /\ stored' = stored \cup {Flow!Top.exec}
      /\ Flow!Enter("ending")
      /\ UNCHANGED <<created, workflows>>
  BY DEF Flow!StepEnds, Flow!InExecution, Flow!flowVars
<1>2. /\ e \in Flow!Execution /\ ResultsSound(e) /\ e.status = "RUNNING"
      /\ Flow!Top.exec \in Execs
  BY <1>1, TopExecution DEF ExecutionAtStage
<1>3. /\ s \in {"COMPLETED", "FAILED"}
      /\ s = "FAILED" <=> Flow!Stops(Flow!Top.exec, outcome)
  BY DEF Flow!FinalStatus
<1>4. executions' = [executions EXCEPT ![Flow!Top.exec] = d]
  BY <1>1, <1>2 DEF Flow!WithResult, FlowsInv, Flow!TypeOK
<1> HIDE DEF s
<1>5. d \in Flow!Execution /\ d # NoExec /\ ResultsSound(d)
  BY <1>1, <1>2, <1>3, ResultSound DEF Flow!Stops, Flow!LastStep, Flow!Steps
<1>6. d.status = s
  BY <1>2 DEF Flow!Execution
<1> HIDE DEF d, e
<1>7. Flow!TypeOK'
  BY <1>1, <1>2, <1>4, <1>5 DEF FlowsInv, Flow!TypeOK
<1> QED BY <1>1, <1>3, <1>4, <1>5, <1>6, <1>7, ExecutionStageInv

-------------------------------------------------------------------------------
\* Calls of other engines begin, go on and return between those of this one.
OutsideExecutions ==
  /\ UNCHANGED <<Flow!flowVars, Flow!execVars>>
  /\ \/ UNCHANGED stack
     \/ \E f \in Sched!Frame : stack' = Append(stack, f)
     \/ stack # <<>> /\ Flow!Top.kind # "execution" /\ Flow!Leave
     \/ /\ stack # <<>>
        /\ Flow!Top.kind # "execution"
        /\ \E f \in Sched!Frame : stack' = [stack EXCEPT ![Len(stack)] = f]

\* They leave every execution on its level.
LEMMA ExecutionsKept ==
  ASSUME FlowsInv, OutsideExecutions
  PROVE  /\ stack' \in Seq(Flow!Frame \cup Sched!Frame)
         /\ \A i \in 1..Len(stack') : IsExecution(i)' => i \in 1..Len(stack) /\ stack'[i] = stack[i]
         /\ \A i \in 1..Len(stack) : IsExecution(i) => i \in 1..Len(stack') /\ stack'[i] = stack[i]
<1>1. stack \in Seq(Flow!Frame \cup Sched!Frame)
  BY DEF FlowsInv, ExecutionsSound
<1>2. CASE UNCHANGED stack
  BY <1>1, <1>2
<1>3. ASSUME NEW f \in Sched!Frame, stack' = Append(stack, f)
      PROVE  /\ stack' \in Seq(Flow!Frame \cup Sched!Frame)
             /\ \A i \in 1..Len(stack') :
                  IsExecution(i)' => i \in 1..Len(stack) /\ stack'[i] = stack[i]
             /\ \A i \in 1..Len(stack) :
                  IsExecution(i) => i \in 1..Len(stack') /\ stack'[i] = stack[i]
  <2>1. /\ stack' \in Seq(Flow!Frame \cup Sched!Frame)
        /\ Len(stack) \in Nat
        /\ Len(stack') = Len(stack) + 1
        /\ stack'[Len(stack) + 1] = f
        /\ \A i \in 1..Len(stack) : stack'[i] = stack[i]
    BY <1>1, <1>3, StackPush
  <2>2. f.kind # "execution"
    BY TriggersAreNoFlows
  <2>3. \A i \in 1..Len(stack') : i \in 1..Len(stack) \/ i = Len(stack) + 1
    BY <2>1
  <2> QED BY <2>1, <2>2, <2>3 DEF IsExecution
<1>4. ASSUME stack # <<>>, Flow!Top.kind # "execution", Flow!Leave
      PROVE  /\ stack' \in Seq(Flow!Frame \cup Sched!Frame)
             /\ \A i \in 1..Len(stack') :
                  IsExecution(i)' => i \in 1..Len(stack) /\ stack'[i] = stack[i]
             /\ \A i \in 1..Len(stack) :
                  IsExecution(i) => i \in 1..Len(stack') /\ stack'[i] = stack[i]
  <2>1. /\ stack' \in Seq(Flow!Frame \cup Sched!Frame)
        /\ Len(stack') = Len(stack) - 1
        /\ \A i \in 1..Len(stack') : stack'[i] = stack[i]
    BY <1>1, <1>4, StackPop DEF Flow!Leave
  <2>2. Len(stack) \in Nat /\ Len(stack) >= 1
    BY <1>1, <1>4, StackTop
  <2>3. /\ 1..Len(stack') \subseteq 1..Len(stack)
        /\ \A i \in 1..Len(stack) : i \in 1..Len(stack') \/ i = Len(stack)
    BY <2>1, <2>2
  <2>4. ~IsExecution(Len(stack))
    BY <1>4 DEF Flow!Top, IsExecution
  <2> QED BY <2>1, <2>3, <2>4
<1>5. ASSUME stack # <<>>, Flow!Top.kind # "execution",
             NEW f \in Sched!Frame, stack' = [stack EXCEPT ![Len(stack)] = f]
      PROVE  /\ stack' \in Seq(Flow!Frame \cup Sched!Frame)
             /\ \A i \in 1..Len(stack') :
                  IsExecution(i)' => i \in 1..Len(stack) /\ stack'[i] = stack[i]
             /\ \A i \in 1..Len(stack) :
                  IsExecution(i) => i \in 1..Len(stack') /\ stack'[i] = stack[i]
  <2>1. /\ stack' \in Seq(Flow!Frame \cup Sched!Frame)
        /\ Len(stack') = Len(stack)
        /\ stack'[Len(stack)] = f
        /\ \A i \in 1..Len(stack) - 1 : stack'[i] = stack[i]
    BY <1>1, <1>5, StackReplace
  <2>2. \A i \in 1..Len(stack) : i \in 1..Len(stack) - 1 \/ i = Len(stack)
    BY <1>1, <1>5, StackTop
  <2>3. f.kind # "execution" /\ ~IsExecution(Len(stack))
    BY <1>5, TriggersAreNoFlows DEF Flow!Top, IsExecution
  <2> QED BY <2>1, <2>2, <2>3 DEF IsExecution
<1> QED BY <1>2, <1>3, <1>4, <1>5 DEF OutsideExecutions

LEMMA OutsideExecutionsInv ==
  ASSUME FlowsInv, OutsideExecutions
  PROVE  FlowsInv'
<1>1. /\ stack' \in Seq(Flow!Frame \cup Sched!Frame)
      /\ \A i \in 1..Len(stack') : IsExecution(i)' => i \in 1..Len(stack) /\ stack'[i] = stack[i]
      /\ \A i \in 1..Len(stack) : IsExecution(i) => i \in 1..Len(stack') /\ stack'[i] = stack[i]
  BY ExecutionsKept
<1>2. UNCHANGED <<created, workflows, executions, stored>>
  BY DEF OutsideExecutions, Flow!flowVars, Flow!execVars
<1>3. \A i \in 1..Len(stack') : IsExecution(i)' => IsExecution(i) /\ ExecutionAtStage(stack[i])'
  <2> SUFFICES ASSUME NEW i \in 1..Len(stack'), IsExecution(i)'
               PROVE  IsExecution(i) /\ ExecutionAtStage(stack[i])'
    OBVIOUS
  <2>1. i \in 1..Len(stack) /\ stack'[i] = stack[i] /\ IsExecution(i)
    BY <1>1 DEF IsExecution
  <2> QED BY <1>2, <2>1 DEF FlowsInv, ExecutionsSound, ExecutionAtStage, Flow!Made
<1>4. ExecutionsSound'
  <2>1. ASSUME NEW i \in 1..Len(stack'), NEW k \in 1..Len(stack'),
               IsExecution(i)', IsExecution(k)', stack'[i].exec = stack'[k].exec
        PROVE  i = k
    BY <1>1, <1>3, <2>1 DEF FlowsInv, ExecutionsSound
  <2>2. \A i \in 1..Len(stack') : IsExecution(i)' => stack'[i] \in Flow!Frame
    BY <1>1, <1>3 DEF FlowsInv, ExecutionsSound
  <2> QED BY <1>1, <1>3, <2>1, <2>2 DEF ExecutionsSound
<1>5. \A x \in Execs : Flow!InProgress(x)' <=> Flow!InProgress(x)
  BY <1>1, <1>3 DEF Flow!InProgress, IsExecution
<1>6. Flow!TypeOK' /\ AllSound'
  BY <1>2 DEF FlowsInv, Flow!TypeOK, AllSound, Flow!Made
<1>7. Flow!AbandonedBeforeFirstStep'
  BY <1>2, <1>5 DEF FlowsInv, Flow!AbandonedBeforeFirstStep, Flow!Made
<1> QED BY <1>4, <1>6, <1>7 DEF FlowsInv

LEMMA FlowsStepInv == ASSUME Flow!WorkflowAssumption PROVE FlowsInv /\ [Flow!Next]_Flow!vars => FlowsInv'
<1> SUFFICES ASSUME FlowsInv, [Flow!Next]_Flow!vars PROVE FlowsInv'
  OBVIOUS
<1>1. ASSUME NEW w \in Flows, Flow!Create(w) \/ Flow!Delete(w) PROVE FlowsInv'
  <2>1. Flow!TypeOK' /\ UNCHANGED <<executions, stack>>
    BY <1>1 DEF FlowsInv, Flow!TypeOK, Flow!Create, Flow!Delete, Flow!execVars
  <2> QED BY <2>1, ExecutionFrameInv
<1>2. ASSUME NEW w \in Flows, NEW x \in Execs, Flow!Execute(w, x) PROVE FlowsInv'
  BY <1>2, ExecuteInv
<1>3. CASE Flow!Clear \/ UNCHANGED Flow!vars
  <2>1. Flow!TypeOK' /\ UNCHANGED <<executions, stack>>
    BY <1>3 DEF FlowsInv, Flow!TypeOK, Flow!Clear, Flow!vars, Flow!flowVars, Flow!execVars
  <2> QED BY <2>1, ExecutionFrameInv
<1>4. CASE Flow!StartAnnounced
  BY <1>4, StartAnnouncedInv
<1>5. CASE Flow!StartRaises \/ Flow!ExecuteLeaves
  BY <1>5, LeaveExecutionInv DEF Flow!StartRaises, Flow!ExecuteLeaves, Flow!InExecution
<1>6. ASSUME NEW outcome \in {"COMPLETED", "FAILED"},
             Flow!StepGoesOn(outcome) PROVE FlowsInv'
  BY <1>6, StepGoesOnInv
<1>7. ASSUME NEW outcome \in {"COMPLETED", "FAILED"}, Flow!StepEnds(outcome) PROVE FlowsInv'
  BY <1>7, StepEndsInv
<1> QED BY <1>1, <1>2, <1>3, <1>4, <1>5, <1>6, <1>7 DEF Flow!Next, Flow!Call, Flow!Proceed

\* What the invariant says in the terms of the specification.
LEMMA FlowsConsequences ==
  FlowsInv => Flow!TypeOK /\ Flow!StatusTellsResults /\ Flow!AbandonedBeforeFirstStep
BY EachExecution DEF FlowsInv, AllSound

-------------------------------------------------------------------------------
(* Steps of one engine, seen from the other                                    *)

\* Whatever the scheduler does is a call of another engine to the workflows.
LEMMA SchedulerMove ==
  ASSUME JobsInv, Sched!Next, UNCHANGED workflowVars
  PROVE  OutsideExecutions
<1>1. UNCHANGED <<Flow!flowVars, Flow!execVars>>
  BY DEF workflowVars, Flow!flowVars, Flow!execVars
<1>2. ASSUME NEW j \in Jobs, Sched!Schedule(j) \/ Sched!Pause(j) \/ Sched!Resume(j) \/ Sched!Cancel(j)
      PROVE  UNCHANGED stack
  BY <1>2 DEF Sched!Schedule, Sched!Pause, Sched!Resume, Sched!Cancel, Sched!SetStatus
<1>3. ASSUME NEW j \in Jobs, NEW x \in Runs, Sched!Trigger(j, x)
      PROVE  \E f \in Sched!Frame : stack' = Append(stack, f)
  <2>1. [kind |-> "trigger", run |-> x, stage |-> "handling"] \in Sched!Frame
    BY DEF Sched!Frame
  <2> QED BY <1>3, <2>1 DEF Sched!Trigger
<1>4. CASE Sched!Clear
  BY <1>1, <1>4 DEF Sched!Clear, OutsideExecutions
<1>5. ASSUME Sched!HandlerReturns \/ Sched!RunRaises
      PROVE  /\ stack # <<>>
             /\ Flow!Top.kind # "execution"
             /\ \E f \in Sched!Frame : stack' = [stack EXCEPT ![Len(stack)] = f]
  <2>1. /\ stack # <<>> /\ Sched!Top.kind = "trigger"
        /\ \E stage \in {"executed", "failed"} : Sched!Enter(stage)
    BY <1>5 DEF Sched!HandlerReturns, Sched!RunRaises, Sched!InTrigger
  <2>2. PICK stage \in {"executed", "failed"} : Sched!Enter(stage)
    BY <2>1
  <2>3. stack \in Seq(Sched!Frame \cup Flow!Frame)
    BY DEF JobsInv, TriggersSound
  <2>4. Len(stack) \in 1..Len(stack)
    BY <2>1, <2>3, StackTop
  <2>5. stack[Len(stack)] \in Sched!Frame
    BY <2>1, <2>4 DEF JobsInv, TriggersSound, IsTrigger, Sched!Top
  <2>6. [stack[Len(stack)] EXCEPT !.stage = stage] \in Sched!Frame
    BY <2>5 DEF Sched!Frame
  <2>7. stack' = [stack EXCEPT ![Len(stack)] = [stack[Len(stack)] EXCEPT !.stage = stage]]
    BY <2>2, <2>3, <2>4 DEF Sched!Enter
  <2>8. Flow!Top.kind # "execution"
    BY <2>1 DEF Sched!Top, Flow!Top
  <2> QED BY <2>1, <2>6, <2>7, <2>8
<1>6. ASSUME Sched!TriggerReturns \/ Sched!TriggerRaises
      PROVE  stack # <<>> /\ Flow!Top.kind # "execution" /\ Flow!Leave
  BY <1>6 DEF Sched!TriggerReturns, Sched!TriggerRaises, Sched!InTrigger, Sched!Top,
              Sched!Leave, Flow!Top, Flow!Leave
<1> QED BY <1>1, <1>2, <1>3, <1>4, <1>5, <1>6 DEF Sched!Next, Sched!Call, Sched!Proceed, OutsideExecutions

\* Whatever the workflows do is a call of another engine to the scheduler.
LEMMA WorkflowMove ==
  ASSUME FlowsInv, Flow!Next, UNCHANGED schedulerVars
  PROVE  OutsideTriggers
<1>1. UNCHANGED <<Sched!jobVars, Sched!recordVars>>
  BY DEF schedulerVars, Sched!jobVars, Sched!recordVars
<1>2. ASSUME NEW w \in Flows, Flow!Create(w) \/ Flow!Delete(w)
      PROVE  UNCHANGED stack
  BY <1>2 DEF Flow!Create, Flow!Delete
<1>3. ASSUME NEW w \in Flows, NEW x \in Execs, Flow!Execute(w, x)
      PROVE  \E f \in Flow!Frame : stack' = Append(stack, f)
  <2>1. [kind |-> "execution", exec |-> x, stage |-> "starting"] \in Flow!Frame
    BY DEF Flow!Frame
  <2> QED BY <1>3, <2>1 DEF Flow!Execute
<1>4. CASE Flow!Clear \/ \E outcome \in {"COMPLETED", "FAILED"} : Flow!StepGoesOn(outcome)
  BY <1>1, <1>4 DEF Flow!Clear, Flow!StepGoesOn, Flow!StepCaught, OutsideTriggers
<1>5. ASSUME Flow!StartAnnounced \/ \E outcome \in {"COMPLETED", "FAILED"} : Flow!StepEnds(outcome)
      PROVE  /\ stack # <<>>
             /\ Sched!Top.kind # "trigger"
             /\ \E f \in Flow!Frame : stack' = [stack EXCEPT ![Len(stack)] = f]
  <2>1. /\ stack # <<>> /\ Flow!Top.kind = "execution"
        /\ \E stage \in {"step", "ending"} : Flow!Enter(stage)
    BY <1>5 DEF Flow!StartAnnounced, Flow!StepEnds, Flow!InExecution
  <2>2. PICK stage \in {"step", "ending"} : Flow!Enter(stage)
    BY <2>1
  <2>3. stack \in Seq(Flow!Frame \cup Sched!Frame)
    BY DEF FlowsInv, ExecutionsSound
  <2>4. Len(stack) \in 1..Len(stack)
    BY <2>1, <2>3, StackTop
  <2>5. stack[Len(stack)] \in Flow!Frame
    BY <2>1, <2>4 DEF FlowsInv, ExecutionsSound, IsExecution, Flow!Top
  <2>6. [stack[Len(stack)] EXCEPT !.stage = stage] \in Flow!Frame
    BY <2>5 DEF Flow!Frame
  <2>7. stack' = [stack EXCEPT ![Len(stack)] = [stack[Len(stack)] EXCEPT !.stage = stage]]
    BY <2>2, <2>3, <2>4 DEF Flow!Enter
  <2>8. Sched!Top.kind # "trigger"
    BY <2>1 DEF Sched!Top, Flow!Top
  <2> QED BY <2>1, <2>6, <2>7, <2>8
<1>6. ASSUME Flow!StartRaises \/ Flow!ExecuteLeaves
      PROVE  stack # <<>> /\ Sched!Top.kind # "trigger" /\ Sched!Leave
  BY <1>6 DEF Flow!StartRaises, Flow!ExecuteLeaves, Flow!InExecution, Flow!Top, Flow!Leave,
              Sched!Top, Sched!Leave
<1> QED BY <1>1, <1>2, <1>3, <1>4, <1>5, <1>6 DEF Flow!Next, Flow!Call, Flow!Proceed, OutsideTriggers

-------------------------------------------------------------------------------
(* The invariant of both                                                       *)

IInv == JobsInv /\ Counted /\ FlowsInv

LEMMA InitInv == Init => IInv
<1> SUFFICES ASSUME Init PROVE IInv
  OBVIOUS
<1>1. Sched!Init /\ Flow!Init
  BY DEF Init
<1> QED BY <1>1, JobsInit, InitCounted, FlowsInit, AutomationAssumption DEF IInv

\* A step of the other engine keeps the invariant and the counters of this one.
LEMMA CountedMove ==
  ASSUME Counted, OutsideTriggers
  PROVE  Counted'
BY SameOutcomes DEF OutsideTriggers, Sched!jobVars, Sched!recordVars, Sched!Returned, Sched!Failed,
                    Sched!Ended, Sched!Of

\* Every step is one of an engine, and the other engine's part is as it was.
LEMMA EveryStep ==
  [Next]_vars => \/ Sched!Next /\ UNCHANGED workflowVars
                 \/ Flow!Next /\ UNCHANGED schedulerVars
                 \/ UNCHANGED vars
BY DEF Next, SchedulerStep, WorkflowStep

LEMMA NextInv == IInv /\ [Next]_vars => IInv'
<1> SUFFICES ASSUME IInv, [Next]_vars PROVE IInv'
  OBVIOUS
<1>1. CASE Sched!Next /\ UNCHANGED workflowVars
  <2>1. JobsInv' /\ Counted'
    BY <1>1, JobsStepInv, NextCounted, AutomationAssumption DEF IInv
  <2>2. FlowsInv'
    BY <1>1, SchedulerMove, OutsideExecutionsInv, AutomationAssumption DEF IInv
  <2> QED BY <2>1, <2>2 DEF IInv
<1>2. CASE Flow!Next /\ UNCHANGED schedulerVars
  <2>1. FlowsInv'
    BY <1>2, FlowsStepInv, AutomationAssumption DEF IInv
  <2>2. OutsideTriggers
    BY <1>2, WorkflowMove DEF IInv
  <2>3. JobsInv' /\ Counted'
    BY <2>2, OutsideTriggersInv, CountedMove, AutomationAssumption DEF IInv
  <2> QED BY <2>1, <2>3 DEF IInv
<1>3. CASE UNCHANGED vars
  <2>1. UNCHANGED Sched!vars /\ UNCHANGED Flow!vars
    BY <1>3 DEF vars, schedulerVars, workflowVars, Sched!vars, Sched!jobVars, Sched!recordVars,
                Flow!vars, Flow!flowVars, Flow!execVars
  <2>2. JobsInv' /\ Counted'
    BY <2>1, JobsStepInv, NextCounted, AutomationAssumption DEF IInv
  <2>3. FlowsInv'
    BY <2>1, FlowsStepInv, AutomationAssumption DEF IInv
  <2> QED BY <2>2, <2>3 DEF IInv
<1> QED BY <1>1, <1>2, <1>3, EveryStep

\* What the invariant says in the terms of Automation.
LEMMA InvConsequences ==
  IInv => /\ RunsAreCounted /\ RunsAreRecorded
          /\ StatusTellsResults /\ AbandonedBeforeFirstStep
          /\ TypeOK
<1> SUFFICES ASSUME IInv
             PROVE  /\ RunsAreCounted /\ RunsAreRecorded
                    /\ StatusTellsResults /\ AbandonedBeforeFirstStep
                    /\ TypeOK
  OBVIOUS
<1>1. RunsAreCounted /\ RunsAreRecorded
  BY CountsEnded, AutomationAssumption DEF IInv, JobsInv, RunsAreCounted, RunsAreRecorded
<1>2. Flow!TypeOK /\ Flow!StatusTellsResults /\ Flow!AbandonedBeforeFirstStep
  BY FlowsConsequences DEF IInv
<1>3. StatusTellsResults /\ AbandonedBeforeFirstStep
  BY <1>2 DEF StatusTellsResults, AbandonedBeforeFirstStep
<1>4. TypeOK
  BY <1>2 DEF IInv, JobsInv, TriggersSound, TypeOK
<1> QED BY <1>1, <1>3, <1>4

-------------------------------------------------------------------------------
(* The theorems                                                                *)

\* Both engines are well typed, and the stack holds their frames and no others.
THEOREM TypeCorrect == Spec => []TypeOK
BY InitInv, NextInv, InvConsequences, PTL DEF Spec

\* No run of a job is left out of its counters, and only one that a listener made fail
\* after the handler had returned may be in them twice, also when jobs and workflows
\* run inside one another.
THEOREM NoRunGoesUncounted == Spec => []RunsAreCounted
BY InitInv, NextInv, InvConsequences, PTL DEF Spec

\* Every execution of a job is in progress, in the history once, or forgotten,
\* whatever workflows it executes and is executed by.
THEOREM EveryRunIsRecorded == Spec => []RunsAreRecorded
BY InitInv, NextInv, InvConsequences, PTL DEF Spec

\* The status of every execution of a workflow sums up its step results, whatever
\* jobs its steps trigger.
THEOREM StatusIsSummary == Spec => []StatusTellsResults
BY InitInv, NextInv, InvConsequences, PTL DEF Spec

\* Only executions given up before their first step stay RUNNING with nobody to
\* run them.
THEOREM NoneIsAbandonedLater == Spec => []AbandonedBeforeFirstStep
BY InitInv, NextInv, InvConsequences, PTL DEF Spec

\* A step of either engine leaves a cancelled job cancelled and not run.
LEMMA CancelledStep ==
  ASSUME IInv, [Next]_vars, NEW j \in Jobs, status[j] = "CANCELLED"
  PROVE  status'[j] = "CANCELLED" /\ Sched!Of(j)' = Sched!Of(j)
<1>1. CASE Sched!Next
  BY <1>1, CancelledJobStep, AutomationAssumption DEF IInv
<1>2. CASE UNCHANGED schedulerVars
  BY <1>2 DEF schedulerVars, Sched!Of
<1> QED BY <1>1, <1>2, EveryStep DEF vars

\* A cancelled job is never run again, not by its own handlers and listeners nor by
\* the step of a workflow.
THEOREM CancellingIsFinal == Spec => CancelledIsFinal
<1>1. IInv /\ [Next]_vars =>
        [\A j \in Jobs :
           status[j] = "CANCELLED" =>
             status'[j] = "CANCELLED" /\ Sched!Of(j)' = Sched!Of(j)]_Sched!vars
  BY CancelledStep
<1> QED BY <1>1, InitInv, NextInv, PTL DEF Spec, CancelledIsFinal, Sched!CancelledIsFinal

\* The scheduler keeps its properties as a specification of its own, where no other
\* engine's calls are on the stack.
THEOREM SchedulerAlone ==
  Sched!Spec => [](Sched!TypeOK /\ Sched!RunsAreCounted /\ Sched!RunsAreRecorded)
<1>1. JobsInv => Sched!TypeOK /\ Sched!RunsAreRecorded
  BY DEF JobsInv
<1>2. JobsInv /\ Counted => Sched!RunsAreCounted
  BY CountsEnded, AutomationAssumption
<1> QED BY <1>1, <1>2, AutomationAssumption, JobsInit, JobsStepInv, InitCounted, NextCounted, PTL
        DEF Sched!Spec

\* And so do the workflows, where no jobs run.
THEOREM WorkflowsAlone ==
  Flow!Spec => [](Flow!TypeOK /\ Flow!StatusTellsResults /\ Flow!AbandonedBeforeFirstStep)
BY AutomationAssumption, FlowsInit, FlowsStepInv, FlowsConsequences, PTL DEF Flow!Spec
===============================================================================
