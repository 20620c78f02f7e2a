-------------------------------- MODULE Traffic --------------------------------
(* The engines of APIService that pass traffic or hold it back: the stream     *)
(* router, the rate limits of one client and one circuit of the resilience     *)
(* manager.  They share no state and never call one another, so that what one  *)
(* of them may do does not depend on the others: a behaviour here is one of    *)
(* any one of them, chosen at the start.                                       *)
EXTENDS Integers, Sequences, FiniteSets

CONSTANTS
  Messages, Topics, Groups, Kinds, SubIds, NoMessage, NoEntry, NoSub,
  RetentionLimit, DefaultRetries, RetryChoices, PollLimits,
  MaxDeadLetters,                                            \* see StreamRouter
  Names, Unknown, Standard, Fallback, NoRule, NoBucket, NoPromise,
  RuleChoices, StandardRule, FallbackRule, RateFloor, Costs, BanTimes,
  MaxClock,                                                  \* see Throttler
  Calls, FailureThreshold, SuccessThreshold, RecoveryTimeout \* see Resilience

VARIABLES
  engine,      \* the engine that is called
  messages, index, dlq, subs, used, dead_lettered, replayed, acked, again,
  clock, rules, buckets, logs, ban, admitted, promise,
  state, failures, successes, waited, calls, healthy

streamVars == <<messages, index, dlq, subs, used, dead_lettered, replayed, acked, again>>
limitVars == <<clock, rules, buckets, logs, ban, admitted, promise>>
circuitVars == <<state, failures, successes, waited, calls, healthy>>
vars == <<engine, streamVars, limitVars, circuitVars>>

Streams == INSTANCE StreamRouter
Limits == INSTANCE Throttler
Circuits == INSTANCE Resilience

ASSUME TrafficAssumption ==
  /\ Streams!RouterAssumption
  /\ Limits!ThrottlerAssumption
  /\ Circuits!CircuitAssumption

Engines == {"streams", "limits", "circuits"}

Init ==
  /\ engine \in Engines
  /\ Streams!Init
  /\ Limits!Init
  /\ Circuits!Init

StreamStep ==
  /\ engine = "streams"
  /\ Streams!Next
  /\ UNCHANGED <<engine, limitVars, circuitVars>>

LimitStep ==
  /\ engine = "limits"
  /\ Limits!Next
  /\ UNCHANGED <<engine, streamVars, circuitVars>>

CircuitStep ==
  /\ engine = "circuits"
  /\ Circuits!Next
  /\ UNCHANGED <<engine, streamVars, limitVars>>

Next ==
  \/ StreamStep
  \/ LimitStep
  \/ CircuitStep

Spec == Init /\ [][Next]_vars

-------------------------------------------------------------------------------
\* Every engine is well typed.
TypeOK == Streams!TypeOK /\ Limits!TypeOK /\ Circuits!TypeOK

\* The index of a topic lists the stored messages of the topic, each once.
IndexConsistent == Streams!IndexConsistent

\* A dead message waits in the dead letter queue.
DeadLettersWait == Streams!DeadLettersWait

\* A replay answers one dead-lettering.
ReplayedOnce == Streams!ReplayedOnce

\* Only replays take a topic over its retention limit.
OverflowOnlyByReplay == Streams!OverflowOnlyByReplay

\* A group gets again what it has acknowledged only after the message died.
RedeliveredOnlyAfterDeath == Streams!RedeliveredOnlyAfterDeath

\* No window admits more than the capacity of its rule.
WindowBound == Limits!WindowBound

\* No stretch of time admits more than the capacity and what is refilled in it.
BucketBound == Limits!BucketBound

\* Who waits a hundredth of a second longer than retry_after says is admitted.
RetryHonoured == Limits!RetryHonoured

\* A closed circuit has not seen the failures that open it.
ClosedBelowThreshold == Circuits!ClosedBelowThreshold

\* An open circuit stays open, and open as long, whatever running calls end in.
OpenIgnoresLateCalls == Circuits!OpenIgnoresLateCalls
===============================================================================
