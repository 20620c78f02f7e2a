------------------------------ MODULE Resilience ------------------------------
(* One circuit of ResilienceManager, src/src/resilience.py.  Circuits share no *)
(* state, so one stands for all.                                               *)
(*                                                                             *)
(* execute looks at the circuit, runs the handler, and records the outcome on  *)
(* the circuit it looked at.  While the handler runs anything may happen to    *)
(* the circuit: other calls, from the handler itself or from other threads,    *)
(* end and trip it; time passes; it is reset, or cleared and created anew.     *)
(* The counters that only feed get_stats are left out.                         *)
EXTENDS Naturals

CONSTANTS
  Calls,               \* executions that can be in progress at once
  FailureThreshold, SuccessThreshold, RecoveryTimeout

\* What the constants are, assumed by the modules that use this one.
CircuitAssumption ==
  FailureThreshold \in Nat \ {0} /\ SuccessThreshold \in Nat /\ RecoveryTimeout \in Nat \ {0}

VARIABLES
  state,       \* circuit.state, or "NONE" when there is no circuit of that name
  failures,    \* consecutive_failures: above the threshold all values act alike
  successes,   \* consecutive_successes
  waited,      \* time since last_state_change, up to the recovery timeout
  calls,       \* what each call is doing, and how its handler will end
  healthy      \* the environment: from now on handlers and listeners succeed and
               \* nobody interferes

circuitVars == <<state, failures, successes, waited>>
vars == <<state, failures, successes, waited, calls, healthy>>

Running == {"succeeds", "fails"}

Init ==
  /\ state = "NONE"
  /\ failures = 0
  /\ successes = 0
  /\ waited = 0
  /\ calls = [c \in Calls |-> "idle"]
  /\ healthy = FALSE

-------------------------------------------------------------------------------
(* _check_and_update_state and _transition_state, as the circuit's next state  *)
(* given the present one                                                       *)

Circuit == [state |-> state, failures |-> failures, successes |-> successes, waited |-> waited]

\* Mutant: the failures that opened the circuit are kept when it closes.
BecomesClosedKeeping(c) == [c EXCEPT !.state = "CLOSED", !.successes = 0, !.waited = 0]

BecomesHalfOpen(c) == [c EXCEPT !.state = "HALF_OPEN", !.successes = 0, !.waited = 0]
BecomesOpen(c) == [c EXCEPT !.state = "OPEN", !.waited = 0]
BecomesClosed(c) == [c EXCEPT !.state = "CLOSED", !.failures = 0, !.successes = 0, !.waited = 0]

\* What get_circuit makes of an open circuit whose timeout has passed.
Checked(c) ==
  IF c.state = "OPEN" /\ c.waited >= RecoveryTimeout THEN BecomesHalfOpen(c) ELSE c

OneMore(c) == IF c.failures < FailureThreshold THEN c.failures + 1 ELSE c.failures

\* Mutant: the threshold opens the circuit in every state, and so once more.
FailedAnywhere(c) ==
  LET d == [c EXCEPT !.failures = OneMore(c)]
  IN  IF d.state = "HALF_OPEN" \/ d.failures >= FailureThreshold THEN BecomesOpen(d) ELSE d

Failed(c) ==
  LET d == [c EXCEPT !.failures = OneMore(c)]
  IN  IF \/ d.state = "HALF_OPEN"
         \/ d.state = "CLOSED" /\ d.failures >= FailureThreshold
      THEN BecomesOpen(d) ELSE d

\* Mutant: successes of probes are not counted.
SucceededUncounted(c) == [c EXCEPT !.failures = 0]

Succeeded(c) ==
  LET d == [c EXCEPT !.failures = 0,
                     !.successes = IF c.state = "HALF_OPEN" THEN @ + 1 ELSE @]
  IN  IF d.state = "HALF_OPEN" /\ d.successes >= SuccessThreshold THEN BecomesClosed(d) ELSE d

Becomes(c) ==
  /\ state' = c.state
  /\ failures' = c.failures
  /\ successes' = c.successes
  /\ waited' = c.waited

Exists == state # "NONE"

-------------------------------------------------------------------------------
(* create_circuit, clear                                                       *)

Create ==
  /\ ~Exists
  /\ Becomes([state |-> "CLOSED", failures |-> 0, successes |-> 0, waited |-> 0])
  /\ UNCHANGED <<calls, healthy>>

\* The calls in progress keep a circuit that nobody can look up any more.
Clear ==
  /\ Exists
  /\ ~healthy
  /\ Becomes([state |-> "NONE", failures |-> 0, successes |-> 0, waited |-> 0])
  /\ calls' = [c \in Calls |-> IF calls[c] \in Running THEN "orphan" ELSE calls[c]]
  /\ UNCHANGED healthy

-------------------------------------------------------------------------------
(* get_circuit, list_circuits, get_stats, trip_circuit, reset_circuit          *)

Look ==
  /\ Exists
  /\ Becomes(Checked(Circuit))
  /\ UNCHANGED <<calls, healthy>>

Trip ==
  /\ Exists
  /\ ~healthy
  /\ Becomes(BecomesOpen(Checked(Circuit)))
  /\ UNCHANGED <<calls, healthy>>

Reset ==
  /\ Exists
  /\ Becomes(BecomesClosed(Checked(Circuit)))
  /\ UNCHANGED <<calls, healthy>>

-------------------------------------------------------------------------------
(* execute                                                                     *)

\* The circuit is open: the fallback is the answer and no handler runs.
Reject ==
  /\ Exists
  /\ Checked(Circuit).state = "OPEN"
  /\ UNCHANGED vars

Start(c, outcome) ==
  /\ Exists
  /\ calls[c] = "idle"
  /\ outcome = "fails" => ~healthy
  /\ Checked(Circuit).state # "OPEN"
  /\ Becomes(Checked(Circuit))
  /\ calls' = [calls EXCEPT ![c] = outcome]
  /\ UNCHANGED healthy

Ends(c) == calls' = [calls EXCEPT ![c] = "idle"]

EndSuccess(c) ==
  /\ calls[c] = "succeeds"
  /\ Becomes(Succeeded(Circuit))
  /\ Ends(c)
  /\ UNCHANGED healthy

\* The call that closes the circuit announces it inside the try block: when a
\* listener raises, the call goes on to record a failure, whatever became of the
\* circuit while the listeners ran.
EndSuccessRaises(c) ==
  /\ calls[c] = "succeeds"
  /\ ~healthy
  /\ state = "HALF_OPEN"
  /\ Succeeded(Circuit).state = "CLOSED"
  /\ Becomes(Succeeded(Circuit))
  /\ calls' = [calls EXCEPT ![c] = "fails"]
  /\ UNCHANGED healthy

EndFailure(c) ==
  /\ calls[c] = "fails"
  /\ Becomes(Failed(Circuit))
  /\ Ends(c)
  /\ UNCHANGED healthy

\* The outcome is recorded on the circuit that was cleared away.
EndOrphan(c) ==
  /\ calls[c] = "orphan"
  /\ Ends(c)
  /\ UNCHANGED <<circuitVars, healthy>>

End(c) == EndSuccess(c) \/ EndSuccessRaises(c) \/ EndFailure(c) \/ EndOrphan(c)

-------------------------------------------------------------------------------
Tick ==
  /\ Exists
  /\ waited < RecoveryTimeout
  /\ waited' = waited + 1
  /\ UNCHANGED <<state, failures, successes, calls, healthy>>

\* The service behind the circuit recovers.
Heal ==
  /\ Exists
  /\ ~healthy
  /\ healthy' = TRUE
  /\ UNCHANGED <<circuitVars, calls>>

Next ==
  \/ Create
  \/ Clear
  \/ Look
  \/ Trip
  \/ Reset
  \/ Reject
  \/ \E c \in Calls, outcome \in Running : Start(c, outcome)
  \/ \E c \in Calls : End(c)
  \/ Tick
  \/ Heal

Spec == Init /\ [][Next]_vars

\* Time passes, callers keep calling, and handlers return.
Fairness ==
  /\ WF_vars(Tick)
  /\ \A c \in Calls : WF_vars(Start(c, "succeeds")) /\ WF_vars(End(c))

FairSpec == Spec /\ Fairness

-------------------------------------------------------------------------------
TypeOK ==
  /\ state \in {"NONE", "CLOSED", "OPEN", "HALF_OPEN"}
  /\ failures \in 0..FailureThreshold
  /\ successes \in Nat
  /\ waited \in 0..RecoveryTimeout
  /\ calls \in [Calls -> {"idle", "succeeds", "fails", "orphan"}]
  /\ healthy \in BOOLEAN

\* A closed circuit has not yet seen the failures that open it, whichever calls
\* end in it, from whatever state they were started.
ClosedBelowThreshold == state = "CLOSED" => failures < FailureThreshold

\* An open circuit is closed only by hand, and waits for its timeout from when it was
\* opened: the outcome of a call that was still running then neither closes it nor
\* puts its probes off.
OpenIgnoresLateCalls ==
  [][(state = "OPEN" /\ \E c \in Calls : calls[c] # "idle" /\ calls'[c] = "idle")
       => state' = "OPEN" /\ waited' = waited]_vars

\* Once the service has recovered the circuit closes for good, also when it is
\* open and calls that will fail are still in progress.
Recovers == healthy ~> [](state = "CLOSED")
===============================================================================
