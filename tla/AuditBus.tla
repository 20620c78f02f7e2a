------------------------------- MODULE AuditBus -------------------------------
(* AuditLogManager on the EventDispatcher: record_event appends its record and *)
(* then publishes audit_event_logged, whose listeners may subscribe,           *)
(* unsubscribe, record further events, clear the trail, and raise.  Every      *)
(* publication of the event comes from record_event.                           *)
EXTENDS Naturals, FiniteSets, Sequences

CONSTANTS Listeners, MaxListeners, MaxDepth, MaxRemovals, Details, MaxRecords

VARIABLES listeners, walks, auditRecords, lastHash, recorded

busVars == <<listeners, walks>>
trailVars == <<auditRecords, lastHash, recorded>>
vars == <<busVars, trailVars>>

Bus == INSTANCE EventBus
Trail == INSTANCE Audit

ASSUME AuditBusAssumption == Bus!BusAssumption /\ Trail!AuditAssumption

Init == Bus!Init /\ Trail!Init

RecordEvent(d) == Trail!Record(d) /\ Bus!Publish

ClearTrail == Bus!CanAct /\ Trail!Clear /\ UNCHANGED busVars

TamperTrail == Bus!CanAct /\ Trail!Tamper /\ UNCHANGED busVars

BusStep ==
  /\ \/ \E l \in Listeners : Bus!Subscribe(l)
     \/ \E l \in Listeners : Bus!Unsubscribe(l)
     \/ Bus!CallListener
     \/ Bus!ListenerReturns
     \/ Bus!ListenerRaises
     \/ Bus!PublishReturns
  /\ UNCHANGED trailVars

Next ==
  \/ \E d \in Details : RecordEvent(d)
  \/ ClearTrail
  \/ TamperTrail
  \/ BusStep

Spec == Init /\ [][Next]_vars

-------------------------------------------------------------------------------
\* The dispatcher and the trail are well typed.
TypeOK == Bus!TypeOK /\ Trail!TypeOK

\* As long as nobody unsubscribes, a publication calls exactly the entries of the
\* list up to its position, each once and in order.
CallsFollowTheList == Bus!CallsFollowTheList

\* Each removal makes a publication miss one subscriber at most.
MissesAtMostRemovals == Bus!MissesAtMostRemovals

\* verify_integrity finds the trail valid exactly when it is what was recorded, as
\* far as it goes, also when events are recorded by the listeners of events.
ValidIsPrefix == Trail!ValidIsPrefix
===============================================================================
