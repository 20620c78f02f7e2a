------------------------------- MODULE EventBus -------------------------------
(* EventDispatcher of src/src/events.py, for the listeners of one event name.  *)
(* The audit log, which publish appends to before it calls anybody, is left    *)
(* out.                                                                        *)
(*                                                                             *)
(* publish walks the list of listeners itself, by position, calling each in    *)
(* turn.  A listener runs inside publish: it may subscribe, unsubscribe itself *)
(* or another, publish again (a nested walk of the same list), return, or      *)
(* raise, which ends the walk.                                                 *)
EXTENDS Naturals, FiniteSets, Sequences

CONSTANTS
  Listeners,
  MaxListeners,   \* bound: entries in the list, a listener may be there twice
  MaxDepth,       \* bound: publications in progress inside one another
  MaxRemovals     \* bound: entries removed during one publication

\* What the constants are, assumed by the modules that use this one.
BusAssumption ==
  /\ MaxListeners \in Nat /\ MaxDepth \in Nat /\ MaxRemovals \in Nat
  /\ IsFiniteSet(Listeners)

VARIABLES
  listeners,   \* _listeners[event_name]
  walks        \* the publications in progress, outermost first

vars == <<listeners, walks>>

(* A walk: its position in the list; whether a listener is running; and, for   *)
(* the properties, whom it found subscribed, whom it called, and how many      *)
(* entries were removed from the list since it began.                          *)
Walk == [position : Nat, stage : {"walking", "listener"}, found : SUBSET Listeners,
         called : Seq(Listeners), removals : Nat]

Elements(s) == {s[i] : i \in 1..Len(s)}

Init ==
  /\ listeners = <<>>
  /\ walks = <<>>

InWalk == walks # <<>>
Top == walks[Len(walks)]

\* Code runs outside of any publication, or in the listener called last.
CanAct == InWalk => Top.stage = "listener"

Leave == walks' = SubSeq(walks, 1, Len(walks) - 1)

-------------------------------------------------------------------------------
\* Mutant: the newest listener comes first.
WithFirst(l) == <<l>> \o listeners

With(l) == Append(listeners, l)

Subscribe(l) ==
  /\ CanAct
  /\ Len(listeners) < MaxListeners
  /\ listeners' = With(l)
  /\ UNCHANGED walks

\* list.remove: the first entry goes, those behind it move up.
Unsubscribe(l) ==
  /\ CanAct
  /\ \A k \in 1..Len(walks) : walks[k].removals < MaxRemovals
  /\ \E i \in 1..Len(listeners) :
       /\ listeners[i] = l
       /\ \A j \in 1..i - 1 : listeners[j] # l
       /\ listeners' = SubSeq(listeners, 1, i - 1) \o SubSeq(listeners, i + 1, Len(listeners))
  /\ walks' = [k \in 1..Len(walks) |-> [walks[k] EXCEPT !.removals = @ + 1]]

-------------------------------------------------------------------------------
Publish ==
  /\ CanAct
  /\ Len(walks) < MaxDepth
  /\ walks' = Append(walks, [position |-> 0, stage |-> "walking", found |-> Elements(listeners),
                             called |-> <<>>, removals |-> 0])
  /\ UNCHANGED listeners

\* Mutant: the walk skips every other listener.
SkipOne(position) == position + 2

Advance(position) == position + 1

CallListener ==
  /\ InWalk
  /\ Top.stage = "walking"
  /\ Top.position < Len(listeners)
  /\ LET next == listeners[Top.position + 1]
     IN  walks' = [walks EXCEPT ![Len(walks)] =
           [Top EXCEPT !.position = Advance(@), !.stage = "listener", !.called = Append(@, next)]]
  /\ UNCHANGED listeners

ListenerReturns ==
  /\ InWalk
  /\ Top.stage = "listener"
  /\ walks' = [walks EXCEPT ![Len(walks)].stage = "walking"]
  /\ UNCHANGED listeners

\* The exception leaves publish; the listener around it, if any, handles it or
\* raises in turn.
ListenerRaises ==
  /\ InWalk
  /\ Top.stage = "listener"
  /\ Leave
  /\ UNCHANGED listeners

AtEnd(w) == w.stage = "walking" /\ w.position >= Len(listeners)

PublishReturns ==
  /\ InWalk
  /\ AtEnd(Top)
  /\ Leave
  /\ UNCHANGED listeners

Next ==
  \/ \E l \in Listeners : Subscribe(l)
  \/ \E l \in Listeners : Unsubscribe(l)
  \/ Publish
  \/ CallListener
  \/ ListenerReturns
  \/ ListenerRaises
  \/ PublishReturns

Spec == Init /\ [][Next]_vars

-------------------------------------------------------------------------------
TypeOK ==
  /\ listeners \in Seq(Listeners)
  /\ walks \in Seq(Walk)

\* As long as nobody unsubscribes, a walk has called exactly the entries up to its
\* position, each once and in order, whoever subscribed and whatever was published
\* in between: listeners added meanwhile are called too, and nobody twice.
CallsFollowTheList ==
  \A k \in 1..Len(walks) :
    walks[k].removals = 0 => walks[k].called = SubSeq(listeners, 1, walks[k].position)

\* Found subscribed when the walk began, still subscribed, and not called.
Missed(w) == (w.found \cap Elements(listeners)) \ Elements(w.called)

\* Each removal makes a walk that has come to its end miss one subscriber at most.
MissesAtMostRemovals ==
  \A k \in 1..Len(walks) :
    AtEnd(walks[k]) => Cardinality(Missed(walks[k])) <= walks[k].removals
===============================================================================
