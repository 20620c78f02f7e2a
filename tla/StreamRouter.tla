----------------------------- MODULE StreamRouter -----------------------------
(* StreamRouterEngine of src/src/stream_router.py: topics with a retention     *)
(* limit, consumer groups that poll, acknowledge and nack, and a dead letter   *)
(* queue from which messages are replayed.                                     *)
(*                                                                             *)
(* A message has one status, shared by all groups; what a group has            *)
(* acknowledged is a set on the message.  Each call changes its state before   *)
(* it publishes its event, so a raising listener leaves complete states and a  *)
(* caller that retries: the groups may send every call at any time, and more   *)
(* than once.                                                                  *)
EXTENDS Integers, FiniteSets, Sequences

CONSTANTS
  Messages,         \* the ids that uuid4 will yield
  Topics, Groups,
  Kinds,            \* what a payload filter tells apart
  SubIds,           \* the ids of subscriptions
  NoMessage, NoEntry, NoSub,
  RetentionLimit,   \* retention_limit
  DefaultRetries,   \* default_max_retries
  RetryChoices,     \* the max_retries publishers ask for
  PollLimits,       \* the limit pollers ask for
  MaxDeadLetters    \* bound: messages sent to the dead letter queue

Status == {"PENDING", "DELIVERED", "ACKNOWLEDGED", "DEAD_LETTER"}

StreamMessage == [topic : Topics, kind : Kinds, status : Status, retry_count : Nat,
                  max_retries : Int, acknowledged_by : SUBSET Groups]
DeadLetterEntry == [topic : Topics, kind : Kinds, replayed : BOOLEAN]
Subscription == [group : Groups, pattern : SUBSET Topics, filter : SUBSET Kinds]

\* What the constants are, assumed by the modules that use this one.
RouterAssumption ==
  /\ RetentionLimit \in Nat /\ DefaultRetries \in Int /\ MaxDeadLetters \in Nat
  /\ RetryChoices \subseteq Int /\ PollLimits \subseteq Nat
  /\ IsFiniteSet(Messages)
  /\ NoMessage \notin StreamMessage
  /\ NoEntry \notin DeadLetterEntry
  /\ NoSub \notin Subscription

VARIABLES
  messages,        \* _messages
  index,           \* _topic_index: message ids per topic, oldest first
  dlq,             \* _dead_letter_queue, by message id
  subs,            \* _subscriptions
  used,            \* the ids handed out so far
  dead_lettered,   \* stats["dead_lettered"]
  replayed,        \* stats["replayed"]
  acked,           \* <<m, g>>: group g acknowledged message m, whatever became of it
  again            \* <<m, g>>: poll gave m to g after g had acknowledged it

vars == <<messages, index, dlq, subs, used, dead_lettered, replayed, acked, again>>

Init ==
  /\ messages = [m \in Messages |-> NoMessage]
  /\ index = [t \in Topics |-> <<>>]
  /\ dlq = [m \in Messages |-> NoEntry]
  /\ subs = [s \in SubIds |-> NoSub]
  /\ used = {}
  /\ dead_lettered = 0
  /\ replayed = 0
  /\ acked = {}
  /\ again = {}

Stored(m) == messages[m] # NoMessage

-------------------------------------------------------------------------------
(* publish                                                                     *)

Envelope(t, k, retries) ==
  [topic |-> t, kind |-> k, status |-> "PENDING", retry_count |-> 0,
   max_retries |-> retries, acknowledged_by |-> {}]

\* Mutant: the limit lets one message too many in.
OverLimitByTwo(ids) == Len(ids) > RetentionLimit + 1

OverLimit(ids) == Len(ids) > RetentionLimit

\* Mutant: the message that falls out of the index stays stored.
KeepPurged(m, envelope, old) == [messages EXCEPT ![m] = envelope]

StoreAndPurge(m, envelope, old) == [messages EXCEPT ![m] = envelope, ![old] = NoMessage]

\* Retention drops one message, the oldest, per publication: a topic that is over
\* its limit stays over by as many.
Publish(m, t, k, retries) ==
  LET envelope == Envelope(t, k, retries)
      grown == Append(index[t], m)
  IN
  /\ m \notin used
  /\ used' = used \cup {m}
  /\ IF OverLimit(grown)
     THEN /\ index' = [index EXCEPT ![t] = Tail(grown)]
          /\ messages' = StoreAndPurge(m, envelope, Head(grown))
     ELSE /\ index' = [index EXCEPT ![t] = grown]
          /\ messages' = [messages EXCEPT ![m] = envelope]
  /\ UNCHANGED <<dlq, subs, dead_lettered, replayed, acked, again>>

-------------------------------------------------------------------------------
(* subscribe, unsubscribe                                                      *)

Subscribe(s, g, pattern, filter) ==
  /\ subs[s] = NoSub
  /\ subs' = [subs EXCEPT ![s] = [group |-> g, pattern |-> pattern, filter |-> filter]]
  /\ UNCHANGED <<messages, index, dlq, used, dead_lettered, replayed, acked, again>>

Unsubscribe(s) ==
  /\ subs[s] # NoSub
  /\ subs' = [subs EXCEPT ![s] = NoSub]
  /\ UNCHANGED <<messages, index, dlq, used, dead_lettered, replayed, acked, again>>

GroupSubs(g) == {s \in SubIds : subs[s] # NoSub /\ subs[s].group = g}

-------------------------------------------------------------------------------
(* poll                                                                        *)

\* Subscription.matches for one of the subscriptions that poll has collected.
Matches(sub, m) == messages[m].topic \in sub.pattern /\ messages[m].kind \in sub.filter

\* Mutant: poll does not look at acknowledgements.
WantedAgain(g, m, S) ==
  Stored(m) /\ messages[m].status # "DEAD_LETTER" /\ \E sub \in S : Matches(sub, m)

Wanted(g, m, S) ==
  /\ Stored(m)
  /\ messages[m].status # "DEAD_LETTER"
  /\ g \notin messages[m].acknowledged_by
  /\ \E sub \in S : Matches(sub, m)

\* The first `limit` messages of the topic that are stored, not dead, not
\* acknowledged by g, and matched by one of the subscriptions S.
Batch(g, t, limit, S) ==
  LET wanted == {i \in 1..Len(index[t]) : Wanted(g, index[t][i], S)}
  IN  {index[t][i] : i \in {j \in wanted : Cardinality({k \in wanted : k <= j}) <= limit}}

\* What poll does with the subscriptions S of group g.
Deliver(g, t, limit, S) ==
  LET batch == Batch(g, t, limit, S) IN
  /\ messages' = [m \in Messages |->
       IF m \in batch THEN [messages[m] EXCEPT !.status = "DELIVERED"] ELSE messages[m]]
  /\ again' = again \cup ((batch \X {g}) \cap acked)
  /\ UNCHANGED <<index, dlq, used, dead_lettered, replayed, acked>>

Poll(g, t, limit) ==
  /\ GroupSubs(g) # {}
  /\ Deliver(g, t, limit, {subs[s] : s \in GroupSubs(g)})
  /\ UNCHANGED subs

\* A group without subscription gets one to the very topic, then polls.
AdHoc(g, t) == [group |-> g, pattern |-> {t}, filter |-> Kinds]

PollAdHoc(s, g, t, limit) ==
  /\ GroupSubs(g) = {}
  /\ subs[s] = NoSub
  /\ subs' = [subs EXCEPT ![s] = AdHoc(g, t)]
  /\ Deliver(g, t, limit, {AdHoc(g, t)})

\* A listener of stream_subscription_created raised, or took the subscription
\* back and thereby emptied the poll.
PollAdHocRaises(s, g, t) ==
  /\ GroupSubs(g) = {}
  /\ Subscribe(s, g, {t}, Kinds)

-------------------------------------------------------------------------------
(* acknowledge, nack: of any stored message, by any group                      *)

Acknowledged(m, g) ==
  [messages EXCEPT ![m].acknowledged_by = @ \cup {g}, ![m].status = "ACKNOWLEDGED"]

Acknowledge(m, g) ==
  /\ Stored(m)
  /\ messages' = Acknowledged(m, g)
  /\ acked' = acked \cup {<<m, g>>}
  /\ UNCHANGED <<index, dlq, subs, used, dead_lettered, replayed, again>>

Exhausted(m) == messages[m].retry_count + 1 >= messages[m].max_retries

NackRetries(m) ==
  /\ Stored(m)
  /\ ~Exhausted(m)
  /\ messages' = [messages EXCEPT ![m].retry_count = @ + 1, ![m].status = "PENDING"]
  /\ UNCHANGED <<index, dlq, subs, used, dead_lettered, replayed, acked, again>>

\* Also of a message that is dead already: the entry is written anew.
NackDeadLetters(m) ==
  /\ Stored(m)
  /\ Exhausted(m)
  /\ dead_lettered < MaxDeadLetters
  /\ messages' = [messages EXCEPT ![m].retry_count = @ + 1, ![m].status = "DEAD_LETTER"]
  /\ dlq' = [dlq EXCEPT ![m] = [topic |-> messages[m].topic, kind |-> messages[m].kind,
                                replayed |-> FALSE]]
  /\ dead_lettered' = dead_lettered + 1
  /\ UNCHANGED <<index, subs, used, replayed, acked, again>>

-------------------------------------------------------------------------------
(* replay_dead_letter                                                          *)

\* Mutant: the replayed flag is not looked at.
InQueue(m) == dlq[m] # NoEntry

Waiting(m) == dlq[m] # NoEntry /\ ~dlq[m].replayed

\* Mutant: a message that is still stored is replayed without its status.
RevivedDead(m) == [messages EXCEPT ![m].retry_count = 0, ![m].acknowledged_by = {}]

Revived(m) ==
  [messages EXCEPT ![m].status = "PENDING", ![m].retry_count = 0, ![m].acknowledged_by = {}]

Replay(m) ==
  /\ Waiting(m)
  /\ IF Stored(m)
     THEN /\ messages' = Revived(m)
          /\ UNCHANGED index
     ELSE /\ messages' = [messages EXCEPT ![m] =
               Envelope(dlq[m].topic, dlq[m].kind, DefaultRetries)]
          /\ index' = [index EXCEPT ![dlq[m].topic] = Append(@, m)]
  /\ dlq' = [dlq EXCEPT ![m].replayed = TRUE]
  /\ replayed' = replayed + 1
  /\ UNCHANGED <<subs, used, dead_lettered, acked, again>>

Clear ==
  /\ messages' = [m \in Messages |-> NoMessage]
  /\ index' = [t \in Topics |-> <<>>]
  /\ dlq' = [m \in Messages |-> NoEntry]
  /\ subs' = [s \in SubIds |-> NoSub]
  /\ dead_lettered' = 0
  /\ replayed' = 0
  /\ acked' = {}
  /\ again' = {}
  /\ UNCHANGED used

Next ==
  \/ \E m \in Messages, t \in Topics, k \in Kinds, retries \in RetryChoices :
       Publish(m, t, k, retries)
  \/ \E s \in SubIds, g \in Groups, pattern \in SUBSET Topics, filter \in SUBSET Kinds :
       Subscribe(s, g, pattern, filter)
  \/ \E s \in SubIds : Unsubscribe(s)
  \/ \E g \in Groups, t \in Topics, limit \in PollLimits : Poll(g, t, limit)
  \/ \E s \in SubIds, g \in Groups, t \in Topics, limit \in PollLimits : PollAdHoc(s, g, t, limit)
  \/ \E s \in SubIds, g \in Groups, t \in Topics : PollAdHocRaises(s, g, t)
  \/ \E m \in Messages, g \in Groups : Acknowledge(m, g)
  \/ \E m \in Messages : NackRetries(m)
  \/ \E m \in Messages : NackDeadLetters(m)
  \/ \E m \in Messages : Replay(m)
  \/ Clear

Spec == Init /\ [][Next]_vars

-------------------------------------------------------------------------------
TypeOK ==
  /\ messages \in [Messages -> StreamMessage \cup {NoMessage}]
  /\ index \in [Topics -> Seq(Messages)]
  /\ dlq \in [Messages -> DeadLetterEntry \cup {NoEntry}]
  /\ subs \in [SubIds -> Subscription \cup {NoSub}]
  /\ used \subseteq Messages
  /\ dead_lettered \in Nat
  /\ replayed \in Nat
  /\ acked \subseteq Messages \X Groups
  /\ again \subseteq Messages \X Groups

\* The two maps of the engine agree: an id is listed once, under the topic of its
\* message, exactly while the message is stored.  Purging, replaying a purged
\* message and publishing all have to keep both in step.
IndexConsistent ==
  /\ \A t \in Topics :
       \A i, j \in 1..Len(index[t]) : index[t][i] = index[t][j] => i = j
  /\ \A m \in Messages, t \in Topics :
       (\E i \in 1..Len(index[t]) : index[t][i] = m) <=> (Stored(m) /\ messages[m].topic = t)

\* A dead message can always be got back: it is in the dead letter queue and was
\* not replayed since.
DeadLettersWait ==
  \A m \in Messages : (Stored(m) /\ messages[m].status = "DEAD_LETTER") => Waiting(m)

\* A replay answers one dead-lettering: no entry is replayed twice, whatever
\* purges, acknowledgements and further nacks come between.
ReplayedOnce ==
  Cardinality({m \in Messages : Waiting(m)}) + replayed <= dead_lettered

\* Only replays take a topic over its retention limit, each by one message.
OverflowOnlyByReplay ==
  \A t \in Topics : Len(index[t]) <= RetentionLimit + replayed

\* A group gets a message it has acknowledged again only if the message went
\* through the dead letter queue.
RedeliveredOnlyAfterDeath ==
  \A p \in again : dlq[p[1]] # NoEntry
===============================================================================
