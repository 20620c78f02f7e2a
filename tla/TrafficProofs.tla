------------------------------ MODULE TrafficProofs ------------------------------
(* Theorems about the stream router, the rate limits and the circuits, for any *)
(* messages, topics, groups, rules, costs, calls, limits and thresholds.  Each *)
(* engine has an invariant of its own, which only its own steps can disturb.   *)
EXTENDS Traffic, ListProofs, FiniteSetTheorems, SequenceTheorems, TLAPS

\* The engines take the operators of the modules they extend from their own
\* instances.
LEMMA SameOperators ==
  /\ \A X : Streams!Cardinality(X) = Cardinality(X)
  /\ \A X : Streams!IsFiniteSet(X) <=> IsFiniteSet(X)
  /\ \A s, P : Limits!Sublist(s, P) = Sublist(s, P)
BY DEF Streams!Cardinality, Cardinality, Streams!IsFiniteSet, IsFiniteSet,
       Limits!Sublist, Sublist

\* What the constants of each engine are.
LEMMA RouterConstants ==
  /\ RetentionLimit \in Nat /\ DefaultRetries \in Int /\ MaxDeadLetters \in Nat
  /\ RetryChoices \subseteq Int /\ PollLimits \subseteq Nat
  /\ IsFiniteSet(Messages)
  /\ NoMessage \notin Streams!StreamMessage
  /\ NoEntry \notin Streams!DeadLetterEntry
  /\ NoSub \notin Streams!Subscription
BY TrafficAssumption, SameOperators DEF Streams!RouterAssumption

LEMMA CircuitConstants ==
  /\ FailureThreshold \in Nat \ {0} /\ SuccessThreshold \in Nat
  /\ RecoveryTimeout \in Nat \ {0}
BY TrafficAssumption DEF Circuits!CircuitAssumption

-------------------------------------------------------------------------------
(* The stream router: the invariant                                          *)

\* Only ids that were handed out are stored, dead-lettered or acknowledged: the
\* message that publish makes is new to all of them.
IdsAreUsed ==
  /\ \A m \in Messages : Streams!Stored(m) \/ dlq[m] # NoEntry => m \in used
  /\ \A p \in acked : p[1] \in used

\* A stored message forgets an acknowledgement only by a replay.
AcksAreKept ==
  \A m \in Messages, g \in Groups :
    <<m, g>> \in acked /\ Streams!Stored(m) /\ dlq[m] = NoEntry
      => g \in messages[m].acknowledged_by

\* What the map of messages, the ids and the dead letter queue say of each other.
MessagesSound ==
  /\ IdsAreUsed
  /\ AcksAreKept
  /\ Streams!DeadLettersWait
  /\ Streams!RedeliveredOnlyAfterDeath

StreamsInv ==
  /\ Streams!TypeOK
  /\ MessagesSound
  /\ Streams!IndexConsistent
  /\ Streams!OverflowOnlyByReplay
  /\ Streams!ReplayedOnce

-------------------------------------------------------------------------------
(* The stream router: lemmas about the data                                  *)

\* The position of an id in an index.
Listed(s, m) == \E i \in 1..Len(s) : s[i] = m

Distinct(s) == \A i, j \in 1..Len(s) : s[i] = s[j] => i = j

\* An id that is not listed goes to the end.
LEMMA IndexAppend ==
  ASSUME NEW s \in Seq(Messages), NEW m \in Messages, Distinct(s), ~Listed(s, m)
  PROVE  /\ Append(s, m) \in Seq(Messages)
         /\ Len(Append(s, m)) = Len(s) + 1
         /\ Distinct(Append(s, m))
         /\ \A x \in Messages : Listed(Append(s, m), x) <=> Listed(s, x) \/ x = m
<1>1. /\ Append(s, m) \in Seq(Messages)
      /\ Len(s) \in Nat
      /\ Len(Append(s, m)) = Len(s) + 1
      /\ \A i \in 1..Len(s) : Append(s, m)[i] = s[i]
      /\ Append(s, m)[Len(s) + 1] = m
  OBVIOUS
<1> DEFINE a == Append(s, m)
           n == Len(s)
<1> HIDE DEF a
<1>2. \A i \in 1..Len(a) : i \in 1..n \/ i = n + 1
  BY <1>1 DEF a
<1>3. Distinct(a)
  BY <1>1, <1>2 DEF Distinct, Listed, a
<1>4. \A x \in Messages : Listed(a, x) <=> Listed(s, x) \/ x = m
  <2>1. 1..n \subseteq 1..Len(a) /\ n + 1 \in 1..Len(a)
    BY <1>1 DEF a
  <2> QED BY <1>1, <1>2, <2>1 DEF Listed, a
<1> QED BY <1>1, <1>3, <1>4 DEF a

\* The oldest id falls out.
LEMMA IndexTail ==
  ASSUME NEW s \in Seq(Messages), s # <<>>, Distinct(s)
  PROVE  /\ Head(s) \in Messages
         /\ Tail(s) \in Seq(Messages)
         /\ Len(Tail(s)) = Len(s) - 1
         /\ Distinct(Tail(s))
         /\ \A x \in Messages : Listed(Tail(s), x) <=> Listed(s, x) /\ x # Head(s)
         /\ Listed(s, Head(s))
<1>1. /\ Head(s) = s[1] /\ Head(s) \in Messages
      /\ Tail(s) \in Seq(Messages)
      /\ Len(s) \in Nat /\ Len(s) >= 1
      /\ Len(Tail(s)) = Len(s) - 1
      /\ \A i \in 1..Len(s) - 1 : Tail(s)[i] = s[i + 1]
  OBVIOUS
<1> DEFINE t == Tail(s)
           n == Len(s)
<1> HIDE DEF t
<1>2. Distinct(t)
  BY <1>1 DEF Distinct, t
<1>3. ASSUME NEW x \in Messages PROVE Listed(t, x) <=> Listed(s, x) /\ x # Head(s)
  <2>1. ASSUME NEW i \in 1..Len(t), t[i] = x PROVE Listed(s, x) /\ x # Head(s)
    <3>1. i + 1 \in 1..n /\ 1 \in 1..n /\ s[i + 1] = x /\ i + 1 # 1
      BY <1>1, <2>1 DEF t
    <3> QED BY <1>1, <3>1 DEF Distinct, Listed
  <2>2. ASSUME NEW i \in 1..n, s[i] = x, x # Head(s) PROVE Listed(t, x)
    <3>1. i - 1 \in 1..Len(t)
      BY <1>1, <2>2 DEF t
    <3>2. t[i - 1] = s[i - 1 + 1]
      BY <1>1, <3>1 DEF t
    <3>3. t[i - 1] = x
      BY <2>2, <3>2
    <3> QED BY <3>1, <3>3 DEF Listed
  <2> QED BY <2>1, <2>2 DEF Listed
<1>4. Listed(s, Head(s))
  BY <1>1 DEF Listed
<1> QED BY <1>1, <1>2, <1>3, <1>4 DEF t

\* Records of messages: what is stored is not NoMessage.
LEMMA Envelopes ==
  ASSUME NEW t \in Topics, NEW k \in Kinds, NEW retries \in Int
  PROVE  /\ Streams!Envelope(t, k, retries) \in Streams!StreamMessage
         /\ Streams!Envelope(t, k, retries) # NoMessage
         /\ Streams!Envelope(t, k, retries).topic = t
         /\ Streams!Envelope(t, k, retries).status = "PENDING"
         /\ Streams!Envelope(t, k, retries).acknowledged_by = {}
<1>1. Streams!Envelope(t, k, retries) \in Streams!StreamMessage
  BY DEF Streams!Envelope, Streams!StreamMessage, Streams!Status
<1> QED BY <1>1, RouterConstants DEF Streams!Envelope

\* Poll delivers messages that the group wants.
LEMMA BatchIsWanted ==
  ASSUME Streams!TypeOK, NEW g \in Groups, NEW t \in Topics, NEW limit, NEW S,
         NEW m \in Streams!Batch(g, t, limit, S)
  PROVE  m \in Messages /\ Streams!Wanted(g, m, S)
<1>1. PICK i \in 1..Len(index[t]) : m = index[t][i] /\ Streams!Wanted(g, index[t][i], S)
  BY DEF Streams!Batch
<1>2. index[t] \in Seq(Messages)
  BY DEF Streams!TypeOK
<1>3. index[t][i] \in Messages
  BY <1>2
<1> QED BY <1>1, <1>3

WaitingIds == {m \in Messages : Streams!Waiting(m)}

\* The waiting entries are finitely many.
LEMMA WaitingFinite == IsFiniteSet(WaitingIds) /\ Cardinality(WaitingIds) \in Nat
<1>1. WaitingIds \subseteq Messages
  BY DEF WaitingIds
<1> QED BY <1>1, RouterConstants, FS_Subset, FS_CardinalityType

LEMMA Distinctness ==
  Streams!IndexConsistent <=>
    /\ \A t \in Topics : Distinct(index[t])
    /\ \A m \in Messages, t \in Topics :
         Listed(index[t], m) <=> Streams!Stored(m) /\ messages[m].topic = t
BY DEF Streams!IndexConsistent, Distinct, Listed

-------------------------------------------------------------------------------
LEMMA StreamsInit == Streams!Init => StreamsInv
<1> SUFFICES ASSUME Streams!Init PROVE StreamsInv
  OBVIOUS
<1>1. Streams!TypeOK
  BY DEF Streams!Init, Streams!TypeOK
<1>2. \A m \in Messages : ~Streams!Stored(m) /\ dlq[m] = NoEntry /\ ~Streams!Waiting(m)
  BY DEF Streams!Init, Streams!Stored, Streams!Waiting
<1>3. MessagesSound
  BY <1>2 DEF Streams!Init, MessagesSound, IdsAreUsed, AcksAreKept, Streams!DeadLettersWait,
              Streams!RedeliveredOnlyAfterDeath
<1>4. Streams!IndexConsistent
  BY <1>2 DEF Streams!Init, Streams!IndexConsistent
<1>5. Streams!OverflowOnlyByReplay
  BY RouterConstants DEF Streams!Init, Streams!OverflowOnlyByReplay
<1>6. Streams!ReplayedOnce
  <2>1. {m \in Messages : Streams!Waiting(m)} = {}
    BY <1>2
  <2>2. Cardinality({m \in Messages : Streams!Waiting(m)}) = 0
    BY <2>1, FS_EmptySet
  <2> QED BY <2>2, SameOperators DEF Streams!Init, Streams!ReplayedOnce
<1> QED BY <1>1, <1>3, <1>4, <1>5, <1>6 DEF StreamsInv

-------------------------------------------------------------------------------
(* The stream router: steps that leave most of the state alone               *)

\* The queue of dead letters and its counters are as they were.
LEMMA QueueFrame ==
  ASSUME Streams!ReplayedOnce, UNCHANGED <<dlq, replayed, dead_lettered>>
  PROVE  Streams!ReplayedOnce'
<1>1. WaitingIds' = WaitingIds
  BY DEF WaitingIds, Streams!Waiting
<1> QED BY <1>1 DEF Streams!ReplayedOnce, WaitingIds

\* The topics keep their messages, whatever becomes of these.
LEMMA IndexFrame ==
  ASSUME Streams!IndexConsistent, UNCHANGED index,
         \A m \in Messages : /\ Streams!Stored(m)' <=> Streams!Stored(m)
                             /\ Streams!Stored(m) => messages'[m].topic = messages[m].topic
  PROVE  Streams!IndexConsistent'
BY DEF Streams!IndexConsistent

LEMMA OverflowFrame ==
  ASSUME Streams!OverflowOnlyByReplay, UNCHANGED <<index, replayed>>
  PROVE  Streams!OverflowOnlyByReplay'
BY DEF Streams!OverflowOnlyByReplay

\* subscribe, unsubscribe, and a poll that a listener ends.
LEMMA SubsInv ==
  ASSUME StreamsInv, subs' \in [SubIds -> Streams!Subscription \cup {NoSub}],
         UNCHANGED <<messages, index, dlq, used, dead_lettered, replayed, acked, again>>
  PROVE  StreamsInv'
<1>1. Streams!TypeOK'
  BY DEF StreamsInv, Streams!TypeOK
<1>2. MessagesSound'
  BY DEF StreamsInv, MessagesSound, IdsAreUsed, AcksAreKept, Streams!DeadLettersWait,
         Streams!RedeliveredOnlyAfterDeath, Streams!Stored, Streams!Waiting
<1>3. Streams!IndexConsistent' /\ Streams!OverflowOnlyByReplay' /\ Streams!ReplayedOnce'
  BY IndexFrame, OverflowFrame, QueueFrame DEF StreamsInv, Streams!Stored
<1> QED BY <1>1, <1>2, <1>3 DEF StreamsInv

LEMMA SubscriptionType ==
  ASSUME StreamsInv, NEW s \in SubIds, NEW g \in Groups, NEW pattern \in SUBSET Topics,
         NEW filter \in SUBSET Kinds
  PROVE  LET sub == [group |-> g, pattern |-> pattern, filter |-> filter]
         IN  [subs EXCEPT ![s] = sub] \in [SubIds -> Streams!Subscription \cup {NoSub}]
BY DEF StreamsInv, Streams!TypeOK, Streams!Subscription

LEMMA UnsubscribeInv ==
  ASSUME StreamsInv, NEW s \in SubIds, Streams!Unsubscribe(s)
  PROVE  StreamsInv'
<1>1. subs' \in [SubIds -> Streams!Subscription \cup {NoSub}]
  BY DEF Streams!Unsubscribe, StreamsInv, Streams!TypeOK
<1> QED BY <1>1, SubsInv DEF Streams!Unsubscribe

LEMMA SubscribeInv ==
  ASSUME StreamsInv, NEW s \in SubIds, NEW g \in Groups, NEW pattern \in SUBSET Topics,
         NEW filter \in SUBSET Kinds, Streams!Subscribe(s, g, pattern, filter)
  PROVE  StreamsInv'
<1>1. subs' \in [SubIds -> Streams!Subscription \cup {NoSub}]
  BY SubscriptionType DEF Streams!Subscribe
<1> QED BY <1>1, SubsInv DEF Streams!Subscribe

-------------------------------------------------------------------------------
(* The stream router: poll                                                   *)

LEMMA DeliverInv ==
  ASSUME StreamsInv, NEW g \in Groups, NEW t \in Topics, NEW limit, NEW S,
         Streams!Deliver(g, t, limit, S),
         subs' \in [SubIds -> Streams!Subscription \cup {NoSub}]
  PROVE  StreamsInv'
<1> DEFINE batch == Streams!Batch(g, t, limit, S)
<1>1. Streams!TypeOK
  BY DEF StreamsInv
<1>2. \A m \in batch : m \in Messages /\ Streams!Wanted(g, m, S)
  BY <1>1, BatchIsWanted
<1>3. /\ \A m \in Messages :
            messages'[m] = IF m \in batch THEN [messages[m] EXCEPT !.status = "DELIVERED"]
                           ELSE messages[m]
      /\ again' = again \cup ((batch \X {g}) \cap acked)
      /\ messages' = [m \in Messages |-> messages'[m]]
      /\ UNCHANGED <<index, dlq, used, dead_lettered, replayed, acked>>
  BY DEF Streams!Deliver
<1> HIDE DEF batch
<1>4. ASSUME NEW m \in Messages
      PROVE  /\ messages'[m] \in Streams!StreamMessage \cup {NoMessage}
             /\ Streams!Stored(m)' <=> Streams!Stored(m)
             /\ Streams!Stored(m) => /\ messages'[m].topic = messages[m].topic
                             /\ messages'[m].acknowledged_by = messages[m].acknowledged_by
                             /\ messages'[m].status \in {messages[m].status, "DELIVERED"}
  <2>1. CASE m \in batch
    <3>1. messages[m] \in Streams!StreamMessage
      BY <1>1, <1>2, <2>1 DEF Streams!TypeOK, Streams!Wanted, Streams!Stored
    <3>2. messages'[m] = [messages[m] EXCEPT !.status = "DELIVERED"]
      BY <1>3, <2>1
    <3>3. /\ messages'[m] \in Streams!StreamMessage
          /\ messages'[m].topic = messages[m].topic
          /\ messages'[m].acknowledged_by = messages[m].acknowledged_by
          /\ messages'[m].status = "DELIVERED"
      BY <3>1, <3>2 DEF Streams!StreamMessage, Streams!Status
    <3> QED BY <3>1, <3>3, RouterConstants DEF Streams!Stored
  <2>2. CASE m \notin batch
    BY <1>1, <1>3, <2>2 DEF Streams!TypeOK, Streams!Stored
  <2> QED BY <2>1, <2>2
<1>5. Streams!TypeOK'
  <2>1. messages' \in [Messages -> Streams!StreamMessage \cup {NoMessage}]
    BY <1>3, <1>4
  <2>2. again' \subseteq Messages \X Groups
    BY <1>1, <1>3 DEF Streams!TypeOK
  <2> QED BY <1>1, <1>3, <2>1, <2>2 DEF Streams!TypeOK
<1>6. IdsAreUsed' /\ AcksAreKept' /\ Streams!DeadLettersWait'
  BY <1>3, <1>4
     DEF StreamsInv, MessagesSound, IdsAreUsed, AcksAreKept, Streams!DeadLettersWait,
         Streams!Waiting
<1>7. Streams!RedeliveredOnlyAfterDeath'
  <2>1. ASSUME NEW p \in (batch \X {g}) \cap acked PROVE dlq[p[1]] # NoEntry
    <3>1. p[1] \in batch /\ p = <<p[1], g>> /\ <<p[1], g>> \in acked
      BY <2>1
    <3>2. p[1] \in Messages /\ Streams!Wanted(g, p[1], S)
      BY <1>2, <3>1
    <3> QED BY <3>1, <3>2 DEF StreamsInv, MessagesSound, AcksAreKept, Streams!Wanted
  <2> QED BY <1>3, <2>1 DEF StreamsInv, MessagesSound, Streams!RedeliveredOnlyAfterDeath
<1>8. Streams!IndexConsistent' /\ Streams!OverflowOnlyByReplay' /\ Streams!ReplayedOnce'
  BY <1>3, <1>4, IndexFrame, OverflowFrame, QueueFrame DEF StreamsInv
<1> QED BY <1>5, <1>6, <1>7, <1>8 DEF StreamsInv, MessagesSound

LEMMA PollInv ==
  ASSUME StreamsInv, NEW g \in Groups, NEW t \in Topics, NEW limit, Streams!Poll(g, t, limit)
  PROVE  StreamsInv'
<1>1. Streams!Deliver(g, t, limit, {subs[s] : s \in Streams!GroupSubs(g)}) /\ subs' = subs
  BY DEF Streams!Poll
<1>2. subs \in [SubIds -> Streams!Subscription \cup {NoSub}]
  BY DEF StreamsInv, Streams!TypeOK
<1> QED BY <1>1, <1>2, DeliverInv

LEMMA PollAdHocInv ==
  ASSUME StreamsInv, NEW s \in SubIds, NEW g \in Groups, NEW t \in Topics, NEW limit,
         Streams!PollAdHoc(s, g, t, limit)
  PROVE  StreamsInv'
<1>1. /\ Streams!Deliver(g, t, limit, {Streams!AdHoc(g, t)})
      /\ subs' = [subs EXCEPT ![s] = Streams!AdHoc(g, t)]
  BY DEF Streams!PollAdHoc
<1>2. subs' \in [SubIds -> Streams!Subscription \cup {NoSub}]
  BY <1>1, SubscriptionType DEF Streams!AdHoc
<1> QED BY <1>1, <1>2, DeliverInv

-------------------------------------------------------------------------------
(* The stream router: acknowledge, nack                                      *)

LEMMA AcknowledgeInv ==
  ASSUME StreamsInv, NEW m \in Messages, NEW g \in Groups, Streams!Acknowledge(m, g)
  PROVE  StreamsInv'
<1> DEFINE msg == [messages[m] EXCEPT !.acknowledged_by = @ \cup {g}, !.status = "ACKNOWLEDGED"]
<1>1. /\ Streams!Stored(m)
      /\ messages' = [messages EXCEPT ![m] = msg]
      /\ acked' = acked \cup {<<m, g>>}
      /\ UNCHANGED <<index, dlq, subs, used, dead_lettered, replayed, again>>
  BY DEF Streams!Acknowledge, Streams!Acknowledged, StreamsInv, Streams!TypeOK
<1>2. messages[m] \in Streams!StreamMessage
  BY <1>1 DEF StreamsInv, Streams!TypeOK, Streams!Stored
<1>3. /\ msg \in Streams!StreamMessage
      /\ msg.topic = messages[m].topic
      /\ msg.acknowledged_by = messages[m].acknowledged_by \cup {g}
      /\ msg.status = "ACKNOWLEDGED"
  BY <1>2 DEF Streams!StreamMessage, Streams!Status
<1> HIDE DEF msg
<1>4. msg # NoMessage
  BY <1>3, RouterConstants
<1>5. \A x \in Messages : messages'[x] = IF x = m THEN msg ELSE messages[x]
  BY <1>1 DEF StreamsInv, Streams!TypeOK
<1>6. \A x \in Messages : /\ Streams!Stored(x)' <=> Streams!Stored(x)
                          /\ Streams!Stored(x) => messages'[x].topic = messages[x].topic
  BY <1>1, <1>3, <1>4, <1>5 DEF Streams!Stored
<1>7. Streams!TypeOK'
  BY <1>1, <1>3 DEF StreamsInv, Streams!TypeOK
<1>8. IdsAreUsed'
  BY <1>1, <1>6 DEF StreamsInv, MessagesSound, IdsAreUsed
<1>9. AcksAreKept'
  BY <1>1, <1>3, <1>5, <1>6 DEF StreamsInv, MessagesSound, AcksAreKept
<1>10. Streams!DeadLettersWait'
  BY <1>1, <1>3, <1>5, <1>6
     DEF StreamsInv, MessagesSound, Streams!DeadLettersWait, Streams!Waiting
<1>11. Streams!RedeliveredOnlyAfterDeath'
  BY <1>1 DEF StreamsInv, MessagesSound, Streams!RedeliveredOnlyAfterDeath
<1>12. Streams!IndexConsistent' /\ Streams!OverflowOnlyByReplay' /\ Streams!ReplayedOnce'
  BY <1>1, <1>6, IndexFrame, OverflowFrame, QueueFrame DEF StreamsInv
<1> QED BY <1>7, <1>8, <1>9, <1>10, <1>11, <1>12 DEF StreamsInv, MessagesSound

LEMMA NackRetriesInv ==
  ASSUME StreamsInv, NEW m \in Messages, Streams!NackRetries(m)
  PROVE  StreamsInv'
<1> DEFINE count == messages[m].retry_count + 1
           msg == [messages[m] EXCEPT !.retry_count = count, !.status = "PENDING"]
<1>1. /\ Streams!Stored(m)
      /\ messages' = [messages EXCEPT ![m] = msg]
      /\ UNCHANGED <<index, dlq, subs, used, dead_lettered, replayed, acked, again>>
  BY DEF Streams!NackRetries, StreamsInv, Streams!TypeOK
<1>2. messages[m] \in Streams!StreamMessage
  BY <1>1 DEF StreamsInv, Streams!TypeOK, Streams!Stored
<1>3. /\ msg \in Streams!StreamMessage
      /\ msg.topic = messages[m].topic
      /\ msg.acknowledged_by = messages[m].acknowledged_by
      /\ msg.status = "PENDING"
  <2>1. count \in Nat
    BY <1>2 DEF Streams!StreamMessage
  <2> HIDE DEF count
  <2> QED BY <1>2, <2>1 DEF Streams!StreamMessage, Streams!Status
<1> HIDE DEF msg
<1>4. msg # NoMessage
  BY <1>3, RouterConstants
<1>5. \A x \in Messages : messages'[x] = IF x = m THEN msg ELSE messages[x]
  BY <1>1 DEF StreamsInv, Streams!TypeOK
<1>6. \A x \in Messages : /\ Streams!Stored(x)' <=> Streams!Stored(x)
                          /\ Streams!Stored(x) => messages'[x].topic = messages[x].topic
  BY <1>1, <1>3, <1>4, <1>5 DEF Streams!Stored
<1>7. Streams!TypeOK'
  BY <1>1, <1>3 DEF StreamsInv, Streams!TypeOK
<1>8. MessagesSound'
  BY <1>1, <1>3, <1>5, <1>6 DEF StreamsInv, MessagesSound, IdsAreUsed, AcksAreKept,
     Streams!DeadLettersWait, Streams!RedeliveredOnlyAfterDeath, Streams!Waiting
<1>9. Streams!IndexConsistent' /\ Streams!OverflowOnlyByReplay' /\ Streams!ReplayedOnce'
  BY <1>1, <1>6, IndexFrame, OverflowFrame, QueueFrame DEF StreamsInv
<1> QED BY <1>7, <1>8, <1>9 DEF StreamsInv

LEMMA NackDeadLettersInv ==
  ASSUME StreamsInv, NEW m \in Messages, Streams!NackDeadLetters(m)
  PROVE  StreamsInv'
<1> DEFINE count == messages[m].retry_count + 1
           msg == [messages[m] EXCEPT !.retry_count = count, !.status = "DEAD_LETTER"]
           letter == [topic |-> messages[m].topic, kind |-> messages[m].kind, replayed |-> FALSE]
<1>1. /\ Streams!Stored(m)
      /\ messages' = [messages EXCEPT ![m] = msg]
      /\ dlq' = [dlq EXCEPT ![m] = letter]
      /\ dead_lettered' = dead_lettered + 1
      /\ UNCHANGED <<index, subs, used, replayed, acked, again>>
  BY DEF Streams!NackDeadLetters, StreamsInv, Streams!TypeOK
<1>2. messages[m] \in Streams!StreamMessage
  BY <1>1 DEF StreamsInv, Streams!TypeOK, Streams!Stored
<1>3. /\ msg \in Streams!StreamMessage
      /\ msg.topic = messages[m].topic
  <2>1. count \in Nat
    BY <1>2 DEF Streams!StreamMessage
  <2> HIDE DEF count
  <2> QED BY <1>2, <2>1 DEF Streams!StreamMessage, Streams!Status
<1>4. letter \in Streams!DeadLetterEntry /\ ~letter.replayed
  BY <1>2 DEF Streams!StreamMessage, Streams!DeadLetterEntry
<1> HIDE DEF msg, letter
<1>5. msg # NoMessage /\ letter # NoEntry
  BY <1>3, <1>4, RouterConstants
<1>6. \A x \in Messages : /\ messages'[x] = IF x = m THEN msg ELSE messages[x]
                          /\ dlq'[x] = IF x = m THEN letter ELSE dlq[x]
  BY <1>1 DEF StreamsInv, Streams!TypeOK
<1>7. \A x \in Messages : /\ Streams!Stored(x)' <=> Streams!Stored(x)
                          /\ Streams!Stored(x) => messages'[x].topic = messages[x].topic
  BY <1>1, <1>3, <1>5, <1>6 DEF Streams!Stored
<1>8. Streams!TypeOK'
  BY <1>1, <1>3, <1>4 DEF StreamsInv, Streams!TypeOK
<1>9. \A x \in Messages : Streams!Waiting(x)' <=> Streams!Waiting(x) \/ x = m
  BY <1>4, <1>5, <1>6 DEF Streams!Waiting
<1>10. IdsAreUsed'
  BY <1>1, <1>6, <1>7 DEF StreamsInv, MessagesSound, IdsAreUsed
<1>11. AcksAreKept'
  BY <1>1, <1>5, <1>6, <1>7 DEF StreamsInv, MessagesSound, AcksAreKept
<1>12. Streams!DeadLettersWait'
  BY <1>6, <1>7, <1>9 DEF StreamsInv, MessagesSound, Streams!DeadLettersWait
<1>13. Streams!RedeliveredOnlyAfterDeath'
  <2>1. \A p \in again : p[1] \in Messages
    BY DEF StreamsInv, Streams!TypeOK
  <2> QED BY <1>1, <1>5, <1>6, <2>1
             DEF StreamsInv, MessagesSound, Streams!RedeliveredOnlyAfterDeath
<1>14. Streams!ReplayedOnce'
  <2>1. WaitingIds' = WaitingIds \cup {m}
    BY <1>9 DEF WaitingIds
  <2>2. /\ IsFiniteSet(WaitingIds \cup {m})
        /\ Cardinality(WaitingIds \cup {m}) =
             IF m \in WaitingIds THEN Cardinality(WaitingIds) ELSE Cardinality(WaitingIds) + 1
    BY WaitingFinite, FS_AddElement
  <2>3. Cardinality(WaitingIds) + replayed <= dead_lettered
    BY SameOperators DEF StreamsInv, Streams!ReplayedOnce, WaitingIds
  <2>4. Cardinality(WaitingIds') + replayed <= dead_lettered + 1
    BY <2>1, <2>2, <2>3, WaitingFinite DEF StreamsInv, Streams!TypeOK
  <2> QED BY <1>1, <2>4, SameOperators DEF Streams!ReplayedOnce, WaitingIds
<1>15. Streams!IndexConsistent' /\ Streams!OverflowOnlyByReplay'
  BY <1>1, <1>7, IndexFrame, OverflowFrame DEF StreamsInv
<1> QED BY <1>8, <1>10, <1>11, <1>12, <1>13, <1>14, <1>15 DEF StreamsInv, MessagesSound

-------------------------------------------------------------------------------
(* The stream router: publish                                                *)

\* What publish does to the index and to the messages, with or without a purge.
LEMMA PublishEffect ==
  ASSUME StreamsInv, NEW m \in Messages, NEW t \in Topics, NEW k \in Kinds,
         NEW retries \in RetryChoices,
         Streams!Publish(m, t, k, retries)
  PROVE  LET envelope == Streams!Envelope(t, k, retries)
             purges == Streams!OverLimit(Append(index[t], m))
             old == Head(Append(index[t], m))
         IN  /\ m \notin used
             /\ used' = used \cup {m}
             /\ messages' = [x \in Messages |->
                  IF purges /\ x = old THEN NoMessage ELSE IF x = m THEN envelope ELSE messages[x]]
             /\ index' = [u \in Topics |->
                  IF u # t THEN index[u]
                  ELSE IF purges THEN Tail(Append(index[t], m)) ELSE Append(index[t], m)]
             /\ UNCHANGED <<dlq, subs, dead_lettered, replayed, acked, again>>
<1> DEFINE grown == Append(index[t], m)
           envelope == Streams!Envelope(t, k, retries)
<1> HIDE DEF grown, envelope
<1>1. messages = [x \in Messages |-> messages[x]] /\ index = [u \in Topics |-> index[u]]
  BY DEF StreamsInv, Streams!TypeOK
<1>2. /\ m \notin used /\ used' = used \cup {m}
      /\ UNCHANGED <<dlq, subs, dead_lettered, replayed, acked, again>>
  BY DEF Streams!Publish
<1>3. CASE Streams!OverLimit(grown)
  <2>1. /\ index' = [index EXCEPT ![t] = Tail(grown)]
        /\ messages' = [messages EXCEPT ![m] = envelope, ![Head(grown)] = NoMessage]
    BY <1>3 DEF Streams!Publish, Streams!StoreAndPurge, grown, envelope
  <2>2. messages' = [x \in Messages |-> IF x = Head(grown) THEN NoMessage
                                        ELSE IF x = m THEN envelope ELSE messages[x]]
    BY <1>1, <2>1
  <2>3. index' = [u \in Topics |-> IF u # t THEN index[u] ELSE Tail(grown)]
    BY <1>1, <2>1
  <2> QED BY <1>2, <1>3, <2>2, <2>3 DEF grown, envelope
<1>4. CASE ~Streams!OverLimit(grown)
  <2>1. /\ index' = [index EXCEPT ![t] = grown]
        /\ messages' = [messages EXCEPT ![m] = envelope]
    BY <1>4 DEF Streams!Publish, grown, envelope
  <2>2. messages' = [x \in Messages |-> IF x = m THEN envelope ELSE messages[x]]
    BY <1>1, <2>1
  <2>3. index' = [u \in Topics |-> IF u # t THEN index[u] ELSE grown]
    BY <1>1, <2>1
  <2> QED BY <1>2, <1>4, <2>2, <2>3 DEF grown, envelope
<1> QED BY <1>3, <1>4

LEMMA PublishInv ==
  ASSUME StreamsInv, NEW m \in Messages, NEW t \in Topics, NEW k \in Kinds,
         NEW retries \in RetryChoices,
         Streams!Publish(m, t, k, retries)
  PROVE  StreamsInv'
<1> DEFINE envelope == Streams!Envelope(t, k, retries)
           grown == Append(index[t], m)
           purges == Streams!OverLimit(grown)
           old == Head(grown)
<1>1. /\ m \notin used /\ used' = used \cup {m}
      /\ messages' = [x \in Messages |->
           IF purges /\ x = old THEN NoMessage ELSE IF x = m THEN envelope ELSE messages[x]]
      /\ index' = [u \in Topics |-> IF u # t THEN index[u] ELSE IF purges THEN Tail(grown)
                                                               ELSE grown]
      /\ UNCHANGED <<dlq, subs, dead_lettered, replayed, acked, again>>
  BY PublishEffect
<1>2. /\ envelope \in Streams!StreamMessage /\ envelope # NoMessage
      /\ envelope.topic = t /\ envelope.status = "PENDING"
  BY Envelopes, RouterConstants
<1>3. ~Streams!Stored(m) /\ dlq[m] = NoEntry /\ \A g \in Groups : <<m, g>> \notin acked
  <2>1. ~Streams!Stored(m) /\ dlq[m] = NoEntry
    BY <1>1 DEF StreamsInv, MessagesSound, IdsAreUsed
  <2>2. \A g \in Groups : <<m, g>> \in acked => <<m, g>>[1] \in used
    BY DEF StreamsInv, MessagesSound, IdsAreUsed
  <2> QED BY <1>1, <2>1, <2>2
<1>4. index[t] \in Seq(Messages) /\ Distinct(index[t]) /\ ~Listed(index[t], m)
  BY <1>3, Distinctness DEF StreamsInv, Streams!TypeOK
<1>5. /\ grown \in Seq(Messages) /\ grown # <<>>
      /\ Len(grown) = Len(index[t]) + 1
      /\ Distinct(grown)
      /\ \A x \in Messages : Listed(grown, x) <=> Listed(index[t], x) \/ x = m
  <2>1. grown # <<>>
    BY <1>4
  <2> QED BY <1>4, <2>1, IndexAppend
<1> HIDE DEF envelope, grown
<1>6. /\ old \in Messages
      /\ Tail(grown) \in Seq(Messages)
      /\ Len(Tail(grown)) = Len(index[t])
      /\ Distinct(Tail(grown))
      /\ \A x \in Messages : Listed(Tail(grown), x) <=> Listed(grown, x) /\ x # old
      /\ Listed(grown, old)
  <2>1. Len(index[t]) \in Nat
    BY <1>4
  <2> QED BY <1>5, <2>1, IndexTail
<1> HIDE DEF purges, old
<1>7. Streams!TypeOK'
  <2>1. messages' \in [Messages -> Streams!StreamMessage \cup {NoMessage}]
    BY <1>1, <1>2 DEF StreamsInv, Streams!TypeOK
  <2>2. index' \in [Topics -> Seq(Messages)]
    BY <1>1, <1>5, <1>6 DEF StreamsInv, Streams!TypeOK
  <2> QED BY <1>1, <2>1, <2>2 DEF StreamsInv, Streams!TypeOK
<1>8. \A x \in Messages :
        /\ Streams!Stored(x)' <=> (Streams!Stored(x) \/ x = m) /\ ~(purges /\ x = old)
        /\ Streams!Stored(x)' /\ x # m => messages'[x] = messages[x]
        /\ Streams!Stored(x)' /\ x = m => messages'[x] = envelope
  BY <1>1, <1>2, <1>3 DEF Streams!Stored
<1>9. MessagesSound'
  <2>1. IdsAreUsed'
    BY <1>1, <1>8 DEF StreamsInv, MessagesSound, IdsAreUsed
  <2>2. AcksAreKept'
    BY <1>1, <1>3, <1>8 DEF StreamsInv, MessagesSound, AcksAreKept
  <2>3. Streams!DeadLettersWait'
    BY <1>1, <1>2, <1>8
       DEF StreamsInv, MessagesSound, Streams!DeadLettersWait, Streams!Waiting
  <2>4. Streams!RedeliveredOnlyAfterDeath'
    BY <1>1 DEF StreamsInv, MessagesSound, Streams!RedeliveredOnlyAfterDeath
  <2> QED BY <2>1, <2>2, <2>3, <2>4 DEF MessagesSound
<1>10. Streams!IndexConsistent'
  <2>1. ASSUME NEW u \in Topics PROVE Distinct(index'[u])
    BY <1>1, <1>5, <1>6, Distinctness DEF StreamsInv
  <2>2. ASSUME NEW u \in Topics, NEW x \in Messages
        PROVE  Listed(index'[u], x) <=> Streams!Stored(x)' /\ messages'[x].topic = u
    <3>1. Listed(index[u], x) <=> Streams!Stored(x) /\ messages[x].topic = u
      BY Distinctness DEF StreamsInv
    <3>2. purges /\ old # m => Streams!Stored(old) /\ messages[old].topic = t
      BY <1>5, <1>6, Distinctness DEF StreamsInv
    <3>3. CASE u = t
      <4>1. CASE purges
        <5>1. index'[u] = Tail(grown)
          BY <1>1, <3>3, <4>1
        <5>2. Listed(index'[u], x) <=> (Listed(index[t], x) \/ x = m) /\ x # old
          BY <1>5, <1>6, <5>1
        <5> QED BY <1>2, <1>3, <1>8, <3>1, <3>3, <4>1, <5>2
      <4>2. CASE ~purges
        <5>1. index'[u] = grown
          BY <1>1, <3>3, <4>2
        <5>2. Listed(index'[u], x) <=> Listed(index[t], x) \/ x = m
          BY <1>5, <5>1
        <5> QED BY <1>2, <1>3, <1>8, <3>1, <3>3, <4>2, <5>2
      <4> QED BY <4>1, <4>2
    <3>4. CASE u # t
      <4>1. index'[u] = index[u]
        BY <1>1, <3>4
      <4> QED BY <1>2, <1>3, <1>8, <3>1, <3>2, <3>4, <4>1
    <3> QED BY <3>3, <3>4
  <2> QED BY <2>1, <2>2 DEF Streams!IndexConsistent, Distinct, Listed
<1>11. Streams!OverflowOnlyByReplay'
  <2>1. ASSUME NEW u \in Topics PROVE Len(index'[u]) <= RetentionLimit + replayed'
    <3>1. /\ Len(index[u]) <= RetentionLimit + replayed
          /\ replayed' = replayed
          /\ replayed \in Nat
      BY <1>1 DEF StreamsInv, Streams!OverflowOnlyByReplay, Streams!TypeOK
    <3>2. CASE u = t /\ purges
      <4>1. index'[u] = Tail(grown)
        BY <1>1, <3>2
      <4> QED BY <1>6, <3>1, <3>2, <4>1
    <3>3. CASE u = t /\ ~purges
      <4>1. index'[u] = grown
        BY <1>1, <3>3
      <4>2. Len(grown) <= RetentionLimit
        BY <1>5, <3>3, RouterConstants DEF purges, Streams!OverLimit
      <4> QED BY <3>1, <4>1, <4>2, RouterConstants
    <3>4. CASE u # t
      BY <1>1, <3>1, <3>4
    <3> QED BY <3>2, <3>3, <3>4
  <2> QED BY <2>1 DEF Streams!OverflowOnlyByReplay
<1>12. Streams!ReplayedOnce'
  BY <1>1, QueueFrame DEF StreamsInv
<1> QED BY <1>7, <1>9, <1>10, <1>11, <1>12 DEF StreamsInv

-------------------------------------------------------------------------------
(* The stream router: replay_dead_letter, clear                              *)

\* What a replay does to the queue, whatever it does to the message.
LEMMA ReplayedEntry ==
  ASSUME StreamsInv, NEW m \in Messages, Streams!Replay(m)
  PROVE  /\ dlq' \in [Messages -> Streams!DeadLetterEntry \cup {NoEntry}]
         /\ dlq[m] \in Streams!DeadLetterEntry
         /\ dlq'[m] # NoEntry
         /\ \A x \in Messages : x # m => dlq'[x] = dlq[x]
         /\ \A x \in Messages : Streams!Waiting(x)' <=> Streams!Waiting(x) /\ x # m
         /\ Streams!ReplayedOnce'
<1> DEFINE letter == [dlq[m] EXCEPT !.replayed = TRUE]
<1>1. /\ Streams!Waiting(m)
      /\ dlq' = [dlq EXCEPT ![m] = letter]
      /\ replayed' = replayed + 1
      /\ dead_lettered' = dead_lettered
  BY DEF Streams!Replay, StreamsInv, Streams!TypeOK
<1>2. dlq[m] \in Streams!DeadLetterEntry
  BY <1>1 DEF Streams!Waiting, StreamsInv, Streams!TypeOK
<1>3. letter \in Streams!DeadLetterEntry /\ letter.replayed
  BY <1>2 DEF Streams!DeadLetterEntry
<1> HIDE DEF letter
<1>4. \A x \in Messages : dlq'[x] = IF x = m THEN letter ELSE dlq[x]
  BY <1>1 DEF StreamsInv, Streams!TypeOK
<1>5. dlq' \in [Messages -> Streams!DeadLetterEntry \cup {NoEntry}]
  BY <1>1, <1>3 DEF StreamsInv, Streams!TypeOK
<1>6. letter # NoEntry
  BY <1>3, RouterConstants
<1>7. \A x \in Messages : Streams!Waiting(x)' <=> Streams!Waiting(x) /\ x # m
  BY <1>3, <1>4, <1>6 DEF Streams!Waiting
<1>8. Streams!ReplayedOnce'
  <2>1. WaitingIds' = WaitingIds \ {m} /\ m \in WaitingIds
    BY <1>1, <1>7 DEF WaitingIds
  <2>2. Cardinality(WaitingIds \ {m}) = Cardinality(WaitingIds) - 1
    BY <2>1, WaitingFinite, FS_RemoveElement
  <2>3. Cardinality(WaitingIds) + replayed <= dead_lettered
    BY SameOperators DEF StreamsInv, Streams!ReplayedOnce, WaitingIds
  <2>4. Cardinality(WaitingIds') + (replayed + 1) <= dead_lettered
    BY <2>1, <2>2, <2>3, WaitingFinite DEF StreamsInv, Streams!TypeOK
  <2> QED BY <1>1, <2>4, SameOperators DEF Streams!ReplayedOnce, WaitingIds
<1> QED BY <1>2, <1>4, <1>5, <1>6, <1>7, <1>8

\* The message is stored still: it is pending anew.
LEMMA ReviveInv ==
  ASSUME StreamsInv, NEW m \in Messages, Streams!Replay(m), Streams!Stored(m)
  PROVE  StreamsInv'
<1> DEFINE msg == [messages[m] EXCEPT !.status = "PENDING", !.retry_count = 0,
                                      !.acknowledged_by = {}]
<1>1. /\ messages' = [messages EXCEPT ![m] = msg]
      /\ replayed' = replayed + 1
      /\ UNCHANGED <<index, subs, used, dead_lettered, acked, again>>
  BY DEF Streams!Replay, Streams!Revived, StreamsInv, Streams!TypeOK
<1>2. messages[m] \in Streams!StreamMessage
  BY DEF StreamsInv, Streams!TypeOK, Streams!Stored
<1>3. /\ msg \in Streams!StreamMessage
      /\ msg.topic = messages[m].topic
      /\ msg.status = "PENDING"
  BY <1>2 DEF Streams!StreamMessage, Streams!Status
<1> HIDE DEF msg
<1>4. msg # NoMessage
  BY <1>3, RouterConstants
<1>5. \A x \in Messages : messages'[x] = IF x = m THEN msg ELSE messages[x]
  BY <1>1 DEF StreamsInv, Streams!TypeOK
<1>6. \A x \in Messages : /\ Streams!Stored(x)' <=> Streams!Stored(x)
                          /\ Streams!Stored(x) => messages'[x].topic = messages[x].topic
  BY <1>3, <1>4, <1>5 DEF Streams!Stored
<1>7. Streams!TypeOK'
  BY <1>1, <1>3, ReplayedEntry DEF StreamsInv, Streams!TypeOK
<1>8. MessagesSound'
  <2>1. IdsAreUsed'
    BY <1>1, <1>6, ReplayedEntry DEF StreamsInv, MessagesSound, IdsAreUsed
  <2>2. AcksAreKept'
    BY <1>1, <1>5, <1>6, ReplayedEntry DEF StreamsInv, MessagesSound, AcksAreKept
  <2>3. Streams!DeadLettersWait'
    BY <1>3, <1>5, <1>6, ReplayedEntry DEF StreamsInv, MessagesSound, Streams!DeadLettersWait
  <2>4. Streams!RedeliveredOnlyAfterDeath'
    <3>1. \A p \in again : p[1] \in Messages
      BY DEF StreamsInv, Streams!TypeOK
    <3> QED BY <1>1, <3>1, ReplayedEntry
               DEF StreamsInv, MessagesSound, Streams!RedeliveredOnlyAfterDeath
  <2> QED BY <2>1, <2>2, <2>3, <2>4 DEF MessagesSound
<1>9. Streams!OverflowOnlyByReplay'
  <2>1. ASSUME NEW t \in Topics PROVE Len(index[t]) <= RetentionLimit + (replayed + 1)
    <3>1. index[t] \in Seq(Messages) /\ replayed \in Nat
      BY DEF StreamsInv, Streams!TypeOK
    <3>2. Len(index[t]) \in Nat
      BY <3>1
    <3> QED BY <3>1, <3>2, RouterConstants DEF StreamsInv, Streams!OverflowOnlyByReplay
  <2> QED BY <1>1, <2>1 DEF Streams!OverflowOnlyByReplay
<1>10. Streams!IndexConsistent'
  BY <1>1, <1>6, IndexFrame DEF StreamsInv
<1> QED BY <1>7, <1>8, <1>9, <1>10, ReplayedEntry DEF StreamsInv

\* Retention has dropped the message: it is made anew, at the end of its topic.
LEMMA RemakeInv ==
  ASSUME StreamsInv, NEW m \in Messages, Streams!Replay(m), ~Streams!Stored(m)
  PROVE  StreamsInv'
<1> DEFINE t == dlq[m].topic
           envelope == Streams!Envelope(dlq[m].topic, dlq[m].kind, DefaultRetries)
           longer == Append(index[t], m)
<1>1. /\ messages' = [messages EXCEPT ![m] = envelope]
      /\ index' = [index EXCEPT ![t] = longer]
      /\ replayed' = replayed + 1
      /\ UNCHANGED <<subs, used, dead_lettered, acked, again>>
  <2>1. /\ messages' = [messages EXCEPT ![m] = envelope]
        /\ index' = [index EXCEPT ![dlq[m].topic] = Append(index[dlq[m].topic], m)]
    BY DEF Streams!Replay, StreamsInv, Streams!TypeOK
  <2> QED BY <2>1 DEF Streams!Replay
<1>2. t \in Topics /\ dlq[m].kind \in Kinds
  BY ReplayedEntry DEF Streams!DeadLetterEntry
<1>3. /\ envelope \in Streams!StreamMessage /\ envelope # NoMessage
      /\ envelope.topic = t /\ envelope.status = "PENDING"
  BY <1>2, Envelopes, RouterConstants
<1>4. index[t] \in Seq(Messages) /\ Distinct(index[t]) /\ ~Listed(index[t], m)
  BY <1>2, Distinctness DEF StreamsInv, Streams!TypeOK
<1>5. /\ longer \in Seq(Messages)
      /\ Len(longer) = Len(index[t]) + 1
      /\ Distinct(longer)
      /\ \A x \in Messages : Listed(longer, x) <=> Listed(index[t], x) \/ x = m
  BY <1>4, IndexAppend
<1>6. m \in used
  BY ReplayedEntry, RouterConstants DEF StreamsInv, MessagesSound, IdsAreUsed
<1> HIDE DEF envelope, longer, t
<1>7. /\ \A x \in Messages : messages'[x] = IF x = m THEN envelope ELSE messages[x]
      /\ \A u \in Topics : index'[u] = IF u = t THEN longer ELSE index[u]
  BY <1>1, <1>2 DEF StreamsInv, Streams!TypeOK
<1>8. \A x \in Messages : Streams!Stored(x)' <=> Streams!Stored(x) \/ x = m
  BY <1>3, <1>7 DEF Streams!Stored
<1>9. Streams!TypeOK'
  <2>1. index' \in [Topics -> Seq(Messages)]
    BY <1>1, <1>2, <1>5 DEF StreamsInv, Streams!TypeOK
  <2>2. messages' \in [Messages -> Streams!StreamMessage \cup {NoMessage}]
    BY <1>1, <1>3 DEF StreamsInv, Streams!TypeOK
  <2> QED BY <1>1, <2>1, <2>2, ReplayedEntry DEF StreamsInv, Streams!TypeOK
<1>10. MessagesSound'
  <2>1. IdsAreUsed'
    BY <1>1, <1>6, <1>8, ReplayedEntry DEF StreamsInv, MessagesSound, IdsAreUsed
  <2>2. AcksAreKept'
    BY <1>1, <1>7, <1>8, ReplayedEntry DEF StreamsInv, MessagesSound, AcksAreKept
  <2>3. Streams!DeadLettersWait'
    BY <1>3, <1>7, <1>8, ReplayedEntry DEF StreamsInv, MessagesSound, Streams!DeadLettersWait
  <2>4. Streams!RedeliveredOnlyAfterDeath'
    <3>1. \A p \in again : p[1] \in Messages
      BY DEF StreamsInv, Streams!TypeOK
    <3> QED BY <1>1, <3>1, ReplayedEntry
               DEF StreamsInv, MessagesSound, Streams!RedeliveredOnlyAfterDeath
  <2> QED BY <2>1, <2>2, <2>3, <2>4 DEF MessagesSound
<1>11. Streams!IndexConsistent'
  <2>1. ASSUME NEW u \in Topics PROVE Distinct(index'[u])
    BY <1>5, <1>7, Distinctness DEF StreamsInv
  <2>2. ASSUME NEW u \in Topics, NEW x \in Messages
        PROVE  Listed(index'[u], x) <=> Streams!Stored(x)' /\ messages'[x].topic = u
    <3>1. Listed(index[u], x) <=> Streams!Stored(x) /\ messages[x].topic = u
      BY Distinctness DEF StreamsInv
    <3>2. Listed(index'[u], x) <=> Listed(index[u], x) \/ (u = t /\ x = m)
      BY <1>5, <1>7
    <3> QED BY <1>3, <1>7, <1>8, <3>1, <3>2
  <2> QED BY <2>1, <2>2 DEF Streams!IndexConsistent, Distinct, Listed
<1>12. Streams!OverflowOnlyByReplay'
  <2>1. ASSUME NEW u \in Topics PROVE Len(index'[u]) <= RetentionLimit + (replayed + 1)
    <3>1. index[u] \in Seq(Messages) /\ replayed \in Nat
      BY DEF StreamsInv, Streams!TypeOK
    <3>2. Len(index[u]) \in Nat
      BY <3>1
    <3>3. Len(index[u]) <= RetentionLimit + replayed
      BY DEF StreamsInv, Streams!OverflowOnlyByReplay
    <3>4. Len(index'[u]) <= Len(index[u]) + 1
      BY <1>5, <1>7, <3>2
    <3>5. Len(index'[u]) \in Nat
      BY <1>5, <1>7, <3>2
    <3> QED BY <3>1, <3>2, <3>3, <3>4, <3>5, RouterConstants
  <2> QED BY <1>1, <2>1 DEF Streams!OverflowOnlyByReplay
<1> QED BY <1>9, <1>10, <1>11, <1>12, ReplayedEntry DEF StreamsInv

LEMMA ClearStreamsInv == ASSUME StreamsInv, Streams!Clear PROVE StreamsInv'
<1>1. Streams!TypeOK'
  BY DEF Streams!Clear, StreamsInv, Streams!TypeOK
<1>2. \A m \in Messages : ~Streams!Stored(m)' /\ dlq'[m] = NoEntry /\ ~Streams!Waiting(m)'
  BY DEF Streams!Clear, Streams!Stored, Streams!Waiting
<1>3. MessagesSound'
  BY <1>2 DEF Streams!Clear, MessagesSound, IdsAreUsed, AcksAreKept, Streams!DeadLettersWait,
              Streams!RedeliveredOnlyAfterDeath
<1>4. Streams!IndexConsistent'
  BY <1>2 DEF Streams!Clear, Streams!IndexConsistent
<1>5. Streams!OverflowOnlyByReplay'
  BY RouterConstants DEF Streams!Clear, Streams!OverflowOnlyByReplay
<1>6. Streams!ReplayedOnce'
  <2>1. WaitingIds' = {}
    BY <1>2 DEF WaitingIds
  <2>2. Cardinality(WaitingIds') = 0
    BY <2>1, FS_EmptySet
  <2> QED BY <2>2, SameOperators DEF Streams!Clear, Streams!ReplayedOnce, WaitingIds
<1> QED BY <1>1, <1>3, <1>4, <1>5, <1>6 DEF StreamsInv

-------------------------------------------------------------------------------
(* The stream router: all steps                                              *)

LEMMA StreamsNext == StreamsInv /\ [Streams!Next]_Streams!vars => StreamsInv'
<1> SUFFICES ASSUME StreamsInv, [Streams!Next]_Streams!vars PROVE StreamsInv'
  OBVIOUS
<1>1. CASE UNCHANGED Streams!vars
  <2>1. subs' \in [SubIds -> Streams!Subscription \cup {NoSub}]
    BY <1>1 DEF Streams!vars, StreamsInv, Streams!TypeOK
  <2> QED BY <1>1, <2>1, SubsInv DEF Streams!vars
<1>2. ASSUME NEW m \in Messages, NEW t \in Topics, NEW k \in Kinds,
             NEW retries \in RetryChoices,
             Streams!Publish(m, t, k, retries)
      PROVE  StreamsInv'
  BY <1>2, PublishInv
<1>3. ASSUME NEW s \in SubIds, NEW g \in Groups, NEW pattern \in SUBSET Topics,
             NEW filter \in SUBSET Kinds, Streams!Subscribe(s, g, pattern, filter)
      PROVE  StreamsInv'
  BY <1>3, SubscribeInv
<1>4. ASSUME NEW s \in SubIds, Streams!Unsubscribe(s) PROVE StreamsInv'
  BY <1>4, UnsubscribeInv
<1>5. ASSUME NEW g \in Groups, NEW t \in Topics, NEW limit \in PollLimits,
             Streams!Poll(g, t, limit)
      PROVE  StreamsInv'
  BY <1>5, PollInv
<1>6. ASSUME NEW s \in SubIds, NEW g \in Groups, NEW t \in Topics, NEW limit \in PollLimits,
             Streams!PollAdHoc(s, g, t, limit)
      PROVE  StreamsInv'
  BY <1>6, PollAdHocInv
<1>7. ASSUME NEW s \in SubIds, NEW g \in Groups, NEW t \in Topics,
             Streams!PollAdHocRaises(s, g, t)
      PROVE  StreamsInv'
  BY <1>7, SubscribeInv DEF Streams!PollAdHocRaises
<1>8. ASSUME NEW m \in Messages, NEW g \in Groups, Streams!Acknowledge(m, g) PROVE StreamsInv'
  BY <1>8, AcknowledgeInv
<1>9. ASSUME NEW m \in Messages, Streams!NackRetries(m) PROVE StreamsInv'
  BY <1>9, NackRetriesInv
<1>10. ASSUME NEW m \in Messages, Streams!NackDeadLetters(m) PROVE StreamsInv'
  BY <1>10, NackDeadLettersInv
<1>11. ASSUME NEW m \in Messages, Streams!Replay(m) PROVE StreamsInv'
  BY <1>11, ReviveInv, RemakeInv
<1>12. CASE Streams!Clear
  BY <1>12, ClearStreamsInv
<1> QED BY <1>1, <1>2, <1>3, <1>4, <1>5, <1>6, <1>7, <1>8, <1>9, <1>10, <1>11, <1>12
           DEF Streams!Next

-------------------------------------------------------------------------------
(* Rate limits: the operators                                                *)

LEMMA Product ==
  ASSUME NEW a \in Nat, NEW b \in Nat
  PROVE  a * b \in Nat /\ (a + 1) * b = a * b + b /\ 1 * b = b /\ 0 * b = 0
OBVIOUS

\* One more than a rounding of a division leaves nothing of the dividend.
LEMMA RoundedEnough ==
  ASSUME NEW a \in Nat, NEW b \in Nat \ {0}, NEW q \in Limits!Rounded(a, b)
  PROVE  q \in Nat /\ (q + 1) * b >= a
<1> DEFINE m == q * b
<1>1. q \in Nat /\ 2 * (m - a) \in -b..b
  BY DEF Limits!Rounded
<1>2. m \in Nat /\ (q + 1) * b = m + b
  BY <1>1, Product
<1> HIDE DEF m
<1>3. m + b >= a
  BY <1>1, <1>2
<1> QED BY <1>1, <1>2, <1>3

\* The rule in force under a name.
LEMMA RuleInForce ==
  ASSUME Limits!ThrottlerAssumption, Limits!TypeOK, NEW k \in Limits!Charged,
         Limits!InForce(k)
  PROVE  /\ Limits!RuleOf(k) \in Limits!Rule
         /\ Limits!RuleOf(k).capacity \in Nat \ {0}
         /\ Limits!RuleOf(k).rate \in Nat
         /\ Limits!RuleOf(k).window \in Nat
<1>1. Limits!RuleOf(k) \in Limits!Rule
  BY DEF Limits!ThrottlerAssumption, Limits!TypeOK, Limits!Charged, Limits!InForce,
     Limits!RuleOf
<1> QED BY <1>1 DEF Limits!Rule

\* A client is charged under a rule that is in force.
LEMMA ChargedInForce ==
  ASSUME Limits!ThrottlerAssumption, Limits!TypeOK, NEW n \in Names \cup {Unknown}
  PROVE  /\ Limits!ChargedTo(n) \in Limits!Charged
         /\ Limits!RuleOf(Limits!ChargedTo(n)) \in Limits!Rule
         /\ Limits!InForce(Limits!ChargedTo(n))
<1>1. CASE n \in Names /\ rules[n] # NoRule
  <2>1. Limits!ChargedTo(n) = n /\ n # Fallback
    BY <1>1 DEF Limits!ChargedTo, Limits!ThrottlerAssumption
  <2> QED BY <1>1, <2>1 DEF Limits!Charged, Limits!RuleOf, Limits!InForce, Limits!TypeOK
<1>2. CASE ~(n \in Names /\ rules[n] # NoRule) /\ rules[Standard] # NoRule
  <2>1. Limits!ChargedTo(n) = Standard /\ Standard \in Names /\ Standard # Fallback
    BY <1>2 DEF Limits!ChargedTo, Limits!ThrottlerAssumption
  <2> QED BY <1>2, <2>1 DEF Limits!Charged, Limits!RuleOf, Limits!InForce, Limits!TypeOK
<1>3. CASE ~(n \in Names /\ rules[n] # NoRule) /\ rules[Standard] = NoRule
  <2>1. /\ Limits!ChargedTo(n) = Fallback
        /\ FallbackRule \in Limits!Rule
        /\ NoRule \notin Limits!Rule
    BY <1>3 DEF Limits!ChargedTo, Limits!ThrottlerAssumption
  <2> QED BY <2>1 DEF Limits!Charged, Limits!RuleOf, Limits!InForce
<1> QED BY <1>1, <1>2, <1>3

-------------------------------------------------------------------------------
(* Rate limits: the invariant                                                *)

\* Nothing is admitted in the future.
TotalsStand ==
  \A k \in Limits!Charged, t \in clock..MaxClock : admitted[k][t] = admitted[k][clock]

\* Buckets were last filled in the past.
BucketsArePast ==
  \A k \in Limits!Charged : buckets[k] # NoBucket => buckets[k].last_refill <= clock

\* Under a sliding window, what was admitted since a tick of the window is at the end
\* of the log.
WindowKept(k) ==
  Limits!RuleOf(k).algorithm = "sliding_window" =>
    \A start \in 0..clock + 1 : start > clock - Limits!RuleOf(k).window =>
      /\ Limits!AdmittedSince(k, start) \in 0..Len(logs[k])
      /\ Limits!AdmittedSince(k, start) <= Limits!RuleOf(k).capacity
      /\ \A j \in 0..Limits!AdmittedSince(k, start) - 1 : logs[k][Len(logs[k]) - j] >= start

\* Under a token bucket, what was admitted and what is there to be admitted are at
\* most the capacity and what was refilled meanwhile.
BucketKept(k) ==
  Limits!RuleOf(k).algorithm = "token_bucket" =>
    /\ buckets[k] = NoBucket => \A t \in 0..MaxClock : admitted[k][t] = 0
    /\ \A start \in 0..clock :
         Limits!AdmittedSince(k, start) + Limits!Refilled(k)
           <= Limits!RuleOf(k).capacity + (clock - start) * Limits!RuleOf(k).rate

\* After the time promised the tokens will be there, or the oldest of the requests that
\* fill the window, all of it but the place that is wanted, will have left it.
PromiseKept(k) ==
  promise[k] # NoPromise =>
    /\ promise[k].cost <= Limits!RuleOf(k).capacity
    /\ IF Limits!RuleOf(k).algorithm = "token_bucket"
       THEN IF clock > promise[k].due
            THEN Limits!Refilled(k) >= promise[k].cost
            ELSE Limits!Refilled(k) + (promise[k].due + 1 - clock) * Limits!RuleOf(k).rate
                   >= promise[k].cost
       ELSE \/ Len(Limits!Recent(k)) + promise[k].cost <= Limits!RuleOf(k).capacity
            \/ /\ Len(Limits!Recent(k)) + promise[k].cost = Limits!RuleOf(k).capacity + 1
               /\ Head(Limits!Recent(k)) + Limits!RuleOf(k).window <= promise[k].due

Kept(k) ==
  /\ promise[k] # NoPromise => Limits!InForce(k)
  /\ Limits!InForce(k) => WindowKept(k) /\ BucketKept(k) /\ PromiseKept(k)

LimitsInv ==
  /\ Limits!TypeOK /\ TotalsStand /\ BucketsArePast
  /\ \A k \in Limits!Charged : Kept(k)

-------------------------------------------------------------------------------
(* Rate limits: a name that a step does not touch, the passing of time       *)

\* What is said of a name depends on nothing but its rule, bucket, log and counts.
LEMMA UntouchedKept ==
  ASSUME NEW k \in Limits!Charged, Kept(k), clock' = clock,
         Limits!RuleOf(k)' = Limits!RuleOf(k),
         buckets'[k] = buckets[k], logs'[k] = logs[k], admitted'[k] = admitted[k],
         promise'[k] = promise[k]
  PROVE  Kept(k)'
<1>1. Limits!InForce(k)' = Limits!InForce(k)
  BY DEF Limits!InForce
<1>2. \A start : Limits!AdmittedSince(k, start)' = Limits!AdmittedSince(k, start)
  BY DEF Limits!AdmittedSince
<1>3. Limits!Refilled(k)' = Limits!Refilled(k)
  BY DEF Limits!Refilled
<1>4. Limits!Recent(k)' = Limits!Recent(k)
  <2>1. Limits!Within(k)' = Limits!Within(k)
    BY DEF Limits!Within
  <2> QED BY <2>1 DEF Limits!Recent
<1>5. WindowKept(k) => WindowKept(k)'
  BY <1>2 DEF WindowKept
<1>6. BucketKept(k) => BucketKept(k)'
  BY <1>2, <1>3 DEF BucketKept
<1>7. PromiseKept(k) => PromiseKept(k)'
  BY <1>3, <1>4 DEF PromiseKept
<1> QED BY <1>1, <1>5, <1>6, <1>7 DEF Kept

LEMMA BoundedFacts ==
  ASSUME NEW r \in Limits!Rule, NEW x \in Nat
  PROVE  /\ Limits!Bounded(x, r) \in Nat /\ Limits!Bounded(x, r) <= r.capacity
         /\ x <= r.capacity => Limits!Bounded(x, r) = x
         /\ Limits!Bounded(x + r.rate, r) <= Limits!Bounded(x, r) + r.rate
         /\ \/ Limits!Bounded(x + r.rate, r) = r.capacity
            \/ Limits!Bounded(x + r.rate, r) = Limits!Bounded(x, r) + r.rate
BY DEF Limits!Bounded, Limits!Rule

\* The tokens there are.
LEMMA RefilledFacts ==
  ASSUME Limits!TypeOK, BucketsArePast, NEW k \in Limits!Charged,
         Limits!RuleOf(k) \in Limits!Rule
  PROVE  Limits!Refilled(k) \in Nat /\ Limits!Refilled(k) <= Limits!RuleOf(k).capacity
<1>1. CASE buckets[k] = NoBucket
  BY <1>1 DEF Limits!Refilled, Limits!Rule
<1>2. CASE buckets[k] # NoBucket
  <2> DEFINE r == Limits!RuleOf(k)
             b == buckets[k]
  <2>1. b.tokens \in Nat /\ clock - b.last_refill \in Nat /\ r.rate \in Nat
    BY <1>2 DEF Limits!TypeOK, BucketsArePast, Limits!Rule
  <2>2. Limits!Refilled(k) = Limits!Bounded(b.tokens + (clock - b.last_refill) * r.rate, r)
    BY <1>2 DEF Limits!Refilled
  <2> HIDE DEF b, r
  <2>3. b.tokens + (clock - b.last_refill) * r.rate \in Nat
    BY <2>1, Product
  <2> QED BY <2>2, <2>3, BoundedFacts DEF r
<1> QED BY <1>1, <1>2

\* In a tick the tokens get as many more as the rate says, or the bucket is full.
LEMMA RefilledTick ==
  ASSUME Limits!TypeOK, BucketsArePast, NEW k \in Limits!Charged,
         Limits!RuleOf(k) \in Limits!Rule,
         clock' = clock + 1, buckets' = buckets, Limits!RuleOf(k)' = Limits!RuleOf(k)
  PROVE  /\ Limits!Refilled(k)' <= Limits!Refilled(k) + Limits!RuleOf(k).rate
         /\ Limits!Refilled(k)' \in Nat /\ Limits!Refilled(k)' <= Limits!RuleOf(k).capacity
         /\ \/ Limits!Refilled(k)' = Limits!RuleOf(k).capacity
            \/ Limits!Refilled(k)' = Limits!Refilled(k) + Limits!RuleOf(k).rate
<1>1. CASE buckets[k] = NoBucket
  BY <1>1 DEF Limits!Refilled, Limits!Rule
<1>2. CASE buckets[k] # NoBucket
  <2> DEFINE r == Limits!RuleOf(k)
             b == buckets[k]
             e == clock - b.last_refill
  <2>1. /\ b.tokens \in Nat /\ e \in Nat /\ r.rate \in Nat
        /\ (clock + 1) - b.last_refill = e + 1
    BY <1>2 DEF Limits!TypeOK, BucketsArePast, Limits!Rule
  <2>2. /\ Limits!Refilled(k) = Limits!Bounded(b.tokens + e * r.rate, r)
        /\ Limits!Refilled(k)' = Limits!Bounded(b.tokens + (e + 1) * r.rate, r)
    BY <1>2, <2>1 DEF Limits!Refilled
  <2> HIDE DEF b, e
  <2> DEFINE x == b.tokens + e * r.rate
  <2>3. x \in Nat /\ b.tokens + (e + 1) * r.rate = x + r.rate
    <3>1. e * r.rate \in Nat /\ (e + 1) * r.rate = e * r.rate + r.rate
      <4> HIDE DEF r
      <4> QED BY <2>1, Product
    <3> QED BY <2>1, <3>1
  <2> HIDE DEF x
  <2>4. x + r.rate \in Nat
    BY <2>1, <2>3
  <2> QED BY <2>2, <2>3, <2>4, BoundedFacts DEF x
<1> QED BY <1>1, <1>2

\* A name that nothing was admitted under since its rule was registered or reset.
LEMMA FreshKept ==
  ASSUME Limits!ThrottlerAssumption, Limits!TypeOK, BucketsArePast, NEW k \in Limits!Charged,
         Limits!InForce(k),
         \A t \in 0..MaxClock : admitted[k][t] = 0
  PROVE  WindowKept(k) /\ BucketKept(k)
<1>1. /\ clock \in 0..MaxClock /\ clock \in Nat /\ MaxClock \in Nat
      /\ Limits!RuleOf(k) \in Limits!Rule /\ Len(logs[k]) \in Nat
  <2>1. logs[k] \in Seq(0..MaxClock)
    BY DEF Limits!TypeOK
  <2>2. Len(logs[k]) \in Nat
    BY <2>1, SeqElements
  <2> QED BY <2>2, RuleInForce DEF Limits!TypeOK, Limits!ThrottlerAssumption
<1>2. ASSUME NEW start \in 0..clock + 1 PROVE Limits!AdmittedSince(k, start) = 0
  <2>1. start # 0 => start - 1 \in 0..MaxClock
    BY <1>1
  <2> QED BY <1>1, <2>1 DEF Limits!AdmittedSince
<1>3. WindowKept(k)
  BY <1>1, <1>2 DEF WindowKept, Limits!Rule
<1>4. BucketKept(k)
  <2>1. Limits!Refilled(k) \in Nat /\ Limits!Refilled(k) <= Limits!RuleOf(k).capacity
    BY <1>1, RefilledFacts
  <2>2. ASSUME NEW start \in 0..clock
        PROVE  Limits!AdmittedSince(k, start) + Limits!Refilled(k)
                 <= Limits!RuleOf(k).capacity + (clock - start) * Limits!RuleOf(k).rate
    <3> DEFINE m == (clock - start) * Limits!RuleOf(k).rate
    <3>1. /\ clock - start \in Nat
          /\ Limits!RuleOf(k).rate \in Nat
          /\ Limits!RuleOf(k).capacity \in Nat
      BY <1>1 DEF Limits!Rule
    <3>2. m \in Nat
      BY <3>1, Product
    <3>3. Limits!AdmittedSince(k, start) = 0
      BY <1>1, <1>2
    <3> HIDE DEF m
    <3>4. 0 + Limits!Refilled(k) <= Limits!RuleOf(k).capacity + m
      BY <2>1, <3>1, <3>2
    <3> QED BY <3>3, <3>4 DEF m
  <2> QED BY <2>2 DEF BucketKept
<1> QED BY <1>3, <1>4

\* The same of the state after a step.
LEMMA FreshKeptNext ==
  ASSUME Limits!ThrottlerAssumption, NEW k \in Limits!Charged
  PROVE  (Limits!TypeOK /\ BucketsArePast /\ Limits!InForce(k)
             /\ (\A t \in 0..MaxClock : admitted[k][t] = 0)
           => WindowKept(k) /\ BucketKept(k))'
<1>1. Limits!TypeOK /\ BucketsArePast /\ Limits!InForce(k)
          /\ (\A t \in 0..MaxClock : admitted[k][t] = 0)
        => WindowKept(k) /\ BucketKept(k)
  BY FreshKept
<1> QED BY <1>1, PTL

LEMMA SamePromiseKept ==
  ASSUME NEW k \in Limits!Charged, PromiseKept(k), clock' = clock,
         Limits!RuleOf(k)' = Limits!RuleOf(k),
         Limits!RuleOf(k).algorithm = "token_bucket"
           => Limits!Refilled(k)' = Limits!Refilled(k),
         Limits!RuleOf(k).algorithm # "token_bucket" => Limits!Recent(k)' = Limits!Recent(k),
         promise'[k] = promise[k]
  PROVE  PromiseKept(k)'
<1>1. CASE Limits!RuleOf(k).algorithm = "token_bucket"
  BY <1>1 DEF PromiseKept
<1>2. CASE Limits!RuleOf(k).algorithm # "token_bucket"
  BY <1>2 DEF PromiseKept
<1> QED BY <1>1, <1>2

-------------------------------------------------------------------------------
(* Rate limits: charging a client                                            *)

\* What a step counts as admitted, now and from now on.
Counts(k, cost) ==
  \A t \in 0..MaxClock :
    admitted'[k][t] = IF t < clock THEN admitted[k][t] ELSE admitted[k][t] + cost

LEMMA AdmittedCounts ==
  ASSUME Limits!ThrottlerAssumption, Limits!TypeOK, NEW k \in Limits!Charged,
         NEW cost \in Nat, Counts(k, cost),
         clock' = clock
  PROVE  /\ \A start \in 0..clock : Limits!AdmittedSince(k, start)' = Limits!AdmittedSince(k, start) + cost
         /\ \A start : start = clock + 1 => Limits!AdmittedSince(k, start)' = 0
         /\ \A start \in 0..clock + 1 : Limits!AdmittedSince(k, start) \in Int
<1>1. /\ clock \in 0..MaxClock /\ clock \in Nat /\ MaxClock \in Int
      /\ \A t \in 0..MaxClock : admitted[k][t] \in Nat
  BY DEF Limits!TypeOK, Limits!ThrottlerAssumption
<1>2. admitted'[k][clock] = admitted[k][clock] + cost
  BY <1>1 DEF Counts
<1>3. ASSUME NEW start \in 0..clock
      PROVE  Limits!AdmittedSince(k, start)' = Limits!AdmittedSince(k, start) + cost
  <2>1. CASE start = 0
    BY <1>1, <1>2, <2>1 DEF Limits!AdmittedSince
  <2>2. CASE start # 0
    <3>1. start - 1 \in 0..MaxClock /\ start - 1 < clock
      BY <1>1, <2>2
    <3>2. admitted'[k][start - 1] = admitted[k][start - 1]
      BY <3>1 DEF Counts
    <3> QED BY <1>1, <1>2, <2>2, <3>1, <3>2 DEF Limits!AdmittedSince
  <2> QED BY <2>1, <2>2
<1>4. ASSUME NEW start, start = clock + 1 PROVE Limits!AdmittedSince(k, start)' = 0
  <2>1. start # 0 /\ start - 1 = clock
    BY <1>1, <1>4
  <2>2. admitted'[k][clock] \in Nat
    BY <1>1, <1>2
  <2> QED BY <2>1, <2>2 DEF Limits!AdmittedSince
<1>5. ASSUME NEW start \in 0..clock + 1 PROVE Limits!AdmittedSince(k, start) \in Int
  <2>1. start # 0 => start - 1 \in 0..MaxClock
    BY <1>1
  <2> QED BY <1>1, <2>1 DEF Limits!AdmittedSince
<1> QED BY <1>3, <1>4, <1>5

\* What is in the log after a request.
LEMMA LogAfter ==
  ASSUME Limits!TypeOK, NEW k \in Limits!Charged, NEW cost \in Nat
  PROVE  LET t == Limits!Recent(k) \o [i \in 1..cost |-> clock]
         IN  /\ t \in Seq(0..MaxClock) /\ Limits!Recent(k) \in Seq(0..MaxClock)
             /\ Len(Limits!Recent(k)) \in Nat /\ Len(t) = Len(Limits!Recent(k)) + cost
             /\ \A i \in 1..Len(Limits!Recent(k)) : t[i] = Limits!Recent(k)[i]
             /\ \A i \in Len(Limits!Recent(k)) + 1..Len(Limits!Recent(k)) + cost : t[i] = clock
<1> DEFINE r == Limits!Recent(k)
           s == [i \in 1..cost |-> clock]
<1>1. r \in Seq(0..MaxClock) /\ Len(r) \in Nat
  <2>1. logs[k] \in Seq(0..MaxClock)
    BY DEF Limits!TypeOK
  <2> QED BY <2>1, SublistProperties, SameOperators DEF Limits!Recent
<1>2. s \in Seq(0..MaxClock) /\ Len(s) = cost /\ \A i \in 1..cost : s[i] = clock
  BY DEF Limits!TypeOK
<1> HIDE DEF r, s
<1>3. /\ r \o s \in Seq(0..MaxClock) /\ Len(r \o s) = Len(r) + cost
      /\ \A i \in 1..Len(r) + cost : (r \o s)[i] = IF i <= Len(r) THEN r[i] ELSE s[i - Len(r)]
  BY <1>1, <1>2, ConcatProperties
<1>4. \A i \in 1..Len(r) : (r \o s)[i] = r[i]
  BY <1>1, <1>3
<1>5. ASSUME NEW i \in Len(r) + 1..Len(r) + cost PROVE (r \o s)[i] = clock
  <2>1. i \in 1..Len(r) + cost /\ ~(i <= Len(r)) /\ i - Len(r) \in 1..cost
    BY <1>1
  <2> QED BY <1>2, <1>3, <2>1
<1> QED BY <1>1, <1>3, <1>4, <1>5 DEF r, s

\* What was admitted in the window is among the recent requests.
LEMMA RecentHolds ==
  ASSUME Limits!TypeOK, NEW k \in Limits!Charged, Limits!RuleOf(k).window \in Nat,
         NEW start \in Nat, start > clock - Limits!RuleOf(k).window, NEW a \in 0..Len(logs[k]),
         \A j \in 0..a - 1 : logs[k][Len(logs[k]) - j] >= start
  PROVE  /\ a <= Len(Limits!Recent(k))
         /\ \A j \in 0..a - 1 : Limits!Recent(k)[Len(Limits!Recent(k)) - j] >= start
<1> DEFINE s == logs[k]
           P == Limits!Within(k)
<1>1. /\ s \in Seq(0..MaxClock) /\ Len(s) \in Nat /\ clock \in Nat
      /\ \A i \in 1..Len(s) : s[i] \in Nat
  <2>1. s \in Seq(0..MaxClock) /\ clock \in Nat
    BY DEF Limits!TypeOK
  <2> HIDE DEF s, P
  <2>2. \A i \in 1..Len(s) : s[i] \in 0..MaxClock
    BY <2>1, SeqElements
  <2> QED BY <2>1, <2>2
<1>2. ASSUME NEW i \in Len(s) - a + 1..Len(s) PROVE i \in P
  <2> DEFINE j == Len(s) - i
  <2>1. i \in 1..Len(s) /\ j \in 0..a - 1 /\ Len(s) - j = i
    BY <1>1
  <2> HIDE DEF j
  <2>2. s[i] >= start /\ s[i] \in Nat
    <3>1. s[Len(s) - j] >= start
      BY <2>1
    <3>2. s[i] \in Nat
      BY <1>1, <2>1
    <3> QED BY <2>1, <3>1, <3>2
  <2>3. s[i] > clock - Limits!RuleOf(k).window
    BY <1>1, <2>2
  <2> QED BY <2>1, <2>3 DEF Limits!Within, Limits!After
<1> HIDE DEF P
<1>3. /\ a <= Len(Sublist(s, P))
      /\ \A j \in 0..a - 1 : Sublist(s, P)[Len(Sublist(s, P)) - j] = s[Len(s) - j]
  BY <1>1, <1>2, SublistSuffix
<1> QED BY <1>3, SameOperators DEF Limits!Recent, P

\* A request that fits, or costs nothing, keeps the window.
LEMMA ChargeKeepsWindow ==
  ASSUME Limits!ThrottlerAssumption, Limits!TypeOK, NEW k \in Limits!Charged,
         Limits!RuleOf(k) \in Limits!Rule, WindowKept(k),
         NEW cost \in Nat, Counts(k, cost),
         cost = 0 \/ Len(Limits!Recent(k)) + cost <= Limits!RuleOf(k).capacity,
         clock' = clock, Limits!RuleOf(k)' = Limits!RuleOf(k),
         logs'[k] = Limits!Recent(k) \o [i \in 1..cost |-> clock]
  PROVE  WindowKept(k)'
<1> SUFFICES ASSUME Limits!RuleOf(k).algorithm = "sliding_window",
                    NEW start \in 0..clock + 1, start > clock - Limits!RuleOf(k).window
             PROVE  /\ Limits!AdmittedSince(k, start)' \in 0..Len(logs'[k])
                    /\ Limits!AdmittedSince(k, start)' <= Limits!RuleOf(k).capacity
                    /\ \A j \in 0..Limits!AdmittedSince(k, start)' - 1 :
                         logs'[k][Len(logs'[k]) - j] >= start
  BY DEF WindowKept
<1> DEFINE r == Limits!Recent(k)
           t == logs'[k]
           a == Limits!AdmittedSince(k, start)
           b == Limits!AdmittedSince(k, start)'
           s == logs[k]
           cap == Limits!RuleOf(k).capacity
<1>1. /\ t \in Seq(0..MaxClock) /\ Len(r) \in Nat /\ Len(t) = Len(r) + cost
      /\ \A i \in 1..Len(r) : t[i] = r[i]
      /\ \A i \in Len(r) + 1..Len(r) + cost : t[i] = clock
  BY LogAfter
<1>2. /\ a \in 0..Len(s) /\ a <= cap /\ cap \in Nat /\ clock \in Nat
      /\ \A j \in 0..a - 1 : s[Len(s) - j] >= start
      /\ Limits!RuleOf(k).window \in Nat
  BY DEF WindowKept, Limits!Rule, Limits!TypeOK
<1>3. a <= Len(r) /\ \A j \in 0..a - 1 : r[Len(r) - j] >= start
  <2> HIDE DEF a
  <2>1. start \in Nat /\ start > clock - Limits!RuleOf(k).window
    BY <1>2
  <2> QED BY <1>2, <2>1, RecentHolds
<1>4. /\ start <= clock => b = a + cost
      /\ start = clock + 1 => b = 0
  BY AdmittedCounts
<1>5. a \in Nat
  BY <1>2
<1>6. cost = 0 \/ Len(r) + cost <= cap
  OBVIOUS
<1> HIDE DEF r, t, a, b, s, cap
<1>7. CASE start = clock + 1
  <2>1. b = 0 /\ 0..b - 1 = {} /\ Len(t) \in Nat
    BY <1>1, <1>4, <1>7
  <2> QED BY <1>2, <2>1 DEF b, t, cap
<1>8. CASE start <= clock
  <2>1. b = a + cost
    BY <1>4, <1>8
  <2>2. b \in 0..Len(t) /\ b <= cap
    BY <1>1, <1>2, <1>3, <1>5, <1>6, <2>1
  <2>3. ASSUME NEW j \in 0..b - 1 PROVE t[Len(t) - j] >= start
    <3> DEFINE i == Len(t) - j
    <3>1. CASE j < cost
      <4>1. i \in Len(r) + 1..Len(r) + cost
        BY <1>1, <1>5, <2>1, <3>1
      <4> HIDE DEF i
      <4>2. t[i] = clock
        BY <1>1, <4>1
      <4> QED BY <1>2, <1>8, <4>2 DEF i
    <3>2. CASE j >= cost
      <4> DEFINE m == j - cost
      <4>1. m \in 0..a - 1 /\ i = Len(r) - m /\ i \in 1..Len(r)
        BY <1>1, <1>3, <1>5, <2>1, <3>2
      <4> HIDE DEF m
      <4>2. r[Len(r) - m] >= start
        BY <1>3, <4>1
      <4>3. t[i] = r[i]
        BY <1>1, <4>1
      <4>4. r[i] >= start
        BY <4>1, <4>2
      <4> QED BY <4>3, <4>4
    <3>3. j \in Int /\ cost \in Int
      BY <1>5, <2>1
    <3> QED BY <3>1, <3>2, <3>3
  <2> QED BY <2>2, <2>3 DEF b, t, cap
<1>9. start = clock + 1 \/ start <= clock
  BY <1>2
<1> QED BY <1>7, <1>8, <1>9

\* After a request that is refused the log is what is recent of it, and stays so.
LEMMA RecentStays ==
  ASSUME Limits!TypeOK, NEW k \in Limits!Charged, NEW cost \in Nat, cost = 0,
         clock' = clock, Limits!RuleOf(k)' = Limits!RuleOf(k),
         logs'[k] = Limits!Recent(k) \o [i \in 1..cost |-> clock]
  PROVE  Limits!Recent(k)' = Limits!Recent(k)
<1> DEFINE r == Limits!Recent(k)
           s == logs[k]
           P == Limits!Within(k)
           Q == Limits!Within(k)'
<1>1. /\ r \in Seq(0..MaxClock) /\ logs'[k] \in Seq(0..MaxClock) /\ Len(logs'[k]) = Len(r)
      /\ \A i \in 1..Len(r) : logs'[k][i] = r[i]
  <2>1. /\ r \in Seq(0..MaxClock) /\ logs'[k] \in Seq(0..MaxClock) /\ Len(r) \in Nat
        /\ Len(logs'[k]) = Len(r) + cost
        /\ \A i \in 1..Len(r) : logs'[k][i] = r[i]
    BY LogAfter
  <2> HIDE DEF r
  <2> QED BY <2>1
<1>2. logs'[k] = r
  <2> HIDE DEF r
  <2> QED BY <1>1, SeqEqual
<1>3. \A i \in 1..Len(r) : Limits!After(r[i], clock - Limits!RuleOf(k).window)
  <2>1. s \in Seq(0..MaxClock)
    BY DEF Limits!TypeOK
  <2>2. r = Sublist(s, P)
    BY SameOperators DEF Limits!Recent
  <2>3. \A i \in P : Limits!After(s[i], clock - Limits!RuleOf(k).window)
    BY DEF Limits!Within
  <2> HIDE DEF r, s, P
  <2>4. \A j \in 1..Len(Sublist(s, P)) : \E i \in 1..Len(s) : i \in P /\ Sublist(s, P)[j] = s[i]
    BY <2>1, SublistProperties
  <2> QED BY <2>2, <2>3, <2>4
<1>4. \A i \in 1..Len(r) : i \in Q
  BY <1>2, <1>3 DEF Limits!Within
<1>5. Limits!Recent(k)' = Sublist(r, Q)
  BY <1>2, SameOperators DEF Limits!Recent
<1> HIDE DEF r, Q
<1>6. Sublist(r, Q) = r
  BY <1>1, <1>4, SublistWhole
<1> QED BY <1>5, <1>6 DEF r

\* A request takes its cost from the tokens.
LEMMA ChargeKeepsBucket ==
  ASSUME Limits!ThrottlerAssumption, Limits!TypeOK, BucketsArePast, NEW k \in Limits!Charged,
         Limits!RuleOf(k) \in Limits!Rule,
         BucketKept(k), Limits!RuleOf(k).algorithm = "token_bucket",
         NEW cost \in Nat, Counts(k, cost), cost <= Limits!Refilled(k),
         clock' = clock, Limits!RuleOf(k)' = Limits!RuleOf(k),
         buckets'[k] = [tokens |-> Limits!Refilled(k) - cost, last_refill |-> clock]
  PROVE  BucketKept(k)' /\ Limits!Refilled(k)' = Limits!Refilled(k) - cost
<1> DEFINE x == Limits!Refilled(k)
           r == Limits!RuleOf(k)
<1>1. x \in Nat /\ x <= r.capacity /\ cost <= x
  BY RefilledFacts
<1>2. clock \in Nat /\ r.rate \in Nat /\ r.capacity \in Nat
  BY DEF Limits!TypeOK, Limits!Rule
<1>3. buckets'[k] # NoBucket
  <2> HIDE DEF x
  <2>1. [tokens |-> x - cost, last_refill |-> clock]
          \in [tokens : Nat, last_refill : 0..MaxClock]
    BY <1>1 DEF Limits!TypeOK
  <2> QED BY <2>1 DEF Limits!ThrottlerAssumption, x
<1>4. Limits!Refilled(k)' = x - cost
  <2>1. Limits!Refilled(k)' = Limits!Bounded((x - cost) + (clock - clock) * r.rate, r)
    BY <1>3 DEF Limits!Refilled
  <2> HIDE DEF x
  <2>2. x - cost \in Nat /\ x - cost <= r.capacity /\ (clock - clock) * r.rate = 0
    BY <1>1, <1>2
  <2>3. (x - cost) + (clock - clock) * r.rate = x - cost
    BY <1>1, <2>2
  <2> QED BY <2>1, <2>2, <2>3, BoundedFacts
<1>5. ASSUME NEW start \in 0..clock
      PROVE  Limits!AdmittedSince(k, start)' + Limits!Refilled(k)'
               <= r.capacity + (clock - start) * r.rate
  <2> DEFINE a == Limits!AdmittedSince(k, start)
             m == (clock - start) * r.rate
  <2>1. a + x <= r.capacity + m
    BY DEF BucketKept
  <2>2. Limits!AdmittedSince(k, start)' = a + cost
    BY AdmittedCounts
  <2>3. a \in Int /\ m \in Nat
    <3>1. a \in Int
      BY <1>2, AdmittedCounts
    <3>2. clock - start \in Nat
      BY <1>2
    <3> QED BY <1>2, <3>1, <3>2, Product
  <2> HIDE DEF a, m, x
  <2>4. (a + cost) + (x - cost) <= r.capacity + m
    BY <1>1, <1>2, <2>1, <2>3
  <2> QED BY <1>4, <2>2, <2>4 DEF m
<1> QED BY <1>3, <1>4, <1>5 DEF BucketKept

\* What charging does, of a request that fits and, with no cost, of any.
LEMMA ChargeKeeps ==
  ASSUME Limits!ThrottlerAssumption, LimitsInv, NEW k \in Limits!Charged,
         Limits!RuleOf(k) \in Limits!Rule, Limits!InForce(k),
         NEW cost \in Nat, cost = 0 \/ Limits!Fits(k, cost), Limits!Charge(k, cost), Counts(k, cost),
         clock' = clock, rules' = rules
  PROVE  /\ buckets'
              \in [Limits!Charged -> [tokens : Nat, last_refill : 0..MaxClock] \cup {NoBucket}]
         /\ logs' \in [Limits!Charged -> Seq(0..MaxClock)]
         /\ BucketsArePast'
         /\ \A j \in Limits!Charged : j # k => buckets'[j] = buckets[j] /\ logs'[j] = logs[j]
         /\ \A j \in Limits!Charged : Limits!RuleOf(j)' = Limits!RuleOf(j)
         /\ WindowKept(k)' /\ BucketKept(k)'
         /\ Limits!RuleOf(k).algorithm = "token_bucket"
              => Limits!Refilled(k)' = Limits!Refilled(k) - cost
         /\ Limits!RuleOf(k).algorithm # "token_bucket" /\ cost = 0
              => Limits!Recent(k)' = Limits!Recent(k)
<1>1. Limits!TypeOK /\ BucketsArePast /\ WindowKept(k) /\ BucketKept(k)
  BY DEF LimitsInv, Kept
<1>2. \A j \in Limits!Charged : Limits!RuleOf(j)' = Limits!RuleOf(j)
  BY DEF Limits!RuleOf
<1>3. CASE Limits!RuleOf(k).algorithm = "token_bucket"
  <2> DEFINE x == Limits!Refilled(k)
             b == [tokens |-> x - cost, last_refill |-> clock]
  <2>1. x \in Nat /\ cost <= x
    <3>1. x \in Nat
      BY <1>1, RefilledFacts
    <3> QED BY <1>3, <3>1 DEF Limits!Fits, Limits!Covers
  <2>2. buckets' = [buckets EXCEPT ![k] = b] /\ logs' = logs
    BY <1>3 DEF Limits!Charge
  <2>3. b \in [tokens : Nat, last_refill : 0..MaxClock] /\ b.last_refill = clock
    <3> HIDE DEF x
    <3> QED BY <1>1, <2>1 DEF Limits!TypeOK
  <2>4. buckets'[k] = b /\ \A j \in Limits!Charged : j # k => buckets'[j] = buckets[j]
    BY <1>1, <2>2 DEF Limits!TypeOK
  <2>5. BucketKept(k)' /\ Limits!Refilled(k)' = Limits!Refilled(k) - cost
    BY <1>1, <1>2, <1>3, <2>1, <2>4, ChargeKeepsBucket
  <2>6. WindowKept(k)'
    BY <1>2, <1>3 DEF WindowKept
  <2> HIDE DEF b, x
  <2>7. buckets'
          \in [Limits!Charged -> [tokens : Nat, last_refill : 0..MaxClock] \cup {NoBucket}]
    BY <1>1, <2>2, <2>3 DEF Limits!TypeOK
  <2>8. BucketsArePast'
    <3>1. clock <= clock
      BY <1>1 DEF Limits!TypeOK
    <3> QED BY <1>1, <2>3, <2>4, <3>1 DEF BucketsArePast
  <2> QED BY <1>1, <1>2, <1>3, <2>2, <2>4, <2>5, <2>6, <2>7, <2>8 DEF Limits!TypeOK, x
<1>4. CASE Limits!RuleOf(k).algorithm # "token_bucket"
  <2> DEFINE t == Limits!Recent(k) \o [i \in 1..cost |-> clock]
  <2>1. logs' = [logs EXCEPT ![k] = t] /\ buckets' = buckets
    BY <1>4 DEF Limits!Charge
  <2>2. t \in Seq(0..MaxClock)
    BY <1>1, LogAfter
  <2>3. logs'[k] = t /\ \A j \in Limits!Charged : j # k => logs'[j] = logs[j]
    BY <1>1, <2>1 DEF Limits!TypeOK
  <2>4. WindowKept(k)'
    <3>1. cost = 0 \/ Len(Limits!Recent(k)) + cost <= Limits!RuleOf(k).capacity
      BY <1>4 DEF Limits!Fits
    <3> QED BY <1>1, <1>2, <2>3, <3>1, ChargeKeepsWindow
  <2>5. BucketKept(k)'
    BY <1>2, <1>4 DEF BucketKept
  <2>6. cost = 0 => Limits!Recent(k)' = Limits!Recent(k)
    BY <1>1, <1>2, <2>3, RecentStays
  <2> HIDE DEF t
  <2>7. logs' \in [Limits!Charged -> Seq(0..MaxClock)]
    BY <1>1, <2>1, <2>2 DEF Limits!TypeOK
  <2>8. BucketsArePast'
    BY <1>1, <2>1 DEF BucketsArePast
  <2> QED BY <1>1, <1>2, <1>4, <2>1, <2>3, <2>4, <2>5, <2>6, <2>7, <2>8 DEF Limits!TypeOK
<1> QED BY <1>3, <1>4

-------------------------------------------------------------------------------
(* Rate limits: the steps                                                    *)

LEMMA LimitsInit == ASSUME Limits!ThrottlerAssumption PROVE Limits!Init => LimitsInv
<1> SUFFICES ASSUME Limits!Init PROVE LimitsInv
  OBVIOUS
<1>1. MaxClock \in Nat /\ clock = 0 /\ StandardRule \in Limits!Rule
  BY DEF Limits!Init, Limits!ThrottlerAssumption
<1>2. Limits!TypeOK
  <2>1. Limits!Nothing \in [0..MaxClock -> Nat] /\ 0 \in 0..MaxClock
    BY <1>1 DEF Limits!Nothing
  <2>2. <<>> \in Seq(0..MaxClock)
    OBVIOUS
  <2> QED BY <1>1, <2>1, <2>2 DEF Limits!Init, Limits!TypeOK
<1>3. \A k \in Limits!Charged : /\ buckets[k] = NoBucket /\ promise[k] = NoPromise
                         /\ \A t \in 0..MaxClock : admitted[k][t] = 0
  BY DEF Limits!Init, Limits!Nothing
<1>4. TotalsStand /\ BucketsArePast
  BY <1>1, <1>3 DEF TotalsStand, BucketsArePast
<1>5. ASSUME NEW k \in Limits!Charged, Limits!InForce(k) PROVE WindowKept(k) /\ BucketKept(k)
  BY <1>2, <1>3, <1>4, <1>5, FreshKept
<1> QED BY <1>2, <1>3, <1>4, <1>5 DEF LimitsInv, Kept, PromiseKept

LEMMA AdmitInv ==
  ASSUME Limits!ThrottlerAssumption, LimitsInv, NEW n \in Names \cup {Unknown},
         NEW cost \in Costs,
         Limits!Admit(n, cost), NEW k, k = Limits!ChargedTo(n)
  PROVE  LimitsInv'
<1> DEFINE total ==
      [t \in 0..MaxClock |-> IF t < clock THEN admitted[k][t] ELSE admitted[k][t] + cost]
<1>1. /\ Limits!TypeOK /\ TotalsStand /\ BucketsArePast /\ cost \in Nat
      /\ \A j \in Limits!Charged : Kept(j)
  BY DEF LimitsInv, Limits!ThrottlerAssumption
<1>2. k \in Limits!Charged /\ Limits!RuleOf(k) \in Limits!Rule /\ Limits!InForce(k)
  BY <1>1, ChargedInForce
<1>3. /\ Limits!Fits(k, cost) /\ Limits!Charge(k, cost) /\ ban' = 0
      /\ admitted' = [admitted EXCEPT ![k] = total]
      /\ promise' = [promise EXCEPT ![k] = NoPromise]
      /\ clock' = clock /\ rules' = rules
  BY DEF Limits!Admit
<1>4. /\ clock \in 0..MaxClock /\ MaxClock \in Nat
      /\ \A j \in Limits!Charged, t \in 0..MaxClock : admitted[j][t] \in Nat
  BY <1>1 DEF Limits!TypeOK, Limits!ThrottlerAssumption
<1>5. total \in [0..MaxClock -> Nat]
  BY <1>1, <1>2, <1>4
<1>6. /\ admitted' \in [Limits!Charged -> [0..MaxClock -> Nat]]
      /\ admitted'[k] = total
      /\ \A j \in Limits!Charged : j # k => admitted'[j] = admitted[j]
  <2> HIDE DEF total
  <2> QED BY <1>1, <1>2, <1>3, <1>5 DEF Limits!TypeOK
<1>7. Counts(k, cost)
  BY <1>6 DEF Counts
<1>8. /\ promise' \in [Limits!Charged -> [cost : Costs, due : Nat] \cup {NoPromise}]
      /\ promise'[k] = NoPromise
      /\ \A j \in Limits!Charged : j # k => promise'[j] = promise[j]
  BY <1>1, <1>2, <1>3 DEF Limits!TypeOK
<1>9. /\ buckets'
           \in [Limits!Charged -> [tokens : Nat, last_refill : 0..MaxClock] \cup {NoBucket}]
      /\ logs' \in [Limits!Charged -> Seq(0..MaxClock)]
      /\ BucketsArePast'
      /\ \A j \in Limits!Charged : j # k => buckets'[j] = buckets[j] /\ logs'[j] = logs[j]
      /\ \A j \in Limits!Charged : Limits!RuleOf(j)' = Limits!RuleOf(j)
      /\ WindowKept(k)' /\ BucketKept(k)'
  <2> HIDE DEF total
  <2> QED BY <1>1, <1>2, <1>3, <1>7, ChargeKeeps
<1> HIDE DEF total
<1>10. Limits!TypeOK'
  BY <1>1, <1>3, <1>6, <1>8, <1>9 DEF Limits!TypeOK
<1>11. TotalsStand'
  <2> SUFFICES ASSUME NEW j \in Limits!Charged, NEW t \in clock..MaxClock
               PROVE  admitted'[j][t] = admitted'[j][clock]
    BY <1>3 DEF TotalsStand
  <2>1. t \in 0..MaxClock /\ ~(t < clock) /\ ~(clock < clock)
    BY <1>4
  <2>2. admitted[j][t] = admitted[j][clock]
    BY <1>1 DEF TotalsStand
  <2>3. CASE j = k
    BY <1>4, <1>7, <2>1, <2>2, <2>3 DEF Counts
  <2> QED BY <1>6, <2>2, <2>3
<1>12. ASSUME NEW j \in Limits!Charged, j # k PROVE Kept(j)'
  BY <1>1, <1>3, <1>6, <1>8, <1>9, <1>12, UntouchedKept
<1>13. Kept(k)'
  BY <1>2, <1>8, <1>9 DEF Kept, PromiseKept
<1> QED BY <1>9, <1>10, <1>11, <1>12, <1>13 DEF LimitsInv

\* The tokens that are lacking will have come by the time promised.
LEMMA TokensWillCome ==
  ASSUME Limits!ThrottlerAssumption, Limits!TypeOK, BucketsArePast, NEW k \in Limits!Charged,
         Limits!RuleOf(k) \in Limits!Rule,
         NEW cost \in Nat, ~Limits!Fits(k, cost), Limits!RuleOf(k).algorithm = "token_bucket",
         Limits!RuleOf(k).rate >= RateFloor, NEW due \in Limits!RetryAt(k, cost)
  PROVE  /\ due \in Nat /\ due >= clock
         /\ Limits!Refilled(k) + (due + 1 - clock) * Limits!RuleOf(k).rate >= cost
<1> DEFINE x == Limits!Refilled(k)
           rate == Limits!RuleOf(k).rate
<1>1. x \in Nat /\ x < cost /\ cost - x \in Nat
  <2>1. x \in Nat
    BY RefilledFacts
  <2> QED BY <2>1 DEF Limits!Fits, Limits!Covers
<1>2. rate \in Nat \ {0} /\ clock \in Nat
  BY DEF Limits!Rule, Limits!TypeOK, Limits!ThrottlerAssumption
<1>3. PICK wait \in Limits!Rounded(cost - x, rate) : due = clock + wait
  <2>1. (IF rate > RateFloor THEN rate ELSE RateFloor) = rate
    BY <1>2 DEF Limits!ThrottlerAssumption
  <2> QED BY <2>1 DEF Limits!RetryAt, Limits!WaitForTokens
<1> HIDE DEF x, rate
<1>4. wait \in Nat /\ (wait + 1) * rate >= cost - x
  BY <1>1, <1>2, <1>3, RoundedEnough
<1>5. due + 1 - clock = wait + 1 /\ due \in Nat /\ due >= clock
  BY <1>2, <1>3, <1>4
<1>6. x + (wait + 1) * rate >= cost
  <2> DEFINE m == (wait + 1) * rate
  <2>1. m \in Nat /\ m >= cost - x
    <3>1. wait + 1 \in Nat
      BY <1>4
    <3> QED BY <1>2, <1>4, <3>1, Product
  <2> HIDE DEF m
  <2>2. x + m >= cost
    BY <1>1, <2>1
  <2> QED BY <2>2 DEF m
<1> QED BY <1>5, <1>6 DEF x, rate

\* When the window lacks one place, its oldest request will leave it in time.
LEMMA OldestWillLeave ==
  ASSUME Limits!TypeOK, NEW k \in Limits!Charged, Limits!RuleOf(k) \in Limits!Rule,
         NEW cost \in Nat,
         Limits!Meaningful(k, cost), Limits!RuleOf(k).algorithm # "token_bucket",
         NEW due \in Limits!RetryAt(k, cost)
  PROVE  /\ due \in Nat
         /\ due = Head(Limits!Recent(k)) + Limits!RuleOf(k).window
         /\ Len(Limits!Recent(k)) + cost = Limits!RuleOf(k).capacity + 1
<1> DEFINE r == Limits!Recent(k)
<1>1. r \in Seq(0..MaxClock) /\ Len(r) \in Nat
  <2>1. logs[k] \in Seq(0..MaxClock)
    BY DEF Limits!TypeOK
  <2> QED BY <2>1, SublistProperties, SameOperators DEF Limits!Recent
<1>2. Len(r) + cost = Limits!RuleOf(k).capacity + 1 /\ cost <= Limits!RuleOf(k).capacity
  BY DEF Limits!Meaningful
<1>3. Limits!RuleOf(k).capacity \in Nat /\ Limits!RuleOf(k).window \in Nat
  BY DEF Limits!Rule
<1>4. due = (IF r = <<>> THEN clock ELSE Head(r)) + Limits!RuleOf(k).window
  BY DEF Limits!RetryAt
<1> HIDE DEF r
<1>5. Len(r) > 0
  BY <1>1, <1>2, <1>3
<1>6. r # <<>> /\ Head(r) = r[1] /\ 1 \in 1..Len(r)
  BY <1>1, <1>5
<1>7. Head(r) \in Nat
  <2>1. r[1] \in 0..MaxClock
    BY <1>1, <1>6, SeqElements
  <2> QED BY <1>6, <2>1
<1> QED BY <1>2, <1>3, <1>4, <1>6, <1>7 DEF r

LEMMA RefuseInv ==
  ASSUME Limits!ThrottlerAssumption, LimitsInv, NEW n \in Names \cup {Unknown},
         NEW cost \in Costs,
         Limits!Refuse(n, cost), NEW k, k = Limits!ChargedTo(n)
  PROVE  LimitsInv'
<1>0. PICK due \in Limits!RetryAt(k, cost) :
        promise' = [promise EXCEPT ![k] =
          IF Limits!Meaningful(k, cost) THEN [cost |-> cost, due |-> due] ELSE @]
  BY DEF Limits!Refuse
<1> DEFINE new == [cost |-> cost, due |-> due]
<1>1. /\ Limits!TypeOK /\ TotalsStand /\ BucketsArePast /\ cost \in Nat
      /\ \A j \in Limits!Charged : Kept(j)
  BY DEF LimitsInv, Limits!ThrottlerAssumption
<1>2. k \in Limits!Charged /\ Limits!RuleOf(k) \in Limits!Rule /\ Limits!InForce(k)
  BY <1>1, ChargedInForce
<1>3. /\ ~Limits!Fits(k, cost) /\ Limits!Charge(k, 0) /\ ban' = 0
      /\ promise' = [promise EXCEPT ![k] = IF Limits!Meaningful(k, cost) THEN new ELSE promise[k]]
      /\ clock' = clock /\ rules' = rules /\ admitted' = admitted
  BY <1>0 DEF Limits!Refuse
<1>4. /\ promise'[k] = IF Limits!Meaningful(k, cost) THEN new ELSE promise[k]
      /\ \A j \in Limits!Charged : j # k => promise'[j] = promise[j]
  <2> HIDE DEF new
  <2> QED BY <1>1, <1>2, <1>3 DEF Limits!TypeOK
<1>5. Counts(k, 0)
  <2>1. \A t \in 0..MaxClock : admitted[k][t] \in Nat
    BY <1>1, <1>2 DEF Limits!TypeOK
  <2>2. \A t \in 0..MaxClock : admitted[k][t] = admitted[k][t] + 0
    BY <2>1
  <2> QED BY <1>3, <2>2 DEF Counts
<1> HIDE DEF new
<1>6. /\ buckets'
           \in [Limits!Charged -> [tokens : Nat, last_refill : 0..MaxClock] \cup {NoBucket}]
      /\ logs' \in [Limits!Charged -> Seq(0..MaxClock)]
      /\ BucketsArePast'
      /\ \A j \in Limits!Charged : j # k => buckets'[j] = buckets[j] /\ logs'[j] = logs[j]
      /\ \A j \in Limits!Charged : Limits!RuleOf(j)' = Limits!RuleOf(j)
      /\ WindowKept(k)' /\ BucketKept(k)'
      /\ Limits!RuleOf(k).algorithm = "token_bucket"
           => Limits!Refilled(k)' = Limits!Refilled(k) - 0
      /\ Limits!RuleOf(k).algorithm # "token_bucket" => Limits!Recent(k)' = Limits!Recent(k)
  BY <1>2, <1>3, <1>5, ChargeKeeps
<1>7. Limits!Meaningful(k, cost)
        => new.due \in Nat /\ new.cost = cost /\ new.due = due
  <2>1. new.cost = cost /\ new.due = due
    BY DEF new
  <2> QED BY <1>1, <1>2, <1>3, <2>1, TokensWillCome, OldestWillLeave DEF Limits!Meaningful
<1>8. Limits!TypeOK'
  <2>1. Limits!Meaningful(k, cost) => new \in [cost : Costs, due : Nat]
    BY <1>7 DEF new
  <2>2. promise' \in [Limits!Charged -> [cost : Costs, due : Nat] \cup {NoPromise}]
    BY <1>1, <1>2, <1>3, <2>1 DEF Limits!TypeOK
  <2> QED BY <1>1, <1>3, <1>6, <2>2 DEF Limits!TypeOK
<1>9. TotalsStand'
  BY <1>1, <1>3 DEF TotalsStand
<1>10. ASSUME NEW j \in Limits!Charged, j # k PROVE Kept(j)'
  BY <1>1, <1>3, <1>4, <1>6, <1>10, UntouchedKept
<1>11. /\ Limits!RuleOf(k).algorithm = "token_bucket"
            => Limits!Refilled(k)' = Limits!Refilled(k)
       /\ Limits!InForce(k)'
  <2>1. Limits!Refilled(k) \in Nat
    BY <1>1, <1>2, RefilledFacts
  <2> QED BY <1>2, <1>6, <2>1 DEF Limits!InForce
<1>12. CASE ~Limits!Meaningful(k, cost)
  <2>1. promise'[k] = promise[k] /\ PromiseKept(k)
    BY <1>1, <1>2, <1>4, <1>12 DEF Kept
  <2>2. PromiseKept(k)'
    BY <1>2, <1>3, <1>6, <1>11, <2>1, SamePromiseKept
  <2>3. Kept(k)'
    BY <1>6, <1>11, <2>2 DEF Kept
  <2> QED BY <1>6, <1>8, <1>9, <1>10, <2>3 DEF LimitsInv
<1>13. CASE Limits!Meaningful(k, cost)
  <2>1. promise'[k] = new /\ cost <= Limits!RuleOf(k).capacity
    BY <1>4, <1>13 DEF Limits!Meaningful
  <2>2. ASSUME Limits!RuleOf(k).algorithm = "token_bucket" PROVE PromiseKept(k)'
    <3>1. /\ due >= clock
          /\ due \in Nat
          /\ clock \in Nat
          /\ Limits!Refilled(k) + (due + 1 - clock) * Limits!RuleOf(k).rate >= cost
      BY <1>1, <1>2, <1>3, <1>13, <2>2, TokensWillCome DEF Limits!Meaningful, Limits!TypeOK
    <3>2. promise'[k].cost = cost /\ promise'[k].due = due
      BY <1>7, <1>13, <2>1
    <3>3. Limits!RuleOf(k)' = Limits!RuleOf(k) /\ Limits!Refilled(k)' = Limits!Refilled(k)
      BY <1>2, <1>6, <1>11, <2>2
    <3>4. ~(clock' > promise'[k].due)
      BY <1>3, <3>1, <3>2
    <3>5. Limits!Refilled(k)' + (promise'[k].due + 1 - clock') * Limits!RuleOf(k)'.rate
            >= promise'[k].cost
      BY <1>3, <3>1, <3>2, <3>3
    <3>6. /\ promise'[k].cost <= Limits!RuleOf(k)'.capacity
          /\ Limits!RuleOf(k)'.algorithm = "token_bucket"
      BY <2>1, <2>2, <3>2, <3>3
    <3> QED BY <3>4, <3>5, <3>6 DEF PromiseKept
  <2>3. ASSUME Limits!RuleOf(k).algorithm # "token_bucket" PROVE PromiseKept(k)'
    <3>1. /\ due = Head(Limits!Recent(k)) + Limits!RuleOf(k).window
          /\ due \in Nat
          /\ Len(Limits!Recent(k)) + cost = Limits!RuleOf(k).capacity + 1
      BY <1>1, <1>2, <1>13, <2>3, OldestWillLeave
    <3>2. due <= due
      BY <3>1
    <3>3. promise'[k].cost = cost /\ promise'[k].due = due
      BY <1>7, <1>13, <2>1
    <3>4. Limits!RuleOf(k)' = Limits!RuleOf(k) /\ Limits!Recent(k)' = Limits!Recent(k)
      BY <1>2, <1>6, <2>3
    <3>5. Len(Limits!Recent(k)') + promise'[k].cost = Limits!RuleOf(k)'.capacity + 1
      BY <3>1, <3>3, <3>4
    <3>6. Head(Limits!Recent(k)') + Limits!RuleOf(k)'.window <= promise'[k].due
      BY <3>1, <3>2, <3>3, <3>4
    <3>7. /\ promise'[k].cost <= Limits!RuleOf(k)'.capacity
          /\ Limits!RuleOf(k)'.algorithm # "token_bucket"
      BY <2>1, <2>3, <3>3, <3>4
    <3> QED BY <3>5, <3>6, <3>7 DEF PromiseKept
  <2>4. PromiseKept(k)'
    BY <2>2, <2>3
  <2>5. Kept(k)'
    BY <1>6, <1>11, <2>4 DEF Kept
  <2> QED BY <1>6, <1>8, <1>9, <1>10, <2>5 DEF LimitsInv
<1> QED BY <1>12, <1>13

\* A tick: the window moves on and the tokens get more.
LEMMA TickKeepsWindow ==
  ASSUME Limits!ThrottlerAssumption, Limits!TypeOK, TotalsStand, NEW k \in Limits!Charged,
         Limits!RuleOf(k) \in Limits!Rule, Limits!Tick,
         WindowKept(k)
  PROVE  WindowKept(k)'
<1> SUFFICES ASSUME Limits!RuleOf(k).algorithm = "sliding_window",
                    NEW start \in 0..(clock + 1) + 1,
                    start > (clock + 1) - Limits!RuleOf(k).window
             PROVE  /\ Limits!AdmittedSince(k, start)' \in 0..Len(logs[k])
                    /\ Limits!AdmittedSince(k, start)' <= Limits!RuleOf(k).capacity
                    /\ \A j \in 0..Limits!AdmittedSince(k, start)' - 1 :
                         logs[k][Len(logs[k]) - j] >= start
  BY DEF WindowKept, Limits!Tick, Limits!RuleOf, Limits!clientVars
<1>1. /\ clock \in Nat /\ clock + 1 \in clock..MaxClock /\ clock' = clock + 1
      /\ admitted' = admitted /\ Len(logs[k]) \in Nat
      /\ Limits!RuleOf(k).capacity \in Nat /\ Limits!RuleOf(k).window \in Nat
      /\ \A t \in 0..MaxClock : admitted[k][t] \in Nat
  <2>1. logs[k] \in Seq(0..MaxClock)
    BY DEF Limits!TypeOK
  <2>2. Len(logs[k]) \in Nat
    BY <2>1, SeqElements
  <2> QED BY <2>2
             DEF Limits!TypeOK, Limits!Tick, Limits!Rule, Limits!ThrottlerAssumption,
                 Limits!clientVars
<1>2. admitted[k][clock + 1] = admitted[k][clock] /\ admitted[k][clock] \in Nat
  BY <1>1 DEF TotalsStand, Limits!TypeOK
<1>3. CASE start \in 0..clock + 1
  <2>1. Limits!AdmittedSince(k, start)' = Limits!AdmittedSince(k, start)
    BY <1>1, <1>2 DEF Limits!AdmittedSince
  <2>2. start > clock - Limits!RuleOf(k).window
    BY <1>1, <1>3
  <2> QED BY <1>3, <2>1, <2>2 DEF WindowKept
<1>4. CASE start = (clock + 1) + 1
  <2>1. Limits!AdmittedSince(k, start)' = 0
    BY <1>1, <1>2, <1>4 DEF Limits!AdmittedSince
  <2>2. 0..0 - 1 = {}
    OBVIOUS
  <2> QED BY <1>1, <2>1, <2>2
<1> QED BY <1>1, <1>3, <1>4

LEMMA TickKeepsBucket ==
  ASSUME Limits!ThrottlerAssumption, Limits!TypeOK, TotalsStand, BucketsArePast,
         NEW k \in Limits!Charged,
         Limits!RuleOf(k) \in Limits!Rule, Limits!Tick, BucketKept(k)
  PROVE  BucketKept(k)'
<1>1. /\ clock \in Nat /\ clock + 1 \in clock..MaxClock /\ clock' = clock + 1
      /\ admitted' = admitted /\ buckets' = buckets /\ Limits!RuleOf(k)' = Limits!RuleOf(k)
      /\ Limits!RuleOf(k).capacity \in Nat
      /\ Limits!RuleOf(k).rate \in Nat
      /\ MaxClock \in Nat
      /\ \A t \in 0..MaxClock : admitted[k][t] \in Nat
  <2>1. /\ clock \in Nat /\ clock + 1 \in clock..MaxClock /\ clock' = clock + 1
        /\ admitted' = admitted /\ buckets' = buckets /\ rules' = rules /\ MaxClock \in Nat
        /\ \A t \in 0..MaxClock : admitted[k][t] \in Nat
    BY DEF Limits!TypeOK, Limits!Tick, Limits!ThrottlerAssumption, Limits!clientVars
  <2> QED BY <2>1 DEF Limits!Rule, Limits!RuleOf
<1>2. admitted[k][clock + 1] = admitted[k][clock] /\ admitted[k][clock] \in Nat
  BY <1>1 DEF TotalsStand, Limits!TypeOK
<1> DEFINE x == Limits!Refilled(k)
           y == Limits!Refilled(k)'
           cap == Limits!RuleOf(k).capacity
           rate == Limits!RuleOf(k).rate
<1>3. /\ x \in Nat /\ x <= cap
      /\ y \in Nat /\ y <= cap /\ y <= x + rate /\ (y = cap \/ y = x + rate)
  BY <1>1, RefilledFacts, RefilledTick
<1>4. ASSUME Limits!RuleOf(k).algorithm = "token_bucket", NEW start \in 0..clock + 1
      PROVE  Limits!AdmittedSince(k, start)' + y <= cap + ((clock + 1) - start) * rate
  <2>1. CASE start \in 0..clock
    <3> DEFINE a == Limits!AdmittedSince(k, start)
               d == clock - start
               m == d * rate
    <3>1. Limits!AdmittedSince(k, start)' = a
      BY <1>1, <1>2 DEF Limits!AdmittedSince
    <3>2. a + x <= cap + m
      BY <1>4, <2>1 DEF BucketKept
    <3>3. a \in Int
      <4>1. start # 0 => start - 1 \in 0..MaxClock
        BY <1>1, <2>1
      <4> QED BY <1>1, <1>2, <4>1 DEF Limits!AdmittedSince
    <3>4. d \in Nat /\ (clock + 1) - start = d + 1
      BY <1>1, <2>1
    <3> HIDE DEF a, d, x, y, cap, rate
    <3>5. m \in Nat /\ (d + 1) * rate = m + rate
      BY <1>1, <3>4, Product DEF rate
    <3> HIDE DEF m
    <3>6. a + y <= cap + (m + rate)
      BY <1>1, <1>3, <3>2, <3>3, <3>5 DEF cap, rate
    <3> QED BY <3>1, <3>4, <3>5, <3>6
  <2>2. CASE start = clock + 1
    <3>1. Limits!AdmittedSince(k, start)' = 0
      BY <1>1, <1>2, <2>2 DEF Limits!AdmittedSince
    <3>2. y <= cap /\ y \in Nat
      BY <1>3
    <3>3. ((clock + 1) - start) * rate = 0
      <4>1. (clock + 1) - start = 0
        BY <1>1, <2>2
      <4> QED BY <1>1, <4>1
    <3> HIDE DEF y, cap
    <3> QED BY <1>1, <3>1, <3>2, <3>3 DEF cap
  <2> QED BY <1>1, <2>1, <2>2
<1> QED BY <1>1, <1>4 DEF BucketKept

LEMMA TickKeepsPromise ==
  ASSUME Limits!ThrottlerAssumption, Limits!TypeOK, BucketsArePast, NEW k \in Limits!Charged,
         Limits!RuleOf(k) \in Limits!Rule,
         Limits!Tick, PromiseKept(k)
  PROVE  PromiseKept(k)'
<1> SUFFICES ASSUME promise[k] # NoPromise PROVE PromiseKept(k)'
  BY DEF PromiseKept, Limits!Tick, Limits!clientVars
<1> DEFINE c == promise[k].cost
           due == promise[k].due
           cap == Limits!RuleOf(k).capacity
           rate == Limits!RuleOf(k).rate
           window == Limits!RuleOf(k).window
<1>1. /\ clock \in Nat /\ clock' = clock + 1 /\ promise' = promise /\ buckets' = buckets
      /\ logs' = logs /\ Limits!RuleOf(k)' = Limits!RuleOf(k)
      /\ c \in Nat /\ due \in Nat /\ cap \in Nat /\ rate \in Nat /\ window \in Nat /\ c <= cap
  <2>1. /\ clock \in Nat /\ clock' = clock + 1 /\ promise' = promise /\ buckets' = buckets
        /\ logs' = logs /\ rules' = rules
    BY DEF Limits!TypeOK, Limits!Tick, Limits!clientVars
  <2>2. promise[k] \in [cost : Costs, due : Nat]
    BY DEF Limits!TypeOK
  <2>3. c \in Nat /\ due \in Nat
    BY <2>2 DEF Limits!ThrottlerAssumption
  <2>4. c <= cap
    BY DEF PromiseKept
  <2> QED BY <2>1, <2>3, <2>4 DEF Limits!Rule, Limits!RuleOf
<1>2. ASSUME Limits!RuleOf(k).algorithm = "token_bucket" PROVE PromiseKept(k)'
  <2> DEFINE x == Limits!Refilled(k)
             y == Limits!Refilled(k)'
  <2>1. x \in Nat /\ y \in Nat /\ (y = cap \/ y = x + rate)
    BY <1>1, RefilledFacts, RefilledTick
  <2>2. IF clock > due THEN x >= c ELSE x + (due + 1 - clock) * rate >= c
    BY <1>2 DEF PromiseKept
  <2>3. IF clock + 1 > due THEN y >= c ELSE y + (due + 1 - (clock + 1)) * rate >= c
    <3> HIDE DEF x, y, c, due, cap, rate
    <3>1. CASE clock > due
      BY <1>1, <2>1, <2>2, <3>1
    <3>2. CASE ~(clock > due)
      <4> DEFINE d == due + 1 - (clock + 1)
                 m == d * rate
      <4>1. d \in Nat /\ due + 1 - clock = d + 1 /\ (clock + 1 > due <=> d = 0)
        BY <1>1, <3>2
      <4> HIDE DEF d
      <4>2. m \in Nat /\ (d + 1) * rate = m + rate /\ (d = 0 => m = 0)
        BY <1>1, <4>1, Product
      <4> HIDE DEF m
      <4>3. x + (m + rate) >= c
        BY <2>2, <3>2, <4>1, <4>2
      <4>4. y + m >= c
        BY <1>1, <2>1, <4>2, <4>3
      <4>5. d = 0 => y >= c
        BY <2>1, <4>2, <4>4
      <4> QED BY <4>1, <4>4, <4>5 DEF d, m
    <3> QED BY <3>1, <3>2
  <2> QED BY <1>1, <1>2, <2>3 DEF PromiseKept
<1>3. ASSUME Limits!RuleOf(k).algorithm # "token_bucket" PROVE PromiseKept(k)'
  <2> DEFINE s == logs[k]
             P == Limits!Within(k)
             Q == Limits!Within(k)'
             r == Limits!Recent(k)
             t == Limits!Recent(k)'
  <2>1. s \in Seq(0..MaxClock)
    BY DEF Limits!TypeOK
  <2>2. r = Sublist(s, P) /\ t = Sublist(s, Q)
    BY <1>1, SameOperators DEF Limits!Recent
  <2>3. \A i \in 1..Len(s) : s[i] \in Nat
    <3> HIDE DEF s
    <3>1. \A i \in 1..Len(s) : s[i] \in 0..MaxClock
      BY <2>1, SeqElements
    <3> QED BY <3>1
  <2>4. /\ P = {i \in 1..Len(s) : s[i] > clock - window}
        /\ Q = {i \in 1..Len(s) : s[i] > (clock + 1) - window}
    BY <1>1 DEF Limits!Within, Limits!After
  <2>5. \/ Len(r) + c <= cap
        \/ Len(r) + c = cap + 1 /\ Head(r) + window <= due
    BY <1>3 DEF PromiseKept
  <2> HIDE DEF s, P, Q, r, t, c, due, cap, window
  <2>6. Q \subseteq P
    BY <1>1, <2>3, <2>4
  <2>7. /\ Len(r) \in Nat /\ Len(t) \in Nat /\ Len(t) <= Len(r)
        /\ (\E i \in 1..Len(s) : i \in P /\ i \notin Q) => Len(t) < Len(r)
    <3>1. /\ Len(Sublist(s, Q)) <= Len(Sublist(s, P))
          /\ (\E i \in 1..Len(s) : i \in P /\ i \notin Q)
               => Len(Sublist(s, Q)) < Len(Sublist(s, P))
      BY <2>1, <2>6, SublistShorter
    <3>2. Len(Sublist(s, Q)) \in Nat /\ Len(Sublist(s, P)) \in Nat
      BY <2>1, SublistProperties
    <3> QED BY <2>2, <3>1, <3>2
  <2>8. \/ Len(t) + c <= cap
        \/ Len(t) + c = cap + 1 /\ Head(t) + window <= due
    <3>1. CASE \E i \in 1..Len(s) : i \in P /\ i \notin Q
      BY <1>1, <2>5, <2>7, <3>1
    <3>2. CASE ~(\E i \in 1..Len(s) : i \in P /\ i \notin Q)
      <4>1. Q = P
        BY <2>4, <2>6, <3>2
      <4>2. t = r
        BY <2>2, <4>1
      <4> QED BY <2>5, <4>2
    <3> QED BY <3>1, <3>2
  <2> QED BY <1>1, <1>3, <2>8 DEF PromiseKept, t, c, due, cap, window
<1> QED BY <1>2, <1>3

LEMMA TickInv == ASSUME Limits!ThrottlerAssumption, LimitsInv, Limits!Tick PROVE LimitsInv'
<1>1. Limits!TypeOK /\ TotalsStand /\ BucketsArePast /\ \A k \in Limits!Charged : Kept(k)
  BY DEF LimitsInv
<1>2. /\ clock \in Nat
      /\ clock + 1 \in clock..MaxClock
      /\ clock' = clock + 1
      /\ MaxClock \in Nat
      /\ UNCHANGED <<rules, buckets, logs, ban, admitted, promise>>
  BY <1>1 DEF Limits!TypeOK, Limits!Tick, Limits!clientVars, Limits!ThrottlerAssumption
<1>3. Limits!TypeOK'
  BY <1>1, <1>2 DEF Limits!TypeOK
<1>4. TotalsStand'
  BY <1>1, <1>2 DEF TotalsStand
<1>5. BucketsArePast'
  BY <1>1, <1>2 DEF BucketsArePast, Limits!TypeOK
<1>6. ASSUME NEW k \in Limits!Charged PROVE Kept(k)'
  <2>1. Limits!InForce(k)' = Limits!InForce(k) /\ promise'[k] = promise[k]
    BY <1>2 DEF Limits!InForce, Limits!RuleOf
  <2>2. CASE Limits!InForce(k)
    <3>1. Limits!RuleOf(k) \in Limits!Rule
      BY <1>1, <2>2, RuleInForce
    <3> QED BY <1>1, <2>1, <2>2, <3>1, TickKeepsWindow, TickKeepsBucket, TickKeepsPromise
               DEF Kept
  <2>3. CASE ~Limits!InForce(k)
    BY <1>1, <2>1, <2>3 DEF Kept
  <2> QED BY <2>2, <2>3
<1> QED BY <1>3, <1>4, <1>5, <1>6 DEF LimitsInv

LEMMA RegisterInv ==
  ASSUME Limits!ThrottlerAssumption, LimitsInv, NEW n \in Names, NEW rule \in RuleChoices,
         Limits!Register(n, rule)
  PROVE  LimitsInv'
<1>1. Limits!TypeOK /\ TotalsStand /\ BucketsArePast /\ \A k \in Limits!Charged : Kept(k)
  BY DEF LimitsInv
<1>2. /\ rules' = [rules EXCEPT ![n] = rule]
      /\ admitted' = [admitted EXCEPT ![n] = Limits!Nothing]
      /\ promise' = [promise EXCEPT ![n] = NoPromise]
      /\ UNCHANGED <<clock, buckets, logs, ban>>
      /\ rule \in Limits!Rule /\ n \in Limits!Charged /\ n # Fallback
      /\ clock \in Nat /\ clock \in 0..MaxClock /\ MaxClock \in Nat
  BY <1>1 DEF Limits!Register, Limits!ThrottlerAssumption, Limits!Charged, Limits!TypeOK
<1>3. Limits!Nothing \in [0..MaxClock -> Nat] /\ \A t \in 0..MaxClock : Limits!Nothing[t] = 0
  BY DEF Limits!Nothing
<1>4. /\ admitted'[n] = Limits!Nothing /\ promise'[n] = NoPromise
      /\ \A k \in Limits!Charged : k # n
           => /\ admitted'[k] = admitted[k] /\ promise'[k] = promise[k]
                                     /\ Limits!RuleOf(k)' = Limits!RuleOf(k)
  BY <1>1, <1>2 DEF Limits!TypeOK, Limits!RuleOf
<1>5. Limits!TypeOK'
  BY <1>1, <1>2, <1>3 DEF Limits!TypeOK
<1>6. TotalsStand'
  <2>1. \A t \in clock..MaxClock : t \in 0..MaxClock
    BY <1>2
  <2> QED BY <1>1, <1>2, <1>3, <1>4, <2>1 DEF TotalsStand
<1>7. BucketsArePast'
  BY <1>1, <1>2 DEF BucketsArePast
<1>8. ASSUME NEW k \in Limits!Charged, k # n PROVE Kept(k)'
  BY <1>1, <1>2, <1>4, <1>8, UntouchedKept
<1>9. Kept(n)'
  <2>1. Limits!InForce(n)' => WindowKept(n)' /\ BucketKept(n)'
    BY <1>2, <1>3, <1>4, <1>5, <1>7, FreshKeptNext
  <2> QED BY <1>4, <2>1 DEF Kept, PromiseKept
<1> QED BY <1>5, <1>6, <1>7, <1>8, <1>9 DEF LimitsInv

\* Steps that concern the blacklisting alone.
LEMMA BanInv ==
  ASSUME LimitsInv, ban' \in Nat, UNCHANGED <<clock, rules, buckets, logs, admitted, promise>>
  PROVE  LimitsInv'
<1>1. Limits!TypeOK /\ TotalsStand /\ BucketsArePast /\ \A k \in Limits!Charged : Kept(k)
  BY DEF LimitsInv
<1>2. Limits!TypeOK'
  BY <1>1 DEF Limits!TypeOK
<1>3. TotalsStand' /\ BucketsArePast'
  BY <1>1 DEF TotalsStand, BucketsArePast
<1>4. ASSUME NEW k \in Limits!Charged PROVE Kept(k)'
  <2>1. Limits!RuleOf(k)' = Limits!RuleOf(k)
    BY DEF Limits!RuleOf
  <2> QED BY <1>1, <2>1, UntouchedKept
<1> QED BY <1>2, <1>3, <1>4 DEF LimitsInv

\* A name whose bucket and log are emptied keeps its promise.
LEMMA EmptyKeepsPromise ==
  ASSUME Limits!ThrottlerAssumption, Limits!TypeOK, NEW k \in Limits!Charged,
         Limits!RuleOf(k) \in Limits!Rule, PromiseKept(k),
         clock' = clock, Limits!RuleOf(k)' = Limits!RuleOf(k), buckets'[k]
           = NoBucket, logs'[k] = <<>>,
         promise'[k] = promise[k]
  PROVE  PromiseKept(k)'
<1> SUFFICES ASSUME promise[k] # NoPromise PROVE PromiseKept(k)'
  BY DEF PromiseKept
<1> DEFINE c == promise[k].cost
           due == promise[k].due
           cap == Limits!RuleOf(k).capacity
           rate == Limits!RuleOf(k).rate
<1>1. /\ clock \in Nat /\ c \in Nat /\ due \in Nat /\ cap \in Nat /\ rate \in Nat /\ c <= cap
  <2>1. promise[k] \in [cost : Costs, due : Nat]
    BY DEF Limits!TypeOK
  <2>2. c \in Nat /\ due \in Nat
    BY <2>1 DEF Limits!ThrottlerAssumption
  <2> QED BY <2>2 DEF Limits!Rule, Limits!TypeOK, PromiseKept
<1>2. CASE Limits!RuleOf(k).algorithm = "token_bucket"
  <2>1. Limits!Refilled(k)' = cap
    BY DEF Limits!Refilled
  <2>2. ~(clock > due) => cap + (due + 1 - clock) * rate >= c
    <3> HIDE DEF c, due, cap, rate
    <3> SUFFICES ASSUME ~(clock > due) PROVE cap + (due + 1 - clock) * rate >= c
      OBVIOUS
    <3> DEFINE m == (due + 1 - clock) * rate
    <3>1. due + 1 - clock \in Nat
      BY <1>1
    <3>2. m \in Nat
      BY <1>1, <3>1, Product
    <3> HIDE DEF m
    <3>3. cap + m >= c
      BY <1>1, <3>2
    <3> QED BY <3>3 DEF m
  <2> QED BY <1>1, <1>2, <2>1, <2>2 DEF PromiseKept
<1>3. CASE Limits!RuleOf(k).algorithm # "token_bucket"
  <2>1. Limits!Recent(k)' = Sublist(<<>>, Limits!Within(k)')
    BY SameOperators DEF Limits!Recent
  <2>2. Len(Limits!Recent(k)') = 0
    <3> DEFINE Q == Limits!Within(k)'
    <3>1. <<>> \in Seq(Nat) /\ Len(<<>>) = 0
      OBVIOUS
    <3> HIDE DEF Q
    <3>2. Len(Sublist(<<>>, Q)) \in Nat /\ Len(Sublist(<<>>, Q)) <= Len(<<>>)
      BY <3>1, SublistProperties
    <3>3. Len(Sublist(<<>>, Q)) = 0
      BY <3>1, <3>2
    <3> QED BY <2>1, <3>3 DEF Q
  <2>3. Len(Limits!Recent(k)') + c <= cap
    BY <1>1, <2>2
  <2> QED BY <1>1, <1>3, <2>3 DEF PromiseKept
<1> QED BY <1>2, <1>3

LEMMA ResetInv ==
  ASSUME Limits!ThrottlerAssumption, LimitsInv, NEW K, Limits!ResetClient(K)
  PROVE  LimitsInv'
<1>1. Limits!TypeOK /\ TotalsStand /\ BucketsArePast /\ \A k \in Limits!Charged : Kept(k)
  BY DEF LimitsInv
<1>2. /\ UNCHANGED <<clock, rules, ban, promise>>
      /\ \A k \in Limits!Charged : k \notin K =>
           buckets'[k] = buckets[k] /\ logs'[k] = logs[k] /\ admitted'[k] = admitted[k]
      /\ \A k \in Limits!Charged : k \in K =>
           buckets'[k] = NoBucket /\ logs'[k] = <<>> /\ admitted'[k] = Limits!Nothing
      /\ \A k \in Limits!Charged : Limits!RuleOf(k)' = Limits!RuleOf(k) /\ promise'[k] = promise[k]
  BY DEF Limits!ResetClient, Limits!RuleOf
<1>3. Limits!Nothing \in [0..MaxClock -> Nat] /\ \A t \in 0..MaxClock : Limits!Nothing[t] = 0
  BY DEF Limits!Nothing
<1>4. Limits!TypeOK'
  <2>1. <<>> \in Seq(0..MaxClock)
    OBVIOUS
  <2>2. /\ buckets'
             \in [Limits!Charged -> [tokens : Nat, last_refill : 0..MaxClock] \cup {NoBucket}]
        /\ logs' \in [Limits!Charged -> Seq(0..MaxClock)]
        /\ admitted' \in [Limits!Charged -> [0..MaxClock -> Nat]]
    BY <1>1, <1>3, <2>1 DEF Limits!TypeOK, Limits!ResetClient
  <2> QED BY <1>1, <1>2, <2>2 DEF Limits!TypeOK
<1>5. TotalsStand'
  <2>1. \A t \in clock..MaxClock : t \in 0..MaxClock
    BY <1>1 DEF Limits!TypeOK, Limits!ThrottlerAssumption
  <2>2. clock \in 0..MaxClock
    BY <1>1 DEF Limits!TypeOK
  <2> QED BY <1>1, <1>2, <1>3, <2>1, <2>2 DEF TotalsStand
<1>6. BucketsArePast'
  BY <1>1, <1>2 DEF BucketsArePast
<1>7. ASSUME NEW k \in Limits!Charged, k \notin K PROVE Kept(k)'
  BY <1>1, <1>2, <1>7, UntouchedKept
<1>8. ASSUME NEW k \in Limits!Charged, k \in K PROVE Kept(k)'
  <2>1. Limits!InForce(k)' = Limits!InForce(k)
    BY <1>2 DEF Limits!InForce
  <2>2. CASE Limits!InForce(k)
    <3>1. Limits!RuleOf(k) \in Limits!Rule /\ PromiseKept(k)
      BY <1>1, <2>2, RuleInForce DEF Kept
    <3>2. PromiseKept(k)'
      BY <1>1, <1>2, <1>8, <3>1, EmptyKeepsPromise
    <3>3. WindowKept(k)' /\ BucketKept(k)'
      BY <1>2, <1>3, <1>4, <1>6, <1>8, <2>1, <2>2, FreshKeptNext
    <3> QED BY <2>1, <2>2, <3>2, <3>3 DEF Kept
  <2>3. CASE ~Limits!InForce(k)
    BY <1>1, <1>2, <2>1, <2>3 DEF Kept
  <2> QED BY <2>2, <2>3
<1> QED BY <1>4, <1>5, <1>6, <1>7, <1>8 DEF LimitsInv

LEMMA ClearLimitsInv ==
  ASSUME Limits!ThrottlerAssumption, LimitsInv, Limits!Clear
  PROVE  LimitsInv'
<1>1. /\ clock' = clock /\ ban' = 0 /\ Limits!TypeOK
      /\ \A k \in Limits!Charged : /\ buckets'[k] = NoBucket /\ logs'[k] = <<>>
                            /\ admitted'[k] = Limits!Nothing /\ promise'[k] = NoPromise
  BY DEF Limits!Clear, LimitsInv
<1>2. Limits!Nothing \in [0..MaxClock -> Nat] /\ \A t \in 0..MaxClock : Limits!Nothing[t] = 0
  BY DEF Limits!Nothing
<1>3. Limits!TypeOK'
  <2>1. <<>> \in Seq(0..MaxClock)
    OBVIOUS
  <2> QED BY <1>1, <1>2, <2>1 DEF Limits!TypeOK, Limits!Clear
<1>4. TotalsStand'
  <2>1. clock \in 0..MaxClock /\ \A t \in clock..MaxClock : t \in 0..MaxClock
    BY <1>1 DEF Limits!TypeOK, Limits!ThrottlerAssumption
  <2> QED BY <1>1, <1>2, <2>1 DEF TotalsStand
<1>5. BucketsArePast'
  BY <1>1 DEF BucketsArePast
<1>6. ASSUME NEW k \in Limits!Charged PROVE Kept(k)'
  <2>1. Limits!InForce(k)' => WindowKept(k)' /\ BucketKept(k)'
    BY <1>1, <1>2, <1>3, <1>5, FreshKeptNext
  <2> QED BY <1>1, <2>1 DEF Kept, PromiseKept
<1> QED BY <1>3, <1>4, <1>5, <1>6 DEF LimitsInv

LEMMA LimitsNext ==
  ASSUME Limits!ThrottlerAssumption
  PROVE  LimitsInv /\ [Limits!Next]_Limits!vars => LimitsInv'
<1> SUFFICES ASSUME LimitsInv, [Limits!Next]_Limits!vars PROVE LimitsInv'
  OBVIOUS
<1>1. ban \in Nat /\ clock \in Nat
  BY DEF LimitsInv, Limits!TypeOK
<1>2. ASSUME NEW n \in Names \cup {Unknown}, NEW cost \in Costs, Limits!Admit(n, cost)
      PROVE LimitsInv'
  BY <1>2, AdmitInv
<1>3. ASSUME NEW n \in Names \cup {Unknown}, NEW cost \in Costs, Limits!Refuse(n, cost)
      PROVE LimitsInv'
  BY <1>3, RefuseInv
<1>4. ASSUME NEW n \in Names, NEW rule \in RuleChoices, Limits!Register(n, rule)
      PROVE LimitsInv'
  BY <1>4, RegisterInv
<1>5. ASSUME NEW d \in BanTimes, Limits!Blacklist(d) PROVE LimitsInv'
  <2>1. ban' \in Nat
    BY <1>1, <1>5 DEF Limits!Blacklist, Limits!ThrottlerAssumption
  <2> QED BY <1>5, <2>1, BanInv DEF Limits!Blacklist
<1>6. CASE Limits!Unblacklist
  BY <1>6, BanInv DEF Limits!Unblacklist
<1>7. CASE Limits!IsBlacklisted
  BY <1>1, <1>7, BanInv DEF Limits!IsBlacklisted
<1>8. ASSUME NEW K, Limits!ResetClient(K) PROVE LimitsInv'
  BY <1>8, ResetInv
<1>9. CASE Limits!Clear
  BY <1>9, ClearLimitsInv
<1>10. CASE Limits!Tick
  BY <1>10, TickInv
<1>11. CASE UNCHANGED Limits!vars
  BY <1>1, <1>11, BanInv DEF Limits!vars, Limits!clientVars
<1>12. CASE Limits!EvaluateBanned
  BY <1>11, <1>12 DEF Limits!EvaluateBanned
<1> QED BY <1>2, <1>3, <1>4, <1>5, <1>6, <1>7, <1>8, <1>9, <1>10, <1>11, <1>12 DEF Limits!Next

-------------------------------------------------------------------------------
(* Rate limits: what the invariant says                                      *)

LEMMA LimitsBound ==
  ASSUME Limits!ThrottlerAssumption, LimitsInv
  PROVE  Limits!WindowBound /\ Limits!BucketBound /\ Limits!RetryHonoured
<1>1. Limits!TypeOK /\ TotalsStand /\ BucketsArePast /\ \A k \in Limits!Charged : Kept(k)
  BY DEF LimitsInv
<1>2. clock \in Nat
  BY <1>1 DEF Limits!TypeOK
<1>3. Limits!WindowBound
  <2> SUFFICES ASSUME NEW k \in Limits!Charged, Limits!InForce(k),
                      Limits!RuleOf(k).algorithm = "sliding_window"
               PROVE  Limits!AdmittedSince(k, IF clock < Limits!RuleOf(k).window THEN 0
                                       ELSE clock - Limits!RuleOf(k).window + 1) <= Limits!RuleOf(k).capacity
    BY DEF Limits!WindowBound
  <2> DEFINE start ==
        IF clock < Limits!RuleOf(k).window THEN 0 ELSE clock - Limits!RuleOf(k).window + 1
  <2>1. Limits!RuleOf(k).window \in Nat
    BY <1>1, RuleInForce
  <2>2. start \in 0..clock + 1 /\ start > clock - Limits!RuleOf(k).window
    BY <1>2, <2>1
  <2> HIDE DEF start
  <2>3. Limits!AdmittedSince(k, start) <= Limits!RuleOf(k).capacity
    BY <1>1, <2>2 DEF Kept, WindowKept
  <2> QED BY <2>3 DEF start
<1>4. Limits!BucketBound
  <2> SUFFICES ASSUME NEW k \in Limits!Charged, Limits!InForce(k),
                      Limits!RuleOf(k).algorithm = "token_bucket",
                      NEW start \in 0..clock
               PROVE  Limits!AdmittedSince(k, start)
                        <= Limits!RuleOf(k).capacity + (clock - start) * Limits!RuleOf(k).rate
    BY DEF Limits!BucketBound
  <2> DEFINE a == Limits!AdmittedSince(k, start)
             m == Limits!RuleOf(k).capacity + (clock - start) * Limits!RuleOf(k).rate
  <2>1. a + Limits!Refilled(k) <= m
    BY <1>1 DEF Kept, BucketKept
  <2>2. Limits!RuleOf(k) \in Limits!Rule
    BY <1>1, RuleInForce
  <2>3. Limits!Refilled(k) \in Nat
    BY <1>1, <2>2, RefilledFacts
  <2>4. a \in Int
    <3>1. /\ start # 0 => start - 1 \in 0..MaxClock
          /\ \A t \in 0..MaxClock : admitted[k][t] \in Nat
          /\ clock \in 0..MaxClock
      BY <1>1, <1>2 DEF Limits!TypeOK, Limits!ThrottlerAssumption
    <3> QED BY <3>1 DEF Limits!AdmittedSince
  <2>5. m \in Int
    <3>1. /\ clock - start \in Nat
          /\ Limits!RuleOf(k).rate \in Nat
          /\ Limits!RuleOf(k).capacity \in Nat
      BY <1>2, <2>2 DEF Limits!Rule
    <3>2. (clock - start) * Limits!RuleOf(k).rate \in Nat
      BY <3>1, Product
    <3> QED BY <3>1, <3>2
  <2> HIDE DEF a, m
  <2>6. a <= m
    BY <2>1, <2>3, <2>4, <2>5
  <2> QED BY <2>6 DEF a, m
<1>5. Limits!RetryHonoured
  <2> SUFFICES ASSUME NEW k \in Limits!Charged, promise[k] # NoPromise,
                      clock > promise[k].due
               PROVE  Limits!Fits(k, promise[k].cost)
    BY DEF Limits!RetryHonoured
  <2>1. Limits!InForce(k) /\ PromiseKept(k) /\ Limits!RuleOf(k) \in Limits!Rule
    BY <1>1, RuleInForce DEF Kept
  <2>2. CASE Limits!RuleOf(k).algorithm = "token_bucket"
    BY <2>1, <2>2 DEF PromiseKept, Limits!Fits, Limits!Covers
  <2>3. CASE Limits!RuleOf(k).algorithm # "token_bucket"
    <3> SUFFICES Len(Limits!Recent(k)) + promise[k].cost <= Limits!RuleOf(k).capacity
      BY <2>3 DEF Limits!Fits
    <3> SUFFICES ASSUME Len(Limits!Recent(k)) + promise[k].cost
          = Limits!RuleOf(k).capacity + 1,
                        Head(Limits!Recent(k)) + Limits!RuleOf(k).window <= promise[k].due,
                        promise[k].cost <= Limits!RuleOf(k).capacity
                 PROVE  FALSE
      BY <2>1, <2>3 DEF PromiseKept
    <3> DEFINE s == logs[k]
               P == Limits!Within(k)
               r == Limits!Recent(k)
               h == Head(r)
    <3>1. s \in Seq(0..MaxClock) /\ r = Sublist(s, P)
      BY <1>1, SameOperators DEF Limits!TypeOK, Limits!Recent
    <3>2. promise[k] \in [cost : Costs, due : Nat]
      BY <1>1 DEF Limits!TypeOK
    <3>3. promise[k].cost \in Nat /\ promise[k].due \in Nat
      BY <3>2 DEF Limits!ThrottlerAssumption
    <3>4. Limits!RuleOf(k).capacity \in Nat /\ Limits!RuleOf(k).window \in Nat
      BY <2>1 DEF Limits!Rule
    <3>5. Len(r) \in Nat /\ r \in Seq(0..MaxClock)
      <4> HIDE DEF s, P
      <4>1. Len(Sublist(s, P)) \in Nat /\ Sublist(s, P) \in Seq(0..MaxClock)
        BY <3>1, SublistProperties
      <4> QED BY <3>1, <4>1
    <3>6. Len(r) > 0
      BY <3>3, <3>4, <3>5
    <3>7. 1 \in 1..Len(r) /\ h = r[1]
      <4> HIDE DEF r
      <4> QED BY <3>5, <3>6
    <3>8. PICK i \in 1..Len(s) : i \in P /\ r[1] = s[i]
      <4> HIDE DEF s, P, r
      <4>1. \A j \in 1..Len(Sublist(s, P)) : \E i \in 1..Len(s) : i \in P /\ Sublist(s, P)[j] = s[i]
        <5>1. s \in Seq(0..MaxClock)
          BY <3>1
        <5> QED BY <5>1, SublistProperties
      <4> QED BY <3>1, <3>7, <4>1
    <3>9. h > clock - Limits!RuleOf(k).window
      BY <3>7, <3>8 DEF Limits!Within, Limits!After
    <3>10. h \in Nat
      <4> HIDE DEF r
      <4>1. r[1] \in 0..MaxClock
        BY <3>5, <3>7, SeqElements
      <4> QED BY <3>7, <4>1
    <3> HIDE DEF r
    <3>11. h + Limits!RuleOf(k).window <= promise[k].due
      BY DEF r
    <3> HIDE DEF h
    <3> QED BY <1>2, <3>3, <3>4, <3>9, <3>10, <3>11
  <2> QED BY <2>2, <2>3
<1> QED BY <1>3, <1>4, <1>5

-------------------------------------------------------------------------------
(* Circuits: the operators                                                   *)

\* The values a circuit can have.
CircuitType ==
  [state : {"NONE", "CLOSED", "OPEN", "HALF_OPEN"}, failures : 0..FailureThreshold,
   successes : Nat, waited : 0..RecoveryTimeout]

\* A circuit that is closed has failures left before it opens.
Sound(c) == c \in CircuitType /\ (c.state = "CLOSED" => c.failures < FailureThreshold)

\* The invariant: everything is well typed, and a closed circuit is below its
\* threshold.
CircuitInv == Circuits!TypeOK /\ Circuits!ClosedBelowThreshold

LEMMA TransitionSound ==
  ASSUME NEW c, c \in CircuitType
  PROVE  /\ Sound(Circuits!BecomesHalfOpen(c))
         /\ Circuits!BecomesHalfOpen(c).state = "HALF_OPEN"
         /\ Sound(Circuits!BecomesOpen(c)) /\ Circuits!BecomesOpen(c).state = "OPEN"
         /\ Sound(Circuits!BecomesClosed(c)) /\ Circuits!BecomesClosed(c).state = "CLOSED"
<1>1. 0 \in 0..FailureThreshold /\ 0 < FailureThreshold /\ 0 \in 0..RecoveryTimeout
  BY CircuitConstants
<1>2. /\ Circuits!BecomesHalfOpen(c) \in CircuitType
      /\ Circuits!BecomesHalfOpen(c).state = "HALF_OPEN"
  BY <1>1 DEF CircuitType, Circuits!BecomesHalfOpen
<1>3. Circuits!BecomesOpen(c) \in CircuitType /\ Circuits!BecomesOpen(c).state = "OPEN"
  BY <1>1 DEF CircuitType, Circuits!BecomesOpen
<1>4. /\ Circuits!BecomesClosed(c) \in CircuitType
      /\ Circuits!BecomesClosed(c).state = "CLOSED"
      /\ Circuits!BecomesClosed(c).failures = 0
  BY <1>1 DEF CircuitType, Circuits!BecomesClosed
<1> QED BY <1>1, <1>2, <1>3, <1>4 DEF Sound

\* Looking at a circuit keeps it sound, and makes it half open or leaves it alone.
LEMMA CheckedSound ==
  ASSUME NEW c, Sound(c)
  PROVE  /\ Sound(Circuits!Checked(c))
         /\ Circuits!Checked(c) # c =>
              /\ Circuits!Checked(c).state = "HALF_OPEN"
              /\ c.state = "OPEN"
              /\ c.waited = RecoveryTimeout
<1>1. c \in CircuitType
  BY DEF Sound
<1>2. CASE c.state = "OPEN" /\ c.waited >= RecoveryTimeout
  <2>1. Circuits!Checked(c) = Circuits!BecomesHalfOpen(c)
    BY <1>2 DEF Circuits!Checked
  <2>2. c.waited = RecoveryTimeout
    BY <1>1, <1>2, CircuitConstants DEF CircuitType
  <2> QED BY <1>1, <1>2, <2>1, <2>2, TransitionSound
<1>3. CASE ~(c.state = "OPEN" /\ c.waited >= RecoveryTimeout)
  <2>1. Circuits!Checked(c) = c
    BY <1>3 DEF Circuits!Checked
  <2> QED BY <2>1
<1> QED BY <1>2, <1>3

\* One more failure keeps the circuit sound: it opens at the threshold.  It never
\* leaves an open circuit in another state.
LEMMA FailedSound ==
  ASSUME NEW c, Sound(c)
  PROVE  /\ Sound(Circuits!Failed(c))
         /\ c.state = "OPEN" => /\ Circuits!Failed(c).state = "OPEN"
                                /\ Circuits!Failed(c).waited = c.waited
<1> DEFINE d == [c EXCEPT !.failures = Circuits!OneMore(c)]
<1>1. c \in CircuitType
  BY DEF Sound
<1>2. Circuits!OneMore(c) \in 0..FailureThreshold
  BY <1>1, CircuitConstants DEF Circuits!OneMore, CircuitType
<1>3. d \in CircuitType /\ d.state = c.state /\ d.waited = c.waited
  BY <1>1, <1>2 DEF CircuitType
<1>4. CASE d.state = "HALF_OPEN" \/ (d.state = "CLOSED" /\ d.failures >= FailureThreshold)
  <2>1. Circuits!Failed(c) = Circuits!BecomesOpen(d)
    BY <1>4 DEF Circuits!Failed
  <2>2. c.state # "OPEN"
    BY <1>3, <1>4
  <2> HIDE DEF d
  <2> QED BY <1>3, <2>1, <2>2, TransitionSound
<1>5. CASE ~(d.state = "HALF_OPEN" \/ (d.state = "CLOSED" /\ d.failures >= FailureThreshold))
  <2>1. Circuits!Failed(c) = d
    BY <1>5 DEF Circuits!Failed
  <2>2. d.failures \in Nat
    BY <1>3 DEF CircuitType
  <2> HIDE DEF d
  <2> QED BY <1>3, <1>5, <2>1, <2>2, CircuitConstants DEF Sound
<1> QED BY <1>4, <1>5

\* One more success keeps the circuit sound, and an open one open.
LEMMA SucceededSound ==
  ASSUME NEW c, Sound(c)
  PROVE  /\ Sound(Circuits!Succeeded(c))
         /\ c.state = "OPEN" => /\ Circuits!Succeeded(c).state = "OPEN"
                                /\ Circuits!Succeeded(c).waited = c.waited
<1> DEFINE d == [c EXCEPT !.failures = 0,
                          !.successes = IF c.state = "HALF_OPEN" THEN @ + 1 ELSE @]
<1>1. c \in CircuitType
  BY DEF Sound
<1>2. d \in CircuitType /\ d.state = c.state /\ d.waited = c.waited /\ d.failures = 0
  <2>1. c.successes \in Nat /\ c.successes + 1 \in Nat /\ 0 \in 0..FailureThreshold
    BY <1>1, CircuitConstants DEF CircuitType
  <2> QED BY <1>1, <2>1 DEF CircuitType
<1>3. CASE d.state = "HALF_OPEN" /\ d.successes >= SuccessThreshold
  <2>1. Circuits!Succeeded(c) = Circuits!BecomesClosed(d)
    BY <1>3 DEF Circuits!Succeeded
  <2> HIDE DEF d
  <2> QED BY <1>2, <1>3, <2>1, TransitionSound
<1>4. CASE ~(d.state = "HALF_OPEN" /\ d.successes >= SuccessThreshold)
  <2>1. Circuits!Succeeded(c) = d
    BY <1>4 DEF Circuits!Succeeded
  <2> HIDE DEF d
  <2> QED BY <1>2, <2>1, CircuitConstants DEF Sound
<1> QED BY <1>3, <1>4

\* The invariant is about the circuit and what is left besides it.
LEMMA SoundCircuit ==
  CircuitInv <=> /\ Sound(Circuits!Circuit)
           /\ calls \in [Calls -> {"idle", "succeeds", "fails", "orphan"}]
           /\ healthy \in BOOLEAN
BY DEF CircuitInv, Circuits!TypeOK, Circuits!ClosedBelowThreshold, Sound, Circuits!Circuit,
   CircuitType

\* A step that makes the circuit c makes it sound when c is.
LEMMA BecomesSound ==
  ASSUME NEW c, Sound(c), Circuits!Becomes(c),
         calls' \in [Calls -> {"idle", "succeeds", "fails", "orphan"}], healthy' \in BOOLEAN
  PROVE  CircuitInv'
BY DEF CircuitInv, Circuits!TypeOK, Circuits!ClosedBelowThreshold, Sound, Circuits!Becomes,
   CircuitType

-------------------------------------------------------------------------------
(* Circuits: the invariant                                                   *)

LEMMA CircuitInit == Circuits!Init => CircuitInv
<1>1. 0 \in 0..FailureThreshold /\ 0 \in 0..RecoveryTimeout
  BY CircuitConstants
<1> SUFFICES ASSUME Circuits!Init PROVE CircuitInv
  OBVIOUS
<1>3. calls \in [Calls -> {"idle", "succeeds", "fails", "orphan"}]
  BY DEF Circuits!Init
<1>4. Circuits!TypeOK
  BY <1>1, <1>3 DEF Circuits!Init, Circuits!TypeOK
<1>5. Circuits!ClosedBelowThreshold
  BY DEF Circuits!Init, Circuits!ClosedBelowThreshold
<1> QED BY <1>4, <1>5 DEF CircuitInv

\* Calls that end leave the invariant in place.
LEMMA EndInv ==
  ASSUME CircuitInv, NEW c \in Calls, Circuits!End(c)
  PROVE  CircuitInv'
<1>1. Sound(Circuits!Circuit) /\ calls' \in [Calls -> {"idle", "succeeds", "fails", "orphan"}]
  BY SoundCircuit
     DEF Circuits!End, Circuits!EndSuccess, Circuits!EndSuccessRaises, Circuits!EndFailure,
         Circuits!EndOrphan, Circuits!Ends
<1>2. healthy' \in BOOLEAN
  BY SoundCircuit
     DEF Circuits!End, Circuits!EndSuccess, Circuits!EndSuccessRaises, Circuits!EndFailure,
         Circuits!EndOrphan
<1>3. CASE Circuits!EndSuccess(c)
  BY <1>1, <1>2, <1>3, SucceededSound, BecomesSound DEF Circuits!EndSuccess
<1>4. CASE Circuits!EndSuccessRaises(c)
  BY <1>1, <1>2, <1>4, SucceededSound, BecomesSound DEF Circuits!EndSuccessRaises
<1>5. CASE Circuits!EndFailure(c)
  BY <1>1, <1>2, <1>5, FailedSound, BecomesSound DEF Circuits!EndFailure
<1>6. CASE Circuits!EndOrphan(c)
  BY <1>1, <1>2, <1>6
     DEF Circuits!EndOrphan, Circuits!circuitVars, CircuitInv, Circuits!TypeOK,
         Circuits!ClosedBelowThreshold
<1> QED BY <1>3, <1>4, <1>5, <1>6 DEF Circuits!End

LEMMA CircuitNext == CircuitInv /\ [Circuits!Next]_Circuits!vars => CircuitInv'
<1> SUFFICES ASSUME CircuitInv, [Circuits!Next]_Circuits!vars PROVE CircuitInv'
  OBVIOUS
<1>1. /\ Sound(Circuits!Circuit)
      /\ calls \in [Calls -> {"idle", "succeeds", "fails", "orphan"}]
      /\ healthy \in BOOLEAN
  BY SoundCircuit
<1>2. Circuits!Circuit \in CircuitType
  BY <1>1 DEF Sound
<1>3. Sound(Circuits!Checked(Circuits!Circuit))
  BY <1>1, CheckedSound
<1>4. Circuits!Checked(Circuits!Circuit) \in CircuitType
  BY <1>3 DEF Sound
<1>5. CASE Circuits!Create
  <2>1. Sound([state |-> "CLOSED", failures |-> 0, successes |-> 0, waited |-> 0])
    BY CircuitConstants DEF Sound, CircuitType
  <2> QED BY <1>1, <1>5, <2>1, BecomesSound DEF Circuits!Create
<1>6. CASE Circuits!Clear
  <2>1. Sound([state |-> "NONE", failures |-> 0, successes |-> 0, waited |-> 0])
    BY CircuitConstants DEF Sound, CircuitType
  <2>2. calls' \in [Calls -> {"idle", "succeeds", "fails", "orphan"}]
    BY <1>1, <1>6 DEF Circuits!Clear
  <2> QED BY <1>1, <1>6, <2>1, <2>2, BecomesSound DEF Circuits!Clear
<1>7. CASE Circuits!Look
  BY <1>1, <1>3, <1>7, BecomesSound DEF Circuits!Look
<1>8. CASE Circuits!Trip
  BY <1>1, <1>4, <1>8, TransitionSound, BecomesSound DEF Circuits!Trip
<1>9. CASE Circuits!Reset
  BY <1>1, <1>4, <1>9, TransitionSound, BecomesSound DEF Circuits!Reset
<1>10. CASE Circuits!Reject
  BY <1>10
     DEF Circuits!Reject, Circuits!vars, Circuits!circuitVars, CircuitInv, Circuits!TypeOK,
         Circuits!ClosedBelowThreshold
<1>11. ASSUME NEW c \in Calls, NEW outcome \in Circuits!Running, Circuits!Start(c, outcome)
       PROVE CircuitInv'
  <2>1. calls' \in [Calls -> {"idle", "succeeds", "fails", "orphan"}]
    BY <1>1, <1>11 DEF Circuits!Start, Circuits!Running
  <2> QED BY <1>1, <1>3, <1>11, <2>1, BecomesSound DEF Circuits!Start
<1>12. ASSUME NEW c \in Calls, Circuits!End(c) PROVE CircuitInv'
  BY <1>12, EndInv
<1>13. CASE Circuits!Tick
  BY <1>13, CircuitConstants
     DEF Circuits!Tick, CircuitInv, Circuits!TypeOK, Circuits!ClosedBelowThreshold
<1>14. CASE Circuits!Heal
  BY <1>14
     DEF Circuits!Heal, Circuits!circuitVars, CircuitInv, Circuits!TypeOK,
         Circuits!ClosedBelowThreshold
<1>15. CASE UNCHANGED Circuits!vars
  BY <1>15
     DEF Circuits!vars, Circuits!circuitVars, CircuitInv, Circuits!TypeOK,
         Circuits!ClosedBelowThreshold
<1> QED
  BY <1>5, <1>6, <1>7, <1>8, <1>9, <1>10, <1>11, <1>12, <1>13, <1>14, <1>15 DEF Circuits!Next

-------------------------------------------------------------------------------
(* Circuits: the action property                                             *)

\* A call that ends on an open circuit leaves it open, since the same time.
LEMMA OpenStaysStep ==
  ASSUME CircuitInv, [Circuits!Next]_Circuits!vars, state = "OPEN",
         NEW c \in Calls, calls[c] # "idle", calls'[c] = "idle"
  PROVE  state' = "OPEN" /\ waited' = waited
<1>1. /\ Sound(Circuits!Circuit) /\ Circuits!Circuit.state = "OPEN"
      /\ Circuits!Circuit.waited = waited
  BY SoundCircuit DEF Circuits!Circuit
<1>2. PICK d \in Calls : Circuits!End(d)
  <2>1. calls \in [Calls -> {"idle", "succeeds", "fails", "orphan"}]
    BY SoundCircuit
  <2>2. ~Circuits!Clear
    BY <2>1 DEF Circuits!Clear
  <2>3. ASSUME NEW d \in Calls, NEW outcome \in Circuits!Running
        PROVE ~Circuits!Start(d, outcome)
    BY <2>1 DEF Circuits!Start, Circuits!Running
  <2>4. calls' # calls
    OBVIOUS
  <2>5. ~(\/ Circuits!Create \/ Circuits!Look \/ Circuits!Trip \/ Circuits!Reset
          \/ Circuits!Reject \/ Circuits!Tick \/ Circuits!Heal
          \/ UNCHANGED Circuits!vars)
    BY <2>4
       DEF Circuits!Create, Circuits!Look, Circuits!Trip, Circuits!Reset, Circuits!Reject,
           Circuits!Tick, Circuits!Heal, Circuits!vars
  <2> QED BY <2>2, <2>3, <2>5 DEF Circuits!Next
<1>3. CASE Circuits!EndSuccess(d)
  BY <1>1, <1>3, SucceededSound DEF Circuits!EndSuccess, Circuits!Becomes
<1>4. CASE Circuits!EndSuccessRaises(d)
  BY <1>4 DEF Circuits!EndSuccessRaises
<1>5. CASE Circuits!EndFailure(d)
  BY <1>1, <1>5, FailedSound DEF Circuits!EndFailure, Circuits!Becomes
<1>6. CASE Circuits!EndOrphan(d)
  BY <1>6 DEF Circuits!EndOrphan, Circuits!circuitVars
<1> QED BY <1>2, <1>3, <1>4, <1>5, <1>6 DEF Circuits!End

-------------------------------------------------------------------------------
(* The engines together                                                      *)

\* Every step is one of one engine, and leaves the others alone.
LEMMA EveryStep ==
  [Next]_vars => /\ [Streams!Next]_streamVars
                 /\ [Limits!Next]_limitVars
                 /\ [Circuits!Next]_circuitVars
BY DEF Next, StreamStep, LimitStep, CircuitStep, vars, streamVars, limitVars, circuitVars

LEMMA StreamsHold == Spec => []StreamsInv
<1>1. Init => StreamsInv
  BY StreamsInit DEF Init
<1>2. StreamsInv /\ [Next]_vars => StreamsInv'
  BY EveryStep, StreamsNext DEF streamVars, Streams!vars
<1> QED BY <1>1, <1>2, PTL DEF Spec

LEMMA LimitsHold == Spec => []LimitsInv
<1>1. Init => LimitsInv
  BY LimitsInit, TrafficAssumption DEF Init
<1>2. LimitsInv /\ [Next]_vars => LimitsInv'
  BY EveryStep, LimitsNext, TrafficAssumption DEF limitVars, Limits!vars, Limits!clientVars
<1> QED BY <1>1, <1>2, PTL DEF Spec

LEMMA CircuitHolds == Spec => []CircuitInv
<1>1. Init => CircuitInv
  BY CircuitInit DEF Init
<1>2. CircuitInv /\ [Next]_vars => CircuitInv'
  BY EveryStep, CircuitNext DEF circuitVars, Circuits!vars
<1> QED BY <1>1, <1>2, PTL DEF Spec

LEMMA LimitsMean == LimitsInv => WindowBound /\ BucketBound /\ RetryHonoured
BY LimitsBound, TrafficAssumption DEF WindowBound, BucketBound, RetryHonoured

\* Every engine stays well typed.
THEOREM TypeCorrect == Spec => []TypeOK
<1>1. StreamsInv /\ LimitsInv /\ CircuitInv => TypeOK
  BY DEF StreamsInv, LimitsInv, CircuitInv, TypeOK
<1> QED BY <1>1, StreamsHold, LimitsHold, CircuitHolds, PTL

\* The ids that a topic lists are, each once, those of its stored messages, through
\* every publication, purge, replay and clear().
THEOREM IndexIsConsistent == Spec => []IndexConsistent
<1>1. StreamsInv => IndexConsistent
  BY DEF StreamsInv, IndexConsistent
<1> QED BY <1>1, StreamsHold, PTL

\* A topic is over its retention limit by the number of replays at most.
THEOREM OverflowIsByReplay == Spec => []OverflowOnlyByReplay
<1>1. StreamsInv => OverflowOnlyByReplay
  BY DEF StreamsInv, OverflowOnlyByReplay
<1> QED BY <1>1, StreamsHold, PTL

\* A stored message that is dead has an entry in the dead letter queue, not replayed.
THEOREM DeadLettersCanBeReplayed == Spec => []DeadLettersWait
<1>1. StreamsInv => DeadLettersWait
  BY DEF StreamsInv, MessagesSound, DeadLettersWait
<1> QED BY <1>1, StreamsHold, PTL

\* There is no more than one replay for each message that died.
THEOREM NoReplayTwice == Spec => []ReplayedOnce
<1>1. StreamsInv => ReplayedOnce
  BY DEF StreamsInv, ReplayedOnce
<1> QED BY <1>1, StreamsHold, PTL

\* No group polls a message that it has acknowledged, unless the message has died
\* and has an entry in the dead letter queue.
THEOREM RedeliveryIsAfterDeath == Spec => []RedeliveredOnlyAfterDeath
<1>1. StreamsInv => RedeliveredOnlyAfterDeath
  BY DEF StreamsInv, MessagesSound, RedeliveredOnlyAfterDeath
<1> QED BY <1>1, StreamsHold, PTL

\* Under a sliding-window rule no window admits more than the capacity, for any
\* rules, costs and succession of rules under the name.
THEOREM WindowsAreBounded == Spec => []WindowBound
BY LimitsHold, LimitsMean, PTL

\* Under a token-bucket rule no stretch of time admits more than the capacity and
\* what is refilled in it, whatever bucket the rule inherited.
THEOREM BucketsAreBounded == Spec => []BucketBound
BY LimitsHold, LimitsMean, PTL

\* A client that waits a hundredth of a second longer than the retry_after of a
\* refusal, and is admitted nothing meanwhile, is admitted then: rounding to the
\* nearest hundredth never tells a wait that is further off.
THEOREM RetriesAreHonoured == Spec => []RetryHonoured
BY LimitsHold, LimitsMean, PTL

\* A closed circuit has not seen the failures that open it, whichever calls end in
\* it and however long they ran.
THEOREM ClosedIsBelowThreshold == Spec => []ClosedBelowThreshold
<1>1. CircuitInv => ClosedBelowThreshold
  BY DEF CircuitInv, ClosedBelowThreshold
<1> QED BY <1>1, CircuitHolds, PTL

\* The outcome of a call that was still running when the circuit opened never
\* closes it, makes it half open, or puts off the probes that its timeout lets in.
THEOREM LateCallsAreIgnored == Spec => OpenIgnoresLateCalls
<1> DEFINE Stays ==
      (state = "OPEN" /\ \E c \in Calls : calls[c] # "idle" /\ calls'[c] = "idle")
        => state' = "OPEN" /\ waited' = waited
<1>1. CircuitInv /\ [Next]_vars => [Stays]_Circuits!vars
  BY EveryStep, OpenStaysStep DEF circuitVars, Circuits!vars
<1> QED BY <1>1, CircuitHolds, PTL
        DEF Spec, OpenIgnoresLateCalls, Circuits!OpenIgnoresLateCalls

\* Each engine by itself keeps its invariant.
THEOREM EnginesAlone ==
  /\ Streams!Spec => [](Streams!TypeOK /\ Streams!IndexConsistent /\ Streams!ReplayedOnce)
  /\ Limits!Spec => [](Limits!WindowBound /\ Limits!BucketBound /\ Limits!RetryHonoured)
  /\ Circuits!Spec => [](Circuits!TypeOK /\ Circuits!ClosedBelowThreshold)
<1>1. StreamsInv => Streams!TypeOK /\ Streams!IndexConsistent /\ Streams!ReplayedOnce
  BY DEF StreamsInv
<1>2. Streams!Spec => [](Streams!TypeOK /\ Streams!IndexConsistent /\ Streams!ReplayedOnce)
  BY <1>1, StreamsInit, StreamsNext, PTL DEF Streams!Spec
<1>3. Limits!Spec => [](Limits!WindowBound /\ Limits!BucketBound /\ Limits!RetryHonoured)
  <2>1. LimitsInv => Limits!WindowBound /\ Limits!BucketBound /\ Limits!RetryHonoured
    BY LimitsBound, TrafficAssumption
  <2>2. Limits!Init => LimitsInv
    BY LimitsInit, TrafficAssumption
  <2>3. LimitsInv /\ [Limits!Next]_Limits!vars => LimitsInv'
    BY LimitsNext, TrafficAssumption
  <2> QED BY <2>1, <2>2, <2>3, PTL DEF Limits!Spec
<1>4. CircuitInv => Circuits!TypeOK /\ Circuits!ClosedBelowThreshold
  BY DEF CircuitInv
<1>5. Circuits!Spec => [](Circuits!TypeOK /\ Circuits!ClosedBelowThreshold)
  BY <1>4, CircuitInit, CircuitNext, PTL DEF Circuits!Spec
<1> QED BY <1>2, <1>3, <1>5
===============================================================================
