---------------------------- MODULE ServiceProofs -----------------------------
(* Theorems about vault requests and the tokens and secrets they are about,    *)
(* for any users, names, times and depth of nesting.                           *)
EXTENDS Service, ListProofs, SequenceTheorems, TLAPS

-------------------------------------------------------------------------------
(* The invariant                                                               *)

CheckedFrame == [stage : {"checked"}, op : Ops, token : Auths!Tokens, name : Names]
PublishedFrame == [stage : {"published"}, reads : Nat \cup {NoEntry}]
Frame == CheckedFrame \cup PublishedFrame

\* An entry that is stored no more was revoked, or dropped by a clear.
EntriesAccounted ==
  \A e \in 1..Len(entries) :
    (\E n \in Names : secrets[n] = e) \/ entries[e].revoked \/ e \in cleared

\* The token of a request was valid when the request came: if it is not known now, it
\* was refused meanwhile.
TokensAccounted ==
  \A i \in 1..Len(stack) :
    stack[i].stage = "checked" => stack[i].token \in DOMAIN sessions \cup refused

AnswerFresh ==
  answer # NoAnswer =>
    answer.entry \in 1..Len(entries) /\ answer.revoked = entries[answer.entry].revoked

VaultOK ==
  /\ entries \in Seq(Secrets!Entry)
  /\ secrets \in [Names -> 1..Len(entries) \cup {NoEntry}]
  /\ \A n \in Names : secrets[n] # NoEntry => entries[secrets[n]].name = n
  /\ cleared \subseteq 1..Len(entries)

StackOK ==
  /\ stack \in Seq(Frame)
  /\ \A i \in 1..Len(stack) : stack[i].stage = "published" =>
       stack[i].reads \in 1..Len(entries) \cup {NoEntry}

IInv ==
  /\ Auths!TypeOK /\ VaultOK /\ StackOK
  /\ EntriesAccounted /\ TokensAccounted /\ AnswerFresh

\* Frames are told apart by their stage.
LEMMA FrameStage ==
  ASSUME NEW f \in Frame
  PROVE  /\ f.stage \in {"checked", "published"}
         /\ f.stage = "checked" => f \in CheckedFrame
         /\ f.stage = "published" => f \in PublishedFrame
BY DEF Frame, CheckedFrame, PublishedFrame

LEMMA InitInv == Init => IInv
<1> SUFFICES ASSUME Init PROVE IInv
  OBVIOUS
<1>1. clock = 0 /\ MaxTime \in Nat
  BY ServiceAssumption DEF Init, Auths!Init, Auths!AuthAssumption
<1>2. Auths!TypeOK
  BY <1>1 DEF Init, Auths!Init, Auths!TypeOK
<1>3. entries = <<>> /\ cleared = {} /\ stack = <<>> /\ answer = NoAnswer /\ Len(entries) = 0
  BY DEF Init, Secrets!Init
<1>4. VaultOK
  <2>1. <<>> \in Seq(Secrets!Entry)
    OBVIOUS
  <2> QED BY <1>3, <2>1 DEF Init, Secrets!Init, VaultOK
<1>5. StackOK
  <2>1. <<>> \in Seq(Frame)
    OBVIOUS
  <2> QED BY <1>3, <2>1 DEF StackOK
<1> QED BY <1>2, <1>3, <1>4, <1>5 DEF IInv, EntriesAccounted, TokensAccounted, AnswerFresh

-------------------------------------------------------------------------------
(* The operations of the vault and of the sessions                             *)

LEMMA StoreFacts ==
  ASSUME VaultOK, EntriesAccounted, NEW n \in Names, NEW actor \in Users \cup {Fallback},
         clock \in Nat, NEW ttl \in 0..1, Secrets!StoreSecret(n, actor, ttl)
  PROVE  /\ VaultOK' /\ EntriesAccounted'
         /\ Len(entries) \in Nat /\ Len(entries') = Len(entries) + 1
         /\ entries'[Len(entries) + 1].versions = <<actor>>
         /\ \A e \in 1..Len(entries) : entries'[e] = entries[e]
<1> DEFINE l == Len(entries)
           new == [name |-> n, versions |-> <<actor>>,
                   expires |-> Secrets!ExpiryAfter(ttl), revoked |-> FALSE]
<1>1. /\ entries \in Seq(Secrets!Entry) /\ entries' = Append(entries, new)
      /\ secrets' = [secrets EXCEPT ![n] = Len(entries')] /\ cleared' = cleared
      /\ ~Secrets!Usable(n)
  BY DEF Secrets!StoreSecret, VaultOK
<1>2. new \in Secrets!Entry
  <2>1. Secrets!ExpiryAfter(ttl) \in Nat \cup {Never}
    BY DEF Secrets!ExpiryAfter
  <2>2. <<actor>> \in Seq(Users \cup {Fallback})
    OBVIOUS
  <2> QED BY <2>1, <2>2 DEF Secrets!Entry
<1>3. new.name = n /\ new.versions = <<actor>>
  OBVIOUS
<1> HIDE DEF new
<1>4. /\ entries' \in Seq(Secrets!Entry) /\ l \in Nat /\ Len(entries') = l + 1
      /\ entries'[l + 1] = new
      /\ \A e \in 1..l : entries'[e] = entries[e]
  BY <1>1, <1>2, StackPush
<1> HIDE DEF l
<1>5. /\ secrets'[n] = l + 1
      /\ \A m \in Names : m # n => secrets'[m] = secrets[m]
      /\ \A m \in Names : secrets[m] \in 1..l \cup {NoEntry}
  BY <1>1, <1>4 DEF VaultOK, l
<1>6. 1..l + 1 = (1..l) \cup {l + 1} /\ l + 1 \notin 1..l /\ NoEntry \notin Nat
  BY <1>4, ServiceAssumption DEF Secrets!VaultAssumption
<1>7. VaultOK'
  <2>1. secrets' \in [Names -> 1..Len(entries') \cup {NoEntry}]
    BY <1>1, <1>4, <1>5, <1>6 DEF VaultOK
  <2>2. ASSUME NEW m \in Names, secrets'[m] # NoEntry PROVE entries'[secrets'[m]].name = m
    <3>1. CASE m = n
      BY <1>3, <1>4, <1>5, <3>1
    <3>2. CASE m # n
      <4>1. secrets'[m] = secrets[m] /\ secrets[m] \in 1..l
        BY <1>5, <2>2, <3>2
      <4> QED BY <1>4, <2>2, <4>1 DEF VaultOK
    <3> QED BY <3>1, <3>2
  <2>3. cleared' \subseteq 1..Len(entries')
    BY <1>1, <1>4, <1>6 DEF VaultOK, l
  <2> QED BY <1>4, <2>1, <2>2, <2>3 DEF VaultOK
<1>8. EntriesAccounted'
  <2> SUFFICES ASSUME NEW e \in 1..l + 1
               PROVE  (\E m \in Names : secrets'[m] = e) \/ entries'[e].revoked \/ e \in cleared
    BY <1>1, <1>4 DEF EntriesAccounted
  <2>1. CASE e = l + 1
    BY <1>5, <2>1
  <2>2. CASE e \in 1..l
    <3>1. entries'[e] = entries[e]
      BY <1>4, <2>2
    <3>2. CASE entries[e].revoked \/ e \in cleared
      BY <3>1, <3>2
    <3>3. CASE \E m \in Names : secrets[m] = e
      <4>1. PICK m \in Names : secrets[m] = e
        BY <3>3
      <4>2. CASE m = n
        <5>1. entries[e].revoked
          BY <1>1, <1>6, <2>2, <4>1, <4>2 DEF Secrets!Usable, Secrets!Stored
        <5> QED BY <3>1, <5>1
      <4>3. CASE m # n
        BY <1>5, <4>1, <4>3
      <4> QED BY <4>2, <4>3
    <3>4. (\E m \in Names : secrets[m] = e) \/ entries[e].revoked \/ e \in cleared
      BY <2>2 DEF EntriesAccounted, l
    <3> QED BY <3>2, <3>3, <3>4
  <2> QED BY <1>6, <2>1, <2>2
<1> QED BY <1>3, <1>4, <1>7, <1>8 DEF l

\* Replacing an entry by one of its name that is revoked if it was.
LEMMA ReplaceFacts ==
  ASSUME VaultOK, EntriesAccounted, NEW e \in 1..Len(entries), NEW f \in Secrets!Entry,
         f.name = entries[e].name, entries[e].revoked => f.revoked,
         entries' = [entries EXCEPT ![e] = f], secrets' = secrets, cleared' = cleared
  PROVE  /\ VaultOK' /\ EntriesAccounted'
         /\ Len(entries) \in Nat /\ Len(entries') = Len(entries)
         /\ entries'[e] = f
         /\ \A d \in 1..Len(entries) : d # e => entries'[d] = entries[d]
<1>1. /\ entries \in Seq(Secrets!Entry) /\ Len(entries) \in Nat
      /\ secrets \in [Names -> 1..Len(entries) \cup {NoEntry}]
  BY DEF VaultOK
<1>2. /\ entries' \in Seq(Secrets!Entry) /\ Len(entries') = Len(entries)
      /\ entries'[e] = f
      /\ \A d \in 1..Len(entries) : d # e => entries'[d] = entries[d]
  BY <1>1, ExceptSeq
<1>3. VaultOK'
  <2>1. ASSUME NEW n \in Names, secrets[n] # NoEntry PROVE entries'[secrets[n]].name = n
    <3>1. secrets[n] \in 1..Len(entries) /\ entries[secrets[n]].name = n
      BY <1>1, <2>1 DEF VaultOK
    <3> QED BY <1>2, <3>1
  <2> QED BY <1>1, <1>2, <2>1 DEF VaultOK
<1>4. EntriesAccounted'
  BY <1>2 DEF EntriesAccounted
<1> QED BY <1>1, <1>2, <1>3, <1>4

\* A secret that can be changed is stored.
LEMMA UsableFacts ==
  ASSUME VaultOK, NEW n \in Names, Secrets!Usable(n)
  PROVE  /\ secrets[n] \in 1..Len(entries) /\ entries[secrets[n]] \in Secrets!Entry
         /\ entries[secrets[n]].revoked = FALSE
<1>1. secrets[n] \in 1..Len(entries)
  BY DEF VaultOK, Secrets!Usable, Secrets!Stored
<1>2. entries[secrets[n]] \in Secrets!Entry
  BY <1>1, SeqElements DEF VaultOK
<1> QED BY <1>1, <1>2 DEF Secrets!Usable, Secrets!Entry

LEMMA RotateFacts ==
  ASSUME VaultOK, EntriesAccounted, NEW n \in Names, NEW actor \in Users \cup {Fallback},
         Secrets!RotateSecret(n, actor)
  PROVE  /\ VaultOK' /\ EntriesAccounted'
         /\ Len(entries) \in Nat /\ Len(entries') = Len(entries)
         /\ secrets[n] \in 1..Len(entries)
         /\ LET versions == entries'[secrets[n]].versions IN versions[Len(versions)] = actor
         /\ \A d \in 1..Len(entries) : d # secrets[n] => entries'[d] = entries[d]
<1> DEFINE e == secrets[n]
           f == [entries[e] EXCEPT !.versions = Append(entries[e].versions, actor)]
<1>1. /\ e \in 1..Len(entries) /\ entries[e] \in Secrets!Entry
      /\ secrets' = secrets /\ cleared' = cleared
  BY UsableFacts DEF Secrets!RotateSecret
<1>2. entries' = [entries EXCEPT ![e] = f]
  BY <1>1 DEF Secrets!RotateSecret
<1>3. /\ Append(entries[e].versions, actor) \in Seq(Users \cup {Fallback})
      /\ Append(entries[e].versions, actor)[Len(Append(entries[e].versions, actor))] = actor
  <2>1. entries[e].versions \in Seq(Users \cup {Fallback})
    BY <1>1 DEF Secrets!Entry
  <2> QED BY <2>1, StackPush
<1>4. /\ f \in Secrets!Entry /\ f.versions = Append(entries[e].versions, actor)
      /\ f.name = entries[e].name /\ f.revoked = entries[e].revoked
  BY <1>1, <1>3 DEF Secrets!Entry
<1> HIDE DEF e, f
<1>5. /\ VaultOK' /\ EntriesAccounted'
      /\ Len(entries) \in Nat /\ Len(entries') = Len(entries)
      /\ entries'[e] = f
      /\ \A d \in 1..Len(entries) : d # e => entries'[d] = entries[d]
  BY <1>1, <1>2, <1>4, ReplaceFacts
<1> QED BY <1>1, <1>3, <1>4, <1>5 DEF e

LEMMA RevokeFacts ==
  ASSUME VaultOK, EntriesAccounted, NEW n \in Names, Secrets!RevokeSecret(n)
  PROVE  /\ VaultOK' /\ EntriesAccounted'
         /\ Len(entries) \in Nat /\ Len(entries') = Len(entries)
         /\ \A d \in 1..Len(entries) : entries'[d].versions = entries[d].versions
<1> DEFINE e == secrets[n]
           f == [entries[e] EXCEPT !.revoked = TRUE]
<1>1. /\ e \in 1..Len(entries) /\ entries[e] \in Secrets!Entry
      /\ secrets' = secrets /\ cleared' = cleared
  BY UsableFacts DEF Secrets!RevokeSecret
<1>2. entries' = [entries EXCEPT ![e] = f]
  BY <1>1 DEF Secrets!RevokeSecret
<1>3. /\ f \in Secrets!Entry /\ f.versions = entries[e].versions
      /\ f.name = entries[e].name /\ f.revoked = TRUE
  BY <1>1 DEF Secrets!Entry
<1> HIDE DEF e, f
<1>4. /\ VaultOK' /\ EntriesAccounted'
      /\ Len(entries) \in Nat /\ Len(entries') = Len(entries)
      /\ entries'[e] = f
      /\ \A d \in 1..Len(entries) : d # e => entries'[d] = entries[d]
  BY <1>1, <1>2, <1>3, ReplaceFacts
<1> QED BY <1>3, <1>4

LEMMA ClearFacts ==
  ASSUME VaultOK, EntriesAccounted, Secrets!Clear
  PROVE  VaultOK' /\ EntriesAccounted' /\ entries' = entries
<1>1. /\ entries' = entries /\ secrets' = [n \in Names |-> NoEntry]
      /\ cleared' = cleared \cup {secrets[n] : n \in {m \in Names : Secrets!Stored(m)}}
  BY DEF Secrets!Clear
<1>2. \A n \in Names : secrets[n] # NoEntry => secrets[n] \in cleared'
  BY <1>1 DEF Secrets!Stored
<1>3. cleared' \subseteq 1..Len(entries)
  BY <1>1 DEF VaultOK, Secrets!Stored
<1>4. VaultOK'
  BY <1>1, <1>3 DEF VaultOK
<1>5. EntriesAccounted'
  <2>1. NoEntry \notin Nat /\ cleared \subseteq cleared'
    BY <1>1, ServiceAssumption DEF Secrets!VaultAssumption
  <2> QED BY <1>1, <1>2, <2>1 DEF EntriesAccounted
<1> QED BY <1>1, <1>4, <1>5

\* What validate_token forgets it has refused.
LEMMA ValidateFacts ==
  ASSUME Auths!TypeOK, NEW t, Auths!Validate(t)
  PROVE  /\ Auths!TypeOK' /\ clock' = clock
         /\ DOMAIN sessions \cup refused \subseteq DOMAIN sessions' \cup refused'
         /\ t \in DOMAIN sessions \cup refused => Auths!Valid(t) \/ t \in refused'
<1>1. /\ clock' = clock
      /\ sessions' = [s \in DOMAIN sessions \ (IF Auths!Expired(t) THEN {t} ELSE {}) |-> sessions[s]]
      /\ refused' = IF Auths!Expired(t) THEN refused \cup {t} ELSE refused
  BY DEF Auths!Validate
<1>2. /\ DOMAIN sessions' = DOMAIN sessions \ (IF Auths!Expired(t) THEN {t} ELSE {})
      /\ \A s \in DOMAIN sessions' : sessions'[s] = sessions[s]
  BY <1>1
<1>3. DOMAIN sessions \cup refused \subseteq DOMAIN sessions' \cup refused'
  BY <1>1, <1>2
<1>4. t \in DOMAIN sessions \cup refused => Auths!Valid(t) \/ t \in refused'
  BY <1>1 DEF Auths!Valid
<1>5. Auths!TypeOK'
  BY <1>1, <1>2 DEF Auths!TypeOK, Auths!Expired
<1> QED BY <1>1, <1>3, <1>4, <1>5

-------------------------------------------------------------------------------
(* The stack of requests                                                       *)

\* What a new frame must be after the step.
FrameOK(f) ==
  \/ f.stage = "checked" /\ f.token \in DOMAIN sessions' \cup refused'
  \/ f.stage = "published" /\ f.reads \in 1..Len(entries') \cup {NoEntry}

\* Requests in progress stay sound while tokens are refused and entries are made.
LEMMA StackStep ==
  ASSUME StackOK, TokensAccounted, stack' \in Seq(Frame), Len(entries) \in Nat,
         Len(entries') \in Nat, Len(entries') >= Len(entries),
         DOMAIN sessions \cup refused \subseteq DOMAIN sessions' \cup refused',
         \A i \in 1..Len(stack') :
           (i \in 1..Len(stack) /\ stack'[i] = stack[i]) \/ FrameOK(stack'[i])
  PROVE  StackOK' /\ TokensAccounted'
<1>1. ASSUME NEW i \in 1..Len(stack')
      PROVE  /\ stack'[i].stage = "published" => stack'[i].reads \in 1..Len(entries') \cup {NoEntry}
             /\ stack'[i].stage = "checked" => stack'[i].token \in DOMAIN sessions' \cup refused'
  <2>1. CASE i \in 1..Len(stack) /\ stack'[i] = stack[i]
    <3>1. 1..Len(entries) \subseteq 1..Len(entries')
      OBVIOUS
    <3> QED BY <2>1, <3>1 DEF StackOK, TokensAccounted
  <2>2. CASE FrameOK(stack'[i])
    BY <2>2 DEF FrameOK
  <2> QED BY <2>1, <2>2
<1> QED BY <1>1 DEF StackOK, TokensAccounted

\* A request in progress.
LEMMA TopFacts ==
  ASSUME StackOK, NEW stage, In(stage)
  PROVE  /\ stack # <<>> /\ stack \in Seq(Frame) /\ Len(stack) \in 1..Len(stack)
         /\ Len(stack) \in Nat /\ Top \in Frame /\ Top.stage = stage /\ Top = stack[Len(stack)]
BY StackTop DEF StackOK, In, Top

\* A request that comes, one that ends, one that publishes.
LEMMA PushStack ==
  ASSUME StackOK, NEW f \in Frame, FrameOK(f), stack' = Append(stack, f)
  PROVE  /\ stack' \in Seq(Frame)
         /\ \A i \in 1..Len(stack') :
              (i \in 1..Len(stack) /\ stack'[i] = stack[i]) \/ FrameOK(stack'[i])
<1>1. /\ stack' \in Seq(Frame) /\ Len(stack) \in Nat /\ Len(stack') = Len(stack) + 1
      /\ stack'[Len(stack) + 1] = f
      /\ \A i \in 1..Len(stack) : stack'[i] = stack[i]
  BY StackPush DEF StackOK
<1>2. ASSUME NEW i \in 1..Len(stack')
      PROVE  (i \in 1..Len(stack) /\ stack'[i] = stack[i]) \/ stack'[i] = f
  BY <1>1
<1> QED BY <1>1, <1>2

LEMMA PopStack ==
  ASSUME StackOK, stack # <<>>, Leave
  PROVE  /\ stack' \in Seq(Frame)
         /\ \A i \in 1..Len(stack') :
              (i \in 1..Len(stack) /\ stack'[i] = stack[i]) \/ FrameOK(stack'[i])
<1>1. /\ stack' \in Seq(Frame) /\ Len(stack') = Len(stack) - 1
      /\ \A i \in 1..Len(stack') : stack'[i] = stack[i]
  BY StackPop DEF Leave, StackOK
<1>2. Len(stack) \in Nat
  BY SeqElements DEF StackOK
<1>3. \A i \in 1..Len(stack') : i \in 1..Len(stack)
  BY <1>1, <1>2
<1> QED BY <1>1, <1>3

LEMMA PublishStack ==
  ASSUME StackOK, stack # <<>>, NEW entry \in 1..Len(entries') \cup {NoEntry}, Publish(entry)
  PROVE  /\ stack' \in Seq(Frame)
         /\ \A i \in 1..Len(stack') :
              (i \in 1..Len(stack) /\ stack'[i] = stack[i]) \/ FrameOK(stack'[i])
<1> DEFINE f == [stage |-> "published", reads |-> entry]
<1>1. f \in Frame /\ f.stage = "published" /\ f.reads = entry
  BY DEF Frame, PublishedFrame
<1>2. stack' = [stack EXCEPT ![Len(stack)] = f]
  BY DEF Publish
<1> HIDE DEF f
<1>3. /\ stack' \in Seq(Frame) /\ Len(stack') = Len(stack) /\ stack'[Len(stack)] = f
      /\ \A i \in 1..Len(stack) - 1 : stack'[i] = stack[i]
  BY <1>1, <1>2, StackReplace DEF StackOK
<1>4. Len(stack) \in Nat
  BY SeqElements DEF StackOK
<1>5. ASSUME NEW i \in 1..Len(stack')
      PROVE  (i \in 1..Len(stack) /\ stack'[i] = stack[i]) \/ FrameOK(stack'[i])
  <2>1. CASE i = Len(stack)
    <3>1. stack'[i].stage = "published" /\ stack'[i].reads = entry
      BY <1>1, <1>3, <2>1
    <3> QED BY <3>1 DEF FrameOK
  <2>2. CASE i # Len(stack)
    BY <1>3, <1>4, <2>2
  <2> QED BY <2>1, <2>2
<1> QED BY <1>3, <1>5

-------------------------------------------------------------------------------
(* The steps                                                                   *)

\* Steps that leave the vault alone.
LEMMA VaultStays ==
  ASSUME IInv, UNCHANGED vaultVars
  PROVE  /\ VaultOK' /\ EntriesAccounted'
         /\ Len(entries) \in Nat /\ Len(entries') \in Nat /\ Len(entries') >= Len(entries)
<1>1. secrets' = secrets /\ entries' = entries /\ cleared' = cleared /\ VaultOK
  BY DEF IInv, vaultVars
<1>2. Len(entries) \in Nat /\ Len(entries) >= Len(entries)
  BY <1>1, SeqElements DEF VaultOK
<1> QED BY <1>1, <1>2 DEF IInv, VaultOK, EntriesAccounted

\* Steps at which tokens are refused at most, the stack changes at its top, and
\* nothing is answered.
LEMMA StepInv ==
  ASSUME IInv, Auths!TypeOK', VaultOK', EntriesAccounted', stack' \in Seq(Frame),
         Len(entries) \in Nat, Len(entries') \in Nat, Len(entries') >= Len(entries),
         DOMAIN sessions \cup refused \subseteq DOMAIN sessions' \cup refused',
         \A i \in 1..Len(stack') :
           (i \in 1..Len(stack) /\ stack'[i] = stack[i]) \/ FrameOK(stack'[i]),
         answer' = NoAnswer
  PROVE  IInv'
<1>1. StackOK' /\ TokensAccounted'
  BY StackStep DEF IInv
<1>2. AnswerFresh'
  BY DEF AnswerFresh
<1> QED BY <1>1, <1>2 DEF IInv

LEMMA SameStack ==
  ASSUME StackOK, stack' = stack
  PROVE  /\ stack' \in Seq(Frame)
         /\ \A i \in 1..Len(stack') :
              (i \in 1..Len(stack) /\ stack'[i] = stack[i]) \/ FrameOK(stack'[i])
BY DEF StackOK

LEMMA TimeInv == ASSUME IInv, TimePasses PROVE IInv'
<1>1. /\ clock' = clock + 1 /\ clock < MaxTime /\ UNCHANGED <<sessions, refused, vaultVars, stack>>
      /\ answer' = NoAnswer
  BY DEF TimePasses, Auths!TimePasses
<1>2. Auths!TypeOK /\ StackOK
  BY DEF IInv
<1>3. Auths!TypeOK'
  BY <1>1, <1>2, ServiceAssumption DEF Auths!TypeOK, Auths!AuthAssumption
<1> QED BY <1>1, <1>2, <1>3, VaultStays, SameStack, StepInv DEF IInv

LEMMA LoginInv == ASSUME IInv, NEW u \in Users, Login(u) PROVE IInv'
<1> DEFINE t == [user |-> u, time |-> clock]
<1>1. Auths!TypeOK /\ StackOK /\ MaxTime \in Nat
  BY ServiceAssumption DEF IInv, Auths!AuthAssumption
<1>2. PICK now \in {clock, clock + 1} \cap (0..MaxTime) :
        /\ clock' = now /\ refused' = refused
        /\ sessions' = [s \in DOMAIN sessions \cup {t} |-> IF s = t THEN now ELSE sessions[s]]
        /\ UNCHANGED <<vaultVars, stack>> /\ answer' = NoAnswer
  BY DEF Login, Auths!GenerateToken, Auths!TokenFor
<1>3. t \in Auths!Tokens
  BY <1>1 DEF Auths!TypeOK, Auths!Tokens
<1> HIDE DEF t
<1>4. /\ DOMAIN sessions' = DOMAIN sessions \cup {t} /\ sessions'[t] = now
      /\ \A s \in DOMAIN sessions : s # t => sessions'[s] = sessions[s]
  BY <1>2
<1>5. Auths!TypeOK'
  <2>1. clock \in Nat /\ now \in 0..MaxTime /\ now >= clock /\ now \in 0..now
    BY <1>1, <1>2 DEF Auths!TypeOK
  <2>2. ASSUME NEW s \in DOMAIN sessions' PROVE sessions'[s] \in 0..now
    <3>1. CASE s = t
      BY <1>4, <2>1, <3>1
    <3>2. CASE s # t
      <4>1. sessions'[s] = sessions[s] /\ sessions[s] \in 0..clock
        BY <1>1, <1>4, <3>2 DEF Auths!TypeOK
      <4> QED BY <2>1, <4>1
    <3> QED BY <3>1, <3>2
  <2> QED BY <1>1, <1>2, <1>3, <1>4, <2>1, <2>2 DEF Auths!TypeOK
<1>6. DOMAIN sessions \cup refused \subseteq DOMAIN sessions' \cup refused'
  BY <1>2, <1>4
<1> QED BY <1>1, <1>2, <1>5, <1>6, VaultStays, SameStack, StepInv

LEMMA UnauthorizedInv == ASSUME IInv, NEW t, Unauthorized(t) PROVE IInv'
<1>1. Auths!Validate(t) /\ UNCHANGED <<vaultVars, stack>> /\ answer' = NoAnswer
  BY DEF Unauthorized
<1>2. Auths!TypeOK /\ StackOK
  BY DEF IInv
<1> QED BY <1>1, <1>2, ValidateFacts, VaultStays, SameStack, StepInv

LEMMA RequestInv ==
  ASSUME IInv, NEW op \in Ops, NEW t \in DOMAIN sessions, NEW n \in Names, VaultRequest(op, t, n)
  PROVE  IInv'
<1> DEFINE f == [stage |-> "checked", op |-> op, token |-> t, name |-> n]
<1>1. /\ stack' = Append(stack, f) /\ answer' = NoAnswer
      /\ UNCHANGED <<clock, sessions, refused, vaultVars>>
  BY DEF VaultRequest, authVars
<1>2. Auths!TypeOK /\ StackOK
  BY DEF IInv
<1>3. f \in Frame /\ f.stage = "checked" /\ f.token = t
  BY <1>2 DEF Frame, CheckedFrame, Auths!TypeOK
<1> HIDE DEF f
<1>4. FrameOK(f)
  BY <1>1, <1>3 DEF FrameOK
<1>5. /\ stack' \in Seq(Frame)
      /\ \A i \in 1..Len(stack') :
           (i \in 1..Len(stack) /\ stack'[i] = stack[i]) \/ FrameOK(stack'[i])
  BY <1>1, <1>2, <1>3, <1>4, PushStack
<1>6. Auths!TypeOK'
  BY <1>1, <1>2 DEF Auths!TypeOK
<1> QED BY <1>1, <1>5, <1>6, VaultStays, StepInv

\* The user that a request acts for.
LEMMA ActorFacts ==
  ASSUME IInv, In("checked")
  PROVE  /\ Top \in CheckedFrame /\ ThisActor \in Users \cup {Fallback}
         /\ Top.token \in DOMAIN sessions \cup refused
         /\ Auths!Valid(Top.token) => ThisActor = Top.token.user
         /\ ~Auths!Valid(Top.token) => ThisActor = Fallback
<1>1. /\ Top \in Frame /\ Top.stage = "checked" /\ Len(stack) \in 1..Len(stack)
      /\ Top = stack[Len(stack)]
  BY TopFacts DEF IInv
<1>2. Top \in CheckedFrame
  BY <1>1, FrameStage
<1>3. Top.token \in Auths!Tokens /\ Top.token.user \in Users
  BY <1>2 DEF CheckedFrame, Auths!Tokens
<1>4. Top.token \in DOMAIN sessions \cup refused
  BY <1>1 DEF IInv, TokensAccounted
<1> QED BY <1>2, <1>3, <1>4 DEF ThisActor, UserOf

LEMMA ChangeInv == ASSUME IInv, Change PROVE IInv'
<1>1. /\ In("checked") /\ Auths!Validate(Top.token) /\ Publish(NoEntry) /\ answer' = NoAnswer
      /\ Auths!TypeOK /\ StackOK /\ VaultOK /\ EntriesAccounted
  BY DEF Change, IInv
<1>2. /\ Top \in CheckedFrame /\ ThisActor \in Users \cup {Fallback} /\ Top.name \in Names
      /\ stack # <<>>
  BY <1>1, ActorFacts, TopFacts DEF CheckedFrame
<1>3. clock \in Nat
  BY <1>1 DEF Auths!TypeOK
<1>4. /\ VaultOK' /\ EntriesAccounted'
      /\ Len(entries) \in Nat /\ Len(entries') \in Nat /\ Len(entries') >= Len(entries)
  <2>1. \/ \E ttl \in 0..1 : Secrets!StoreSecret(Top.name, ThisActor, ttl)
        \/ Secrets!RotateSecret(Top.name, ThisActor)
        \/ Secrets!RevokeSecret(Top.name)
    BY DEF Change
  <2>2. ASSUME NEW ttl \in 0..1, Secrets!StoreSecret(Top.name, ThisActor, ttl)
        PROVE  /\ VaultOK' /\ EntriesAccounted' /\ Len(entries) \in Nat
               /\ Len(entries') = Len(entries) + 1
    BY <1>1, <1>2, <1>3, <2>2, StoreFacts
  <2>3. ASSUME Secrets!RotateSecret(Top.name, ThisActor)
        PROVE  /\ VaultOK' /\ EntriesAccounted' /\ Len(entries) \in Nat
               /\ Len(entries') = Len(entries)
    BY <1>1, <1>2, <2>3, RotateFacts
  <2>4. ASSUME Secrets!RevokeSecret(Top.name)
        PROVE  /\ VaultOK' /\ EntriesAccounted' /\ Len(entries) \in Nat
               /\ Len(entries') = Len(entries)
    BY <1>1, <1>2, <2>4, RevokeFacts
  <2> QED BY <2>1, <2>2, <2>3, <2>4
<1>5. NoEntry \in 1..Len(entries') \cup {NoEntry}
  OBVIOUS
<1>6. /\ stack' \in Seq(Frame)
      /\ \A i \in 1..Len(stack') :
           (i \in 1..Len(stack) /\ stack'[i] = stack[i]) \/ FrameOK(stack'[i])
  BY <1>1, <1>2, <1>5, PublishStack
<1> QED BY <1>1, <1>4, <1>6, ValidateFacts, StepInv

LEMMA GetInv == ASSUME IInv, Get PROVE IInv'
<1>1. /\ In("checked") /\ Secrets!Readable(Top.name) /\ Publish(secrets[Top.name])
      /\ answer' = NoAnswer /\ UNCHANGED <<clock, sessions, refused, vaultVars>>
      /\ Auths!TypeOK /\ StackOK /\ VaultOK
  BY DEF Get, authVars, IInv
<1>2. Top \in CheckedFrame /\ Top.name \in Names /\ stack # <<>>
  BY <1>1, ActorFacts, TopFacts DEF CheckedFrame
<1>3. secrets[Top.name] \in 1..Len(entries') \cup {NoEntry}
  BY <1>1, <1>2 DEF VaultOK, vaultVars
<1>4. /\ stack' \in Seq(Frame)
      /\ \A i \in 1..Len(stack') :
           (i \in 1..Len(stack) /\ stack'[i] = stack[i]) \/ FrameOK(stack'[i])
  BY <1>1, <1>2, <1>3, PublishStack
<1>5. Auths!TypeOK'
  BY <1>1 DEF Auths!TypeOK
<1> QED BY <1>1, <1>4, <1>5, VaultStays, StepInv

LEMMA DeclineInv == ASSUME IInv, Decline PROVE IInv'
<1>1. /\ In("checked") /\ Leave /\ answer' = NoAnswer /\ UNCHANGED vaultVars
      /\ Auths!TypeOK /\ StackOK
  BY DEF Decline, IInv
<1>2. Auths!Validate(Top.token) \/ UNCHANGED <<clock, sessions, refused>>
  BY DEF Decline, authVars
<1>3. Auths!TypeOK' /\ DOMAIN sessions \cup refused \subseteq DOMAIN sessions' \cup refused'
  <2>1. CASE Auths!Validate(Top.token)
    BY <1>1, <2>1, ValidateFacts
  <2>2. CASE UNCHANGED <<clock, sessions, refused>>
    BY <1>1, <2>2 DEF Auths!TypeOK
  <2> QED BY <1>2, <2>1, <2>2
<1>4. /\ stack' \in Seq(Frame)
      /\ \A i \in 1..Len(stack') :
           (i \in 1..Len(stack) /\ stack'[i] = stack[i]) \/ FrameOK(stack'[i])
  BY <1>1, TopFacts, PopStack
<1> QED BY <1>1, <1>3, <1>4, VaultStays, StepInv

\* The request that published ends, with or without an answer.
LEMMA EndFacts ==
  ASSUME IInv, In("published"), Leave, UNCHANGED <<clock, authVars, vaultVars>>
  PROVE  /\ Auths!TypeOK' /\ VaultOK' /\ EntriesAccounted' /\ StackOK' /\ TokensAccounted'
         /\ Top.reads \in 1..Len(entries) \cup {NoEntry}
<1>1. Auths!TypeOK /\ StackOK /\ UNCHANGED <<clock, sessions, refused>>
  BY DEF IInv, authVars
<1>2. Auths!TypeOK'
  BY <1>1 DEF Auths!TypeOK
<1>3. /\ stack' \in Seq(Frame)
      /\ \A i \in 1..Len(stack') :
           (i \in 1..Len(stack) /\ stack'[i] = stack[i]) \/ FrameOK(stack'[i])
  BY <1>1, TopFacts, PopStack
<1>4. StackOK' /\ TokensAccounted'
  BY <1>1, <1>3, VaultStays, StackStep DEF IInv
<1>5. Top.reads \in 1..Len(entries) \cup {NoEntry}
  BY <1>1, TopFacts DEF StackOK
<1> QED BY <1>2, <1>4, <1>5, VaultStays

LEMMA AnswerInv == ASSUME IInv, Answer PROVE IInv'
<1>1. /\ In("published") /\ Leave /\ UNCHANGED <<clock, authVars, vaultVars>>
      /\ answer' = IF Top.reads = NoEntry THEN NoAnswer
                   ELSE [entry |-> Top.reads, revoked |-> entries[Top.reads].revoked]
      /\ entries' = entries
  BY DEF Answer, FlagOf, vaultVars
<1>2. Top.reads \in 1..Len(entries) \cup {NoEntry}
  BY <1>1, EndFacts
<1>3. AnswerFresh'
  <2> SUFFICES ASSUME answer' # NoAnswer
               PROVE  /\ answer'.entry \in 1..Len(entries)
                      /\ answer'.revoked = entries[answer'.entry].revoked
    BY <1>1 DEF AnswerFresh
  <2>1. /\ Top.reads \in 1..Len(entries)
        /\ answer'.entry = Top.reads /\ answer'.revoked = entries[Top.reads].revoked
    BY <1>1, <1>2
  <2> QED BY <2>1
<1> QED BY <1>1, <1>3, EndFacts DEF IInv

LEMMA RaiseInv == ASSUME IInv, Raise PROVE IInv'
<1>1. /\ In("published") /\ Leave /\ UNCHANGED <<clock, authVars, vaultVars>>
      /\ answer' = NoAnswer
  BY DEF Raise
<1> QED BY <1>1, EndFacts DEF IInv, AnswerFresh

LEMMA ClearVaultInv == ASSUME IInv, ClearVault PROVE IInv'
<1>1. /\ Secrets!Clear /\ answer' = NoAnswer /\ UNCHANGED <<clock, sessions, refused, stack>>
      /\ Auths!TypeOK /\ VaultOK /\ EntriesAccounted /\ StackOK
  BY DEF ClearVault, authVars, IInv
<1>2. VaultOK' /\ EntriesAccounted' /\ entries' = entries
  BY <1>1, ClearFacts
<1>3. Len(entries) \in Nat /\ Len(entries) >= Len(entries)
  BY <1>1, SeqElements DEF VaultOK
<1>4. Auths!TypeOK'
  BY <1>1 DEF Auths!TypeOK
<1> QED BY <1>1, <1>2, <1>3, <1>4, SameStack, StepInv

LEMMA NextInv == IInv /\ [Next]_vars => IInv'
<1> SUFFICES ASSUME IInv, [Next]_vars PROVE IInv'
  OBVIOUS
<1>1. CASE UNCHANGED vars
  <2>1. UNCHANGED <<clock, sessions, refused, secrets, entries, cleared, stack, answer>>
    BY <1>1 DEF vars, authVars, vaultVars
  <2> QED BY <2>1 DEF IInv, Auths!TypeOK, VaultOK, StackOK, EntriesAccounted, TokensAccounted,
                      AnswerFresh
<1> QED BY <1>1, TimeInv, LoginInv, UnauthorizedInv, RequestInv, ChangeInv, GetInv, DeclineInv,
           AnswerInv, RaiseInv, ClearVaultInv DEF Next

-------------------------------------------------------------------------------
(* The theorems                                                                *)

LEMMA Invariant == Spec => []IInv
BY InitInv, NextInv, PTL DEF Spec

\* Sessions, secrets and the requests in progress are well typed.
THEOREM TypeCorrect == Spec => []TypeOK
<1>1. IInv => TypeOK
  <2> SUFFICES ASSUME IInv PROVE TypeOK
    OBVIOUS
  <2>1. Auths!TypeOK /\ VaultOK /\ StackOK
    BY DEF IInv
  <2>2. DOMAIN entries = 1..Len(entries)
    BY <2>1 DEF VaultOK
  <2>3. Secrets!TypeOK
    BY <2>1, <2>2 DEF VaultOK, Secrets!TypeOK, Secrets!Stored
  <2> DEFINE G == [stage : {"checked"}, op : Ops, token : Auths!Tokens, name : Names]
                  \cup [stage : {"published"}, reads : DOMAIN entries \cup {NoEntry}]
  <2>4. stack \in Seq(Frame) /\ \A i \in 1..Len(stack) : stack[i] \in Frame
    BY <2>1, SeqElements DEF StackOK
  <2>5. ASSUME NEW i \in 1..Len(stack) PROVE stack[i] \in G
    <3>1. CASE stack[i].stage = "checked"
      BY <2>4, <3>1, FrameStage DEF CheckedFrame
    <3>2. CASE stack[i].stage = "published"
      <4>1. stack[i] \in PublishedFrame /\ stack[i].reads \in 1..Len(entries) \cup {NoEntry}
        BY <2>1, <2>4, <3>2, FrameStage DEF StackOK
      <4> QED BY <2>2, <4>1 DEF PublishedFrame
    <3> QED BY <2>4, <3>1, <3>2, FrameStage
  <2> HIDE DEF G
  <2>6. stack \in Seq(G)
    BY <2>4, <2>5
  <2> QED BY <2>1, <2>3, <2>6 DEF TypeOK, G
<1> QED BY <1>1, Invariant, PTL

\* What get_secret answers about revocation is true of the entry it read.
THEOREM AnswersTellRevocation == Spec => []AnswerTellsRevocation
<1>1. IInv => AnswerTellsRevocation
  BY DEF IInv, AnswerFresh, EntriesAccounted, AnswerTellsRevocation
<1> QED BY <1>1, Invariant, PTL

\* A version that is made names the user of the token, or nobody if the token expired.
ActorStep ==
  \A e \in DOMAIN entries' :
    LET versions == entries'[e].versions IN
    e \notin DOMAIN entries \/ versions # entries[e].versions =>
      LET by == versions[Len(versions)] IN
      by = Top.token.user \/ (by = Fallback /\ Top.token \in refused')

LEMMA ActorOfChange == ASSUME IInv, Change PROVE ActorStep
<1>1. /\ In("checked") /\ Auths!Validate(Top.token)
      /\ Auths!TypeOK /\ VaultOK /\ EntriesAccounted
  BY DEF Change, IInv
<1>2. /\ Top \in CheckedFrame /\ ThisActor \in Users \cup {Fallback} /\ Top.name \in Names
      /\ Top.token \in DOMAIN sessions \cup refused
      /\ Auths!Valid(Top.token) => ThisActor = Top.token.user
      /\ ~Auths!Valid(Top.token) => ThisActor = Fallback
  BY <1>1, ActorFacts DEF CheckedFrame
<1>3. ThisActor = Top.token.user \/ (ThisActor = Fallback /\ Top.token \in refused')
  BY <1>1, <1>2, ValidateFacts
<1>4. clock \in Nat
  BY <1>1 DEF Auths!TypeOK
<1>5. VaultOK => Len(entries) \in Nat /\ DOMAIN entries = 1..Len(entries)
  BY SeqElements DEF VaultOK
<1>6. VaultOK' => DOMAIN entries' = 1..Len(entries')
  BY DEF VaultOK
<1>7. ASSUME NEW ttl \in 0..1, Secrets!StoreSecret(Top.name, ThisActor, ttl) PROVE ActorStep
  <2>1. /\ VaultOK' /\ Len(entries) \in Nat /\ Len(entries') = Len(entries) + 1
        /\ entries'[Len(entries) + 1].versions = <<ThisActor>>
        /\ \A e \in 1..Len(entries) : entries'[e] = entries[e]
    BY <1>1, <1>2, <1>4, <1>7, StoreFacts
  <2>2. /\ DOMAIN entries = 1..Len(entries)
        /\ DOMAIN entries' = (1..Len(entries)) \cup {Len(entries) + 1}
    BY <1>1, <1>5, <1>6, <2>1
  <2>3. <<ThisActor>>[Len(<<ThisActor>>)] = ThisActor
    OBVIOUS
  <2> QED BY <1>3, <2>1, <2>2, <2>3 DEF ActorStep
<1>8. ASSUME Secrets!RotateSecret(Top.name, ThisActor) PROVE ActorStep
  <2>1. /\ VaultOK' /\ Len(entries) \in Nat /\ Len(entries') = Len(entries)
        /\ LET versions == entries'[secrets[Top.name]].versions
           IN  versions[Len(versions)] = ThisActor
        /\ \A d \in 1..Len(entries) : d # secrets[Top.name] => entries'[d] = entries[d]
    BY <1>1, <1>2, <1>8, RotateFacts
  <2>2. DOMAIN entries = 1..Len(entries) /\ DOMAIN entries' = 1..Len(entries)
    BY <1>1, <1>5, <1>6, <2>1
  <2> QED BY <1>3, <2>1, <2>2 DEF ActorStep
<1>9. ASSUME Secrets!RevokeSecret(Top.name) PROVE ActorStep
  <2>1. /\ VaultOK' /\ Len(entries) \in Nat /\ Len(entries') = Len(entries)
        /\ \A d \in 1..Len(entries) : entries'[d].versions = entries[d].versions
    BY <1>1, <1>2, <1>9, RevokeFacts
  <2>2. DOMAIN entries = 1..Len(entries) /\ DOMAIN entries' = 1..Len(entries)
    BY <1>1, <1>5, <1>6, <2>1
  <2> QED BY <2>1, <2>2 DEF ActorStep
<1> QED BY <1>7, <1>8, <1>9 DEF Change

LEMMA ActorStepHolds == ASSUME IInv, [Next]_vars PROVE [ActorStep]_vars
<1>1. CASE entries' = entries
  BY <1>1 DEF ActorStep
<1>2. CASE Change
  BY <1>2, ActorOfChange
<1>3. entries' = entries \/ Change
  <2>1. UNCHANGED vaultVars \/ Secrets!Clear => entries' = entries
    BY DEF vaultVars, Secrets!Clear
  <2>2. UNCHANGED vars => entries' = entries
    BY DEF vars, vaultVars
  <2> QED BY <2>1, <2>2 DEF Next, TimePasses, Login, Unauthorized, VaultRequest, Get, Decline,
                            Answer, Raise, ClearVault
<1> QED BY <1>1, <1>2, <1>3

\* Versions name the user of the token with which they were asked for.
THEOREM ActorsAreTokenUsers == Spec => ActorIsTokenUser
<1>1. IInv /\ [Next]_vars => [ActorStep]_vars
  BY ActorStepHolds
<1>2. Spec => [][ActorStep]_vars
  BY <1>1, Invariant, PTL DEF Spec
<1> QED BY <1>2 DEF ActorIsTokenUser, ActorStep
===============================================================================
