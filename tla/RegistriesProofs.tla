--------------------------- MODULE RegistriesProofs ---------------------------
(* Theorems about the item storage, the schema registry, the rules of schemas, *)
(* the policies and the feature flags, for any ids, names, field definitions,  *)
(* payloads, rules, requests, users and buckets.                               *)
EXTENDS Registries, ListProofs, FiniteSetTheorems, TLAPS

-------------------------------------------------------------------------------
(* The schema registry                                                         *)

Registered(s) == \E i \in 1..Len(registered) : registered[i] = s

\* Ids are registered once; what is stored or indexed was registered; the index
\* names schemas of its name and version, and of those the one registered last.
RegistryInv ==
  /\ Registry!TypeOK
  /\ \A i, k \in 1..Len(registered) : registered[i] = registered[k] => i = k
  /\ \A s \in Ids : schemas[s] # NoSchema => Registered(s)
  /\ \A n \in Names, v \in Versions : index[n][v] # NoId => Registered(index[n][v])
  /\ Registry!IndexIsLive
  /\ \A n \in Names, v \in Versions, i, k \in 1..Len(registered) :
       /\ registered[k] = index[n][v]
       /\ index[n][v] # NoId
       /\ schemas[registered[i]] = [name |-> n, version |-> v]
       => i <= k

LEMMA RegistryInit == Registry!Init => RegistryInv
<1> SUFFICES ASSUME Registry!Init PROVE RegistryInv
  OBVIOUS
<1>1. registered = <<>> /\ \A s \in Ids : schemas[s] = NoSchema
  BY DEF Registry!Init
<1>2. \A n \in Names, v \in Versions : index[n][v] = NoId
  BY DEF Registry!Init, Registry!EmptyIndex
<1>3. Registry!TypeOK
  BY DEF Registry!Init, Registry!EmptyIndex, Registry!TypeOK
<1> QED BY <1>1, <1>2, <1>3 DEF RegistryInv, Registry!IndexIsLive

LEMMA RegisterInv ==
  ASSUME RegistryInv, Registry!RegistryAssumption,
         NEW s \in Ids, NEW n \in Names, NEW v \in Versions, Registry!Register(s, n, v)
  PROVE  RegistryInv'
<1> DEFINE new == [name |-> n, version |-> v]
           last == Len(registered) + 1
<1>1. /\ \A i \in 1..Len(registered) : registered[i] # s
      /\ schemas' = [schemas EXCEPT ![s] = new]
      /\ index' = [index EXCEPT ![n][v] = s]
      /\ registered' = Append(registered, s)
  BY DEF Registry!Register, Registry!IsNew, Registry!SchemaFor, Registry!IndexWith
<1>2. /\ schemas \in [Ids -> Registry!Schema \cup {NoSchema}]
      /\ index \in [Names -> [Versions -> Ids \cup {NoId}]]
      /\ registered \in Seq(Ids)
  BY DEF RegistryInv, Registry!TypeOK
<1>3. /\ registered' \in Seq(Ids)
      /\ Len(registered) \in Nat
      /\ Len(registered') = last
      /\ registered'[last] = s
      /\ \A i \in 1..Len(registered) : registered'[i] = registered[i]
      /\ \A i \in 1..Len(registered') : i \in 1..Len(registered) \/ i = last
      /\ 1..Len(registered) \subseteq 1..Len(registered') /\ last \in 1..Len(registered')
  <2>1. /\ registered' \in Seq(Ids)
        /\ Len(registered) \in Nat
        /\ Len(registered') = last
        /\ registered'[last] = s
        /\ \A i \in 1..Len(registered) : registered'[i] = registered[i]
    BY <1>1, <1>2, StackPush
  <2> QED BY <2>1
<1>4. new \in Registry!Schema
  BY DEF Registry!Schema
<1>5. /\ \A t \in Ids : schemas'[t] = IF t = s THEN new ELSE schemas[t]
      /\ \A m \in Names, w \in Versions :
           index'[m][w] = IF m = n /\ w = v THEN s ELSE index[m][w]
  BY <1>1, <1>2
<1>6. Registry!TypeOK'
  <2>1. schemas' \in [Ids -> Registry!Schema \cup {NoSchema}]
    <3> HIDE DEF new
    <3> QED BY <1>1, <1>2, <1>4
  <2>2. index' \in [Names -> [Versions -> Ids \cup {NoId}]]
    BY <1>1, <1>2
  <2> QED BY <1>3, <2>1, <2>2 DEF Registry!TypeOK
<1> HIDE DEF last
<1>7. \A t : Registered(t)' <=> Registered(t) \/ t = s
  BY <1>3 DEF Registered
<1>8. \A i, k \in 1..Len(registered') : registered'[i] = registered'[k] => i = k
  BY <1>1, <1>3 DEF RegistryInv
<1>9. \A t \in Ids : schemas'[t] # NoSchema => Registered(t)'
  BY <1>5, <1>7 DEF RegistryInv
<1>10. \A m \in Names, w \in Versions : index'[m][w] # NoId => Registered(index[m][w])'
  BY <1>5, <1>7 DEF RegistryInv
<1>11. ~Registered(s)
  BY <1>1 DEF Registered
<1>12. Registry!IndexIsLive'
  <2> SUFFICES ASSUME NEW m \in Names, NEW w \in Versions, index'[m][w] # NoId
               PROVE  schemas'[index'[m][w]] = [name |-> m, version |-> w]
    BY DEF Registry!IndexIsLive, Registry!SchemaFor
  <2>1. CASE m = n /\ w = v
    BY <1>5, <2>1
  <2>2. CASE ~(m = n /\ w = v)
    <3>1. index'[m][w] = index[m][w] /\ index[m][w] \in Ids /\ index[m][w] # s
      BY <1>2, <1>5, <1>11, <2>2 DEF RegistryInv
    <3>2. schemas[index[m][w]] = [name |-> m, version |-> w]
      BY <3>1 DEF RegistryInv, Registry!IndexIsLive, Registry!SchemaFor
    <3> QED BY <1>5, <3>1, <3>2
  <2> QED BY <2>1, <2>2
<1>13. ASSUME NEW m \in Names, NEW w \in Versions,
              NEW i \in 1..Len(registered'), NEW k \in 1..Len(registered'),
              registered'[k] = index'[m][w], index'[m][w] # NoId,
              schemas'[registered'[i]] = [name |-> m, version |-> w]
       PROVE  i <= k
  <2>1. CASE m = n /\ w = v
    <3>1. k = last
      BY <1>3, <1>5, <1>8, <1>13, <2>1
    <3> QED BY <1>3, <3>1 DEF last
  <2>2. CASE ~(m = n /\ w = v)
    <3>1. index'[m][w] = index[m][w] /\ index[m][w] # s
      BY <1>2, <1>5, <1>11, <1>13, <2>2 DEF RegistryInv
    <3>2. k \in 1..Len(registered) /\ registered[k] = index[m][w]
      BY <1>3, <1>13, <3>1
    <3>3. i # last
      <4> SUFFICES ASSUME i = last PROVE FALSE
        OBVIOUS
      <4>1. schemas'[registered'[i]] = new
        BY <1>3, <1>5
      <4> QED BY <1>13, <2>2, <4>1
    <3>4. i \in 1..Len(registered) /\ registered'[i] = registered[i]
      BY <1>3, <3>3
    <3>5. schemas[registered[i]] = [name |-> m, version |-> w]
      BY <1>1, <1>2, <1>5, <1>13, <3>4
    <3> QED BY <1>13, <3>1, <3>2, <3>4, <3>5 DEF RegistryInv
  <2> QED BY <2>1, <2>2
<1> QED BY <1>6, <1>8, <1>9, <1>10, <1>12, <1>13 DEF RegistryInv

LEMMA DeleteInv ==
  ASSUME RegistryInv, Registry!RegistryAssumption, NEW s \in Ids, Registry!Delete(s)
  PROVE  RegistryInv'
<1> DEFINE n == schemas[s].name
           v == schemas[s].version
<1>1. /\ schemas \in [Ids -> Registry!Schema \cup {NoSchema}]
      /\ index \in [Names -> [Versions -> Ids \cup {NoId}]]
      /\ registered \in Seq(Ids)
  BY DEF RegistryInv, Registry!TypeOK
<1>2. schemas[s] # NoSchema /\ schemas[s] \in Registry!Schema
  BY <1>1 DEF Registry!Delete, Registry!Stored
<1>3. n \in Names /\ v \in Versions
  BY <1>2 DEF Registry!Schema
<1>4. /\ schemas' = [schemas EXCEPT ![s] = NoSchema]
      /\ index' = [index EXCEPT ![n][v] = NoId]
      /\ registered' = registered
  BY DEF Registry!Delete, Registry!IndexWithout
<1>5. schemas[s] = [name |-> n, version |-> v]
  BY <1>2 DEF Registry!Schema
<1> HIDE DEF n, v
<1>6. /\ \A t \in Ids : schemas'[t] = IF t = s THEN NoSchema ELSE schemas[t]
      /\ \A m \in Names, w \in Versions :
           index'[m][w] = IF m = n /\ w = v THEN NoId ELSE index[m][w]
  BY <1>1, <1>3, <1>4
<1>7. Registry!TypeOK'
  BY <1>1, <1>3, <1>4 DEF Registry!TypeOK
<1>8. \A t : Registered(t)' <=> Registered(t)
  BY <1>4 DEF Registered
<1>9. Registry!IndexIsLive'
  <2> SUFFICES ASSUME NEW m \in Names, NEW w \in Versions, index'[m][w] # NoId
               PROVE  schemas'[index'[m][w]] = [name |-> m, version |-> w]
    BY DEF Registry!IndexIsLive, Registry!SchemaFor
  <2>1. ~(m = n /\ w = v) /\ index'[m][w] = index[m][w] /\ index[m][w] \in Ids
    BY <1>1, <1>6
  <2>2. schemas[index[m][w]] = [name |-> m, version |-> w]
    BY <2>1 DEF RegistryInv, Registry!IndexIsLive, Registry!SchemaFor
  <2>3. index[m][w] # s
    BY <1>5, <2>1, <2>2
  <2> QED BY <1>6, <2>1, <2>2, <2>3
<1>10. ASSUME NEW m \in Names, NEW w \in Versions,
              NEW i \in 1..Len(registered'), NEW k \in 1..Len(registered'),
              registered'[k] = index'[m][w], index'[m][w] # NoId,
              schemas'[registered'[i]] = [name |-> m, version |-> w]
       PROVE  i <= k
  <2>1. registered[i] \in Ids
    BY <1>1, <1>4
  <2>2. [name |-> m, version |-> w] \in Registry!Schema
    BY DEF Registry!Schema
  <2>3. schemas'[registered[i]] # NoSchema
    BY <1>4, <1>10, <2>2 DEF Registry!RegistryAssumption
  <2>4. schemas[registered[i]] = [name |-> m, version |-> w]
    BY <1>4, <1>6, <1>10, <2>1, <2>3
  <2> QED BY <1>4, <1>6, <1>10, <2>4 DEF RegistryInv
<1> QED BY <1>4, <1>6, <1>7, <1>8, <1>9, <1>10 DEF RegistryInv

LEMMA RegistryNext ==
  ASSUME RegistryInv, Registry!RegistryAssumption, Registry!Next
  PROVE  RegistryInv'
<1>1. ASSUME NEW s \in Ids, NEW n \in Names, NEW v \in Versions, Registry!Register(s, n, v)
      PROVE  RegistryInv'
  BY <1>1, RegisterInv
<1>2. ASSUME NEW s \in Ids, Registry!Delete(s) PROVE RegistryInv'
  BY <1>2, DeleteInv
<1>3. CASE Registry!Clear
  <2>1. /\ schemas' = [s \in Ids |-> NoSchema]
        /\ index' = [n \in Names |-> [v \in Versions |-> NoId]]
        /\ registered' = registered
    BY <1>3 DEF Registry!Clear, Registry!EmptyIndex
  <2>2. /\ \A s \in Ids : schemas'[s] = NoSchema
        /\ \A n \in Names, v \in Versions : index'[n][v] = NoId
    BY <2>1
  <2>3. Registry!TypeOK'
    BY <2>1 DEF RegistryInv, Registry!TypeOK
  <2> QED BY <2>1, <2>2, <2>3 DEF RegistryInv, Registry!IndexIsLive
<1> QED BY <1>1, <1>2, <1>3 DEF Registry!Next

LEMMA RegistryStutters ==
  ASSUME RegistryInv, UNCHANGED contractVars
  PROVE  RegistryInv'
BY DEF RegistryInv, contractVars, Registered, Registry!TypeOK, Registry!IndexIsLive

\* What the invariant says in the terms of Contracts.
LEMMA RegistryConsequences ==
  ASSUME RegistryInv, Registry!RegistryAssumption
  PROVE  IndexIsLive /\ IndexIsNewest
<1>1. IndexIsLive
  BY DEF RegistryInv, IndexIsLive
<1>2. ASSUME NEW n \in Names, NEW v \in Versions, NEW s \in Ids,
             index[n][v] # NoId, schemas[s] = [name |-> n, version |-> v]
      PROVE  Registry!Turn(s) <= Registry!Turn(index[n][v])
  <2>1. schemas[s] # NoSchema
    <3>1. [name |-> n, version |-> v] \in Registry!Schema
      BY DEF Registry!Schema
    <3> QED BY <1>2, <3>1 DEF Registry!RegistryAssumption
  <2>2. PICK i \in 1..Len(registered) : registered[i] = s
    BY <2>1 DEF RegistryInv, Registered
  <2>3. PICK k \in 1..Len(registered) : registered[k] = index[n][v]
    BY <1>2 DEF RegistryInv, Registered
  <2>4. \A a, b \in 1..Len(registered) : registered[a] = registered[b] => a = b
    BY DEF RegistryInv
  <2>5. Registry!Turn(s) = i /\ Registry!Turn(index[n][v]) = k
    BY <2>2, <2>3, <2>4 DEF Registry!Turn
  <2>6. i <= k
    BY <1>2, <2>2, <2>3 DEF RegistryInv
  <2> QED BY <2>5, <2>6
<1> QED BY <1>1, <1>2 DEF IndexIsNewest, Registry!IndexIsNewest

\* Look-ups by name never run into a schema that is gone.
THEOREM LookUpsAreLive == Spec => []IndexIsLive
<1>1. Registry!RegistryAssumption
  BY RegistriesAssumption
<1>2. Init => RegistryInv
  BY RegistryInit DEF Init
<1>3. RegistryInv /\ [Next]_vars => RegistryInv'
  BY <1>1, RegistryNext, RegistryStutters
     DEF Next, StoreStep, ContractStep, RuleStep, PolicyStep, FlagStep, vars
<1> QED BY <1>1, <1>2, <1>3, RegistryConsequences, PTL DEF Spec

\* Of the schemas of one name and version, look-ups find the one registered last.
THEOREM LookUpsFindTheNewest == Spec => []IndexIsNewest
<1>1. Registry!RegistryAssumption
  BY RegistriesAssumption
<1>2. Init => RegistryInv
  BY RegistryInit DEF Init
<1>3. RegistryInv /\ [Next]_vars => RegistryInv'
  BY <1>1, RegistryNext, RegistryStutters
     DEF Next, StoreStep, ContractStep, RuleStep, PolicyStep, FlagStep, vars
<1> QED BY <1>1, <1>2, <1>3, RegistryConsequences, PTL DEF Spec

-------------------------------------------------------------------------------
(* The feature flags                                                           *)

\* A call leaves its flag with values of their types.
LEMMA GivenType ==
  ASSUME NEW S, NEW value, value \in S \/ value = Unset, NEW old \in S
  PROVE  Flagging!Given(value, old) \in S
BY DEF Flagging!Given

\* An update changes its flag alone: as a whole, or only its switch if it is refused.
LEMMA UpdateStep ==
  ASSUME Flagging!FlagsAssumption, Flagging!TypeOK, NEW f \in Flags,
         NEW enabled \in BOOLEAN \cup {Unset}, NEW rollout \in Rollouts \cup {Unset},
         NEW roles \in (SUBSET FlagRoles) \cup {Unset},
         NEW users \in (SUBSET Users) \cup {Unset},
         Flagging!Update(f, enabled, rollout, roles, users)
  PROVE  /\ flags[f] \in Flagging!Flag
         /\ \E new \in Flagging!Flag :
              /\ flags' = [flags EXCEPT ![f] = new]
              /\ outcome' = "refused" => \E b \in BOOLEAN : new = [flags[f] EXCEPT !.enabled = b]
         /\ outcome' \in Flagging!Outcomes
<1> DEFINE old == flags[f]
           part == [old EXCEPT !.enabled = Flagging!Given(enabled, @)]
           whole == [enabled |-> Flagging!Given(enabled, old.enabled),
                     rollout |-> Flagging!Given(rollout, old.rollout),
                     roles |-> Flagging!Given(roles, old.roles),
                     users |-> Flagging!Given(users, old.users)]
           accepted == rollout = Unset \/ Flagging!InRange(rollout)
<1>1. old \in Flagging!Flag
  BY DEF Flagging!Update, Flagging!Known, Flagging!TypeOK
<1>2. /\ old.enabled \in BOOLEAN /\ old.rollout \in 0..100
      /\ old.roles \in SUBSET FlagRoles /\ old.users \in SUBSET Users
  BY <1>1 DEF Flagging!Flag
<1>3. /\ flags' = [flags EXCEPT ![f] = IF accepted THEN whole ELSE part]
      /\ IF accepted THEN outcome' \in {"answered", "abandoned"} ELSE outcome' = "refused"
  BY DEF Flagging!Update, Flagging!UntilCheck, Flagging!Announced
<1>4. /\ Flagging!Given(enabled, old.enabled) \in BOOLEAN
      /\ Flagging!Given(roles, old.roles) \in SUBSET FlagRoles
      /\ Flagging!Given(users, old.users) \in SUBSET Users
  BY <1>2, GivenType
<1>5. part \in Flagging!Flag /\ \E b \in BOOLEAN : part = [old EXCEPT !.enabled = b]
  BY <1>1, <1>4 DEF Flagging!Flag
<1>6. accepted => whole \in Flagging!Flag
  <2> SUFFICES ASSUME accepted PROVE Flagging!Given(rollout, old.rollout) \in 0..100
    BY <1>4 DEF Flagging!Flag
  <2>1. rollout \in 0..100 \/ rollout = Unset
    BY DEF Flagging!InRange, Flagging!FlagsAssumption
  <2> QED BY <1>2, <2>1, GivenType
<1>7. outcome' \in Flagging!Outcomes /\ (outcome' = "refused" => ~accepted)
  BY <1>3 DEF Flagging!Outcomes
<1> HIDE DEF part, whole, accepted
<1> QED BY <1>1, <1>3, <1>5, <1>6, <1>7

LEMMA FlagsNext ==
  ASSUME Flagging!FlagsAssumption, Flagging!TypeOK, Flagging!Next
  PROVE  /\ Flagging!TypeOK'
         /\ outcome' = "refused" =>
              \A f \in Flags :
                /\ Flagging!Known(f) <=> flags'[f] # NoFlag
                /\ Flagging!Known(f) =>
                     flags'[f] = [flags[f] EXCEPT !.enabled = flags'[f].enabled]
<1>1. flags \in [Flags -> Flagging!Flag \cup {NoFlag}]
  BY DEF Flagging!TypeOK
<1>2. \A f \in Flags : Flagging!Known(f) => flags[f] \in Flagging!Flag
  BY <1>1 DEF Flagging!Known
<1>3. \A f \in Flags : Flagging!Known(f) => flags[f] = [flags[f] EXCEPT !.enabled = flags[f].enabled]
  BY <1>2 DEF Flagging!Flag
<1>4. ASSUME NEW f \in Flags, NEW enabled \in BOOLEAN, NEW rollout \in Rollouts,
             NEW roles \in SUBSET FlagRoles, NEW users \in SUBSET Users,
             Flagging!Create(f, enabled, rollout, roles, users)
      PROVE  /\ Flagging!TypeOK'
             /\ outcome' = "refused" => flags' = flags
  <2> DEFINE new == [enabled |-> enabled, rollout |-> rollout, roles |-> roles, users |-> users]
           accepted == ~Flagging!Known(f) /\ Flagging!InRange(rollout)
  <2>1. IF accepted
        THEN flags' = [flags EXCEPT ![f] = new] /\ outcome' \in {"answered", "abandoned"}
        ELSE flags' = flags /\ outcome' = "refused"
    BY <1>4 DEF Flagging!Create, Flagging!Announced
  <2>2. outcome' \in Flagging!Outcomes
    BY <2>1 DEF Flagging!Outcomes
  <2>3. accepted => new \in Flagging!Flag
    <3>1. accepted => rollout \in 0..100
      BY DEF Flagging!InRange, Flagging!FlagsAssumption
    <3> QED BY <3>1 DEF Flagging!Flag
  <2> HIDE DEF new, accepted
  <2>4. flags' \in [Flags -> Flagging!Flag \cup {NoFlag}]
    BY <1>1, <2>1, <2>3
  <2> QED BY <2>1, <2>2, <2>4 DEF Flagging!TypeOK
<1>5. ASSUME NEW f \in Flags,
             NEW enabled \in BOOLEAN \cup {Unset}, NEW rollout \in Rollouts \cup {Unset},
             NEW roles \in (SUBSET FlagRoles) \cup {Unset},
             NEW users \in (SUBSET Users) \cup {Unset},
             Flagging!Update(f, enabled, rollout, roles, users)
      PROVE  /\ Flagging!TypeOK'
             /\ outcome' = "refused" =>
                  \A g \in Flags :
                    /\ Flagging!Known(g) <=> flags'[g] # NoFlag
                    /\ Flagging!Known(g) =>
                         flags'[g] = [flags[g] EXCEPT !.enabled = flags'[g].enabled]
  <2>1. /\ flags[f] \in Flagging!Flag
        /\ \E new \in Flagging!Flag :
             /\ flags' = [flags EXCEPT ![f] = new]
             /\ outcome' = "refused" => \E b \in BOOLEAN : new = [flags[f] EXCEPT !.enabled = b]
        /\ outcome' \in Flagging!Outcomes
    BY <1>5, UpdateStep
  <2>2. PICK new \in Flagging!Flag :
          /\ flags' = [flags EXCEPT ![f] = new]
          /\ outcome' = "refused" => \E b \in BOOLEAN : new = [flags[f] EXCEPT !.enabled = b]
    BY <2>1
  <2>3. Flagging!TypeOK'
    BY <1>1, <2>1, <2>2 DEF Flagging!TypeOK
  <2>4. ASSUME outcome' = "refused", NEW g \in Flags
        PROVE  /\ Flagging!Known(g) <=> flags'[g] # NoFlag
               /\ Flagging!Known(g) =>
                    flags'[g] = [flags[g] EXCEPT !.enabled = flags'[g].enabled]
    <3>1. CASE g = f
      <4>1. flags'[f] = new /\ new # NoFlag /\ Flagging!Known(f)
        BY <1>1, <1>5, <2>2 DEF Flagging!FlagsAssumption, Flagging!Update
      <4>2. new = [flags[f] EXCEPT !.enabled = new.enabled]
        BY <2>1, <2>2, <2>4 DEF Flagging!Flag
      <4> QED BY <3>1, <4>1, <4>2
    <3>2. CASE g # f
      <4>1. flags'[g] = flags[g]
        BY <1>1, <2>2, <3>2
      <4> QED BY <1>3, <4>1 DEF Flagging!Known
    <3> QED BY <3>1, <3>2
  <2> QED BY <2>3, <2>4
<1>6. ASSUME NEW f \in Flags, NEW enabled \in BOOLEAN \cup {Unset}, Flagging!Toggle(f, enabled)
      PROVE  Flagging!TypeOK' /\ outcome' # "refused"
  <2>1. flags[f] \in Flagging!Flag /\ flags[f].enabled \in BOOLEAN
    BY <1>2, <1>6 DEF Flagging!Toggle, Flagging!Flag
  <2>2. Flagging!Given(enabled, ~flags[f].enabled) \in BOOLEAN
    BY GivenType
  <2>3. [flags[f] EXCEPT !.enabled = Flagging!Given(enabled, ~flags[f].enabled)] \in Flagging!Flag
    BY <2>1, <2>2 DEF Flagging!Flag
  <2>4. flags' \in [Flags -> Flagging!Flag \cup {NoFlag}]
    BY <1>1, <1>6, <2>3 DEF Flagging!Toggle
  <2> QED BY <1>6, <2>4 DEF Flagging!Toggle, Flagging!TypeOK, Flagging!Announced, Flagging!Outcomes
<1>7. ASSUME NEW f \in Flags, Flagging!Delete(f) PROVE Flagging!TypeOK' /\ outcome' # "refused"
  BY <1>1, <1>7 DEF Flagging!Delete, Flagging!TypeOK, Flagging!Announced, Flagging!Outcomes
<1>8. CASE Flagging!Clear
  BY <1>8 DEF Flagging!Clear, Flagging!TypeOK, Flagging!Outcomes
<1>9. ASSUME flags' = flags
      PROVE  \A f \in Flags :
               /\ Flagging!Known(f) <=> flags'[f] # NoFlag
               /\ Flagging!Known(f) =>
                    flags'[f] = [flags[f] EXCEPT !.enabled = flags'[f].enabled]
  BY <1>3, <1>9 DEF Flagging!Known
<1> QED BY <1>4, <1>5, <1>6, <1>7, <1>8, <1>9 DEF Flagging!Next

\* Steps of other engines leave the flags alone.
LEMMA FlagsStep ==
  [Next]_vars => Flagging!Next \/ UNCHANGED <<flags, outcome>>
BY DEF Next, StoreStep, ContractStep, RuleStep, PolicyStep, FlagStep, vars, flagVars

\* The flags are well typed: a percentage is never above 100.
LEMMA FlagsInit == Init => Flagging!TypeOK
BY DEF Init, Flagging!Init, Flagging!TypeOK, Flagging!Outcomes

LEMMA FlagsInv == Flagging!TypeOK /\ [Next]_vars => Flagging!TypeOK'
<1> SUFFICES ASSUME Flagging!TypeOK, [Next]_vars PROVE Flagging!TypeOK'
  OBVIOUS
<1>1. CASE Flagging!Next
  BY <1>1, FlagsNext, RegistriesAssumption
<1>2. CASE UNCHANGED <<flags, outcome>>
  BY <1>2 DEF Flagging!TypeOK
<1> QED BY <1>1, <1>2, FlagsStep

\* A call that the manager refuses has turned the switch of its flag at most.
THEOREM RefusedUpdatesTurnSwitchAtMost == Spec => RefusalTurnsSwitchAtMost
<1> DEFINE Kept ==
      outcome' = "refused" =>
        \A f \in Flags :
          /\ Flagging!Known(f) <=> flags'[f] # NoFlag
          /\ Flagging!Known(f) => flags'[f] = [flags[f] EXCEPT !.enabled = flags'[f].enabled]
<1>1. Flagging!TypeOK /\ [Next]_vars => [Kept]_Flagging!vars
  BY FlagsStep, FlagsNext, RegistriesAssumption DEF Flagging!vars
<1> QED
  BY <1>1, FlagsInit, FlagsInv, PTL
     DEF Spec, RefusalTurnsSwitchAtMost, Flagging!RefusalTurnsSwitchAtMost

\* A rollout that grows, and lists that are widened, keep everybody in.
LEMMA GrowingKeeps ==
  ASSUME Flagging!FlagsAssumption, Flagging!TypeOK, Flagging!TypeOK', NEW f \in Flags,
         Flagging!Known(f), flags'[f] # NoFlag,
         flags[f].enabled => flags'[f].enabled,
         flags[f].rollout <= flags'[f].rollout,
         flags[f].roles \subseteq flags'[f].roles,
         flags[f].users \subseteq flags'[f].users
  PROVE  Flagging!ActiveFor(f) \subseteq Flagging!ActiveFor(f)'
<1>1. flags[f] \in Flagging!Flag /\ flags'[f] \in Flagging!Flag
  BY DEF Flagging!TypeOK, Flagging!Known
<1>2. flags[f].rollout \in 0..100 /\ flags'[f].rollout \in 0..100
  BY <1>1 DEF Flagging!Flag
<1> SUFFICES ASSUME NEW c \in Flagging!Contexts, Flagging!Active(f, c)
             PROVE  Flagging!Active(f, c)'
  BY DEF Flagging!ActiveFor
<1>3. flags'[f].enabled
  BY DEF Flagging!Active
<1>4. CASE c.user \in flags[f].users \/ c.role \in flags[f].roles
  BY <1>3, <1>4 DEF Flagging!Active
<1>5. CASE flags[f].rollout >= 100
  <2>1. flags'[f].rollout >= 100
    BY <1>2, <1>5
  <2> QED BY <1>3, <2>1 DEF Flagging!Active
<1>6. CASE flags[f].rollout > 0
           /\ (c.user = NoUser \/ Flagging!BucketBelow(f, c.user, flags[f].rollout))
  <2>1. flags'[f].rollout > 0
    BY <1>2, <1>6
  <2>2. CASE c.user = NoUser
    BY <1>3, <2>1, <2>2 DEF Flagging!Active
  <2>3. CASE c.user # NoUser
    <3>1. c.user \in Users
      BY <2>3 DEF Flagging!Contexts
    <3>2. Bucket[<<f, c.user>>] \in 0..99
      BY <3>1 DEF Flagging!FlagsAssumption
    <3>3. Bucket[<<f, c.user>>] < flags[f].rollout
      BY <1>6, <2>3 DEF Flagging!BucketBelow
    <3>4. Bucket[<<f, c.user>>] < flags'[f].rollout
      <4> DEFINE b == Bucket[<<f, c.user>>]
                 low == flags[f].rollout
                 high == flags'[f].rollout
      <4>1. b \in 0..99 /\ low \in 0..100 /\ high \in 0..100 /\ low <= high /\ b < low
        BY <1>2, <3>2, <3>3
      <4> HIDE DEF b, low, high
      <4>2. b < high
        BY <4>1
      <4> QED BY <4>2 DEF b, high
    <3> QED BY <1>3, <2>1, <3>4 DEF Flagging!Active, Flagging!BucketBelow
  <2> QED BY <2>2, <2>3
<1> QED BY <1>4, <1>5, <1>6 DEF Flagging!Active

\* Nobody falls out of a rollout that grows, wherever the hash puts them.
THEOREM GrowingRolloutsKeepUsers == Spec => RolloutOnlyGrows
<1> DEFINE Grows ==
      \A f \in Flags :
        /\ Flagging!Known(f) /\ flags'[f] # NoFlag
        /\ flags[f].enabled => flags'[f].enabled
        /\ flags[f].rollout <= flags'[f].rollout
        /\ flags[f].roles \subseteq flags'[f].roles
        /\ flags[f].users \subseteq flags'[f].users
        => Flagging!ActiveFor(f) \subseteq Flagging!ActiveFor(f)'
<1>1. Flagging!TypeOK /\ [Next]_vars => [Grows]_Flagging!vars
  BY FlagsInv, GrowingKeeps, RegistriesAssumption
<1> QED
  BY <1>1, FlagsInit, FlagsInv, PTL
     DEF Spec, RolloutOnlyGrows, Flagging!RolloutOnlyGrows

-------------------------------------------------------------------------------
(* The rules of schemas                                                        *)

\* A value that is given, its type and size.
LEMMA GivenValue ==
  ASSUME Rules!RulesAssumption, NEW v \in Values, v # Rules!NoneValue
  PROVE  Rules!Given(v) /\ v.kind \in Rules!Kinds /\ v.size \in Int \cup {NaN}
BY DEF Rules!RulesAssumption, Rules!Given

\* A pattern that does not compile meets a string.
Trips(spec, v) ==
  spec.type = "string" /\ spec.pattern = Malformed /\ Rules!Given(v) /\ v.kind = "str"

\* Strings are equal when they are the same, integers when their sizes are those of
\* numbers.
LEMMA EqualValues ==
  ASSUME Rules!RulesAssumption, NEW allowed \in SUBSET Values,
         NEW v \in Values, v # Rules!NoneValue
  PROVE  /\ v.kind = "str" =>
              ((\A w \in allowed : ~Rules!Equal(v, w)) <=> v \notin allowed)
         /\ v.kind = "int" =>
              ((\A w \in allowed : ~Rules!Equal(v, w)) <=>
                 v.size \notin {w.size : w \in {x \in allowed : x.kind \in Rules!Numeric}})
<1>1. v \in [kind : Rules!Kinds, size : Int \cup {NaN}]
  BY DEF Rules!RulesAssumption
<1>2. ASSUME v.kind = "str", NEW w \in allowed, Rules!Equal(v, w) PROVE w = v
  <2>1. w.size = v.size /\ w.kind = v.kind
    BY <1>2 DEF Rules!Equal, Rules!Numeric
  <2>2. w # Rules!NoneValue
    BY <1>2, <2>1 DEF Rules!NoneValue
  <2>3. w \in [kind : Rules!Kinds, size : Int \cup {NaN}]
    BY <2>2 DEF Rules!RulesAssumption
  <2> QED BY <1>1, <2>1, <2>3
<1>3. Rules!Equal(v, v)
  BY DEF Rules!Equal
<1>4. v.kind = "int" =>
        \A w : Rules!Equal(v, w) <=> w.size = v.size /\ w.kind \in Rules!Numeric
  BY DEF Rules!Equal, Rules!Numeric
<1> QED BY <1>2, <1>3, <1>4

\* A declared field is found without error exactly if its value is permitted.
LEMMA FieldVerdict ==
  ASSUME Rules!RulesAssumption, NEW spec \in Fields, NEW v \in Values \cup {Absent},
         ~Trips(spec, v)
  PROVE  Rules!FieldErrors(spec, v) = {} <=> v \in Rules!Permitted(spec)
<1>1. spec \in Rules!Field
  BY DEF Rules!RulesAssumption
<1>2. CASE v = Absent \/ v = Rules!NoneValue
  <2>1. ~Rules!Given(v) /\ \A type : v \notin Rules!OfType(type)
    BY <1>2 DEF Rules!RulesAssumption, Rules!Given, Rules!OfType
  <2>2. Rules!FieldErrors(spec, v) = IF spec.required THEN {"missing"} ELSE {}
    BY <2>1 DEF Rules!FieldErrors
  <2>3. v \in Rules!Permitted(spec) <=> ~spec.required
    BY <1>2, <2>1 DEF Rules!Permitted
  <2> QED BY <1>1, <2>2, <2>3 DEF Rules!Field
<1>3. CASE v # Absent /\ v # Rules!NoneValue
  <2>1. /\ Rules!Given(v)
        /\ v \in Values \ {Rules!NoneValue}
        /\ v.kind \in Rules!Kinds
        /\ v.size \in Int \cup {NaN}
    BY <1>3, GivenValue
  <2>2. v.kind \in Rules!Accepted(spec.type) <=> v \in Rules!OfType(spec.type)
    BY <1>1, <2>1 DEF Rules!Accepted, Rules!OfType, Rules!Field, Rules!SupportedTypes, Rules!Kinds
  <2>3. CASE v.kind \notin Rules!Accepted(spec.type)
    <3>1. Rules!FieldErrors(spec, v) = {"type"}
      BY <2>1, <2>3 DEF Rules!FieldErrors
    <3>2. v \notin Rules!Permitted(spec)
      BY <1>3, <2>2, <2>3 DEF Rules!Permitted
    <3> QED BY <3>1, <3>2
  <2>4. CASE v.kind \in Rules!Accepted(spec.type)
    <3>1. Rules!FieldErrors(spec, v) = Rules!Broken(spec, v)
      BY <2>1, <2>4 DEF Rules!FieldErrors
    <3>2. Rules!Broken(spec, v) = {} <=>
            /\ ~Rules!Below(v, Rules!Lower(spec))
            /\ ~Rules!Exceeds(v, Rules!Upper(spec))
            /\ ~(spec.type = "string" /\ spec.pattern # None /\ v \notin spec.pattern)
            /\ ~(spec.type = "string" /\ spec.allowed # None /\ v \notin spec.allowed)
            /\ ~(spec.type = "integer" /\ spec.allowed # None
                   /\ v.size \notin {w.size : w \in {x \in spec.allowed : x.kind \in Rules!Numeric}})
      <4>1. {"minimum", "maximum", "pattern", "allowed"} \subseteq Rules!Rules
        BY DEF Rules!Rules
      <4>2. /\ spec.type = "string" => v.kind = "str"
            /\ spec.type = "integer" => v.kind = "int"
        BY <2>4 DEF Rules!Accepted
      <4>3. spec.allowed # None => spec.allowed \in SUBSET Values
        BY <1>1 DEF Rules!Field
      <4>4. /\ (spec.type = "string" /\ spec.allowed # None) =>
                 ((\A w \in spec.allowed : ~Rules!Equal(v, w)) <=> v \notin spec.allowed)
            /\ (spec.type = "integer" /\ spec.allowed # None) =>
                 ((\A w \in spec.allowed : ~Rules!Equal(v, w)) <=>
                    v.size \notin {w.size : w \in {x \in spec.allowed : x.kind \in Rules!Numeric}})
        BY <2>1, <4>2, <4>3, EqualValues
      <4>5. Rules!Broken(spec, v) = {} <=>
              /\ ~Rules!Below(v, Rules!Lower(spec))
              /\ ~Rules!Exceeds(v, Rules!Upper(spec))
              /\ ~(spec.type = "string" /\ spec.pattern # None /\ v \notin spec.pattern)
              /\ ~(spec.type \in {"string", "integer"} /\ spec.allowed # None
                     /\ \A w \in spec.allowed : ~Rules!Equal(v, w))
        BY <4>1 DEF Rules!Broken
      <4> QED BY <4>4, <4>5
    <3>3. v \in Rules!Permitted(spec) <=>
            /\ spec.type \in {"string", "array"}
                 => v \in Rules!Within(spec.minLength, spec.maxLength)
            /\ spec.type \in {"integer", "number"}
                 => v \in Rules!Within(spec.minValue, spec.maxValue)
            /\ (spec.type = "string" /\ spec.pattern # None) => v \in spec.pattern
            /\ (spec.type = "string" /\ spec.allowed # None) => v \in spec.allowed
            /\ (spec.type = "integer" /\ spec.allowed # None)
                 => v.size \in {w.size : w \in {x \in spec.allowed : x.kind \in Rules!Numeric}}
      <4>1. ~(spec.type = "string" /\ spec.pattern = Malformed)
        BY <2>1, <2>4 DEF Trips, Rules!Accepted
      <4> QED BY <1>3, <2>2, <2>4, <4>1 DEF Rules!Permitted
    <3>4. ASSUME NEW low \in Int \cup {None}, NEW high \in Int \cup {None}
          PROVE  v \in Rules!Within(low, high)
                   <=> ~Rules!Below(v, low) /\ ~Rules!Exceeds(v, high)
      BY <2>1 DEF Rules!Within, Rules!Below, Rules!Exceeds, Rules!RulesAssumption
    <3>5. /\ spec.minLength \in Int \cup {None} /\ spec.maxLength \in Int \cup {None}
          /\ spec.minValue \in Int \cup {None} /\ spec.maxValue \in Int \cup {None}
      BY <1>1 DEF Rules!Field
    <3>6. CASE spec.type \in {"string", "array"}
      <4>1. /\ Rules!Lower(spec) = spec.minLength /\ Rules!Upper(spec) = spec.maxLength
            /\ spec.type \notin {"integer", "number"}
        BY <3>6 DEF Rules!Lower, Rules!Upper
      <4> QED BY <3>1, <3>2, <3>3, <3>4, <3>5, <3>6, <4>1
    <3>7. CASE spec.type \in {"integer", "number"}
      <4>1. /\ Rules!Lower(spec) = spec.minValue /\ Rules!Upper(spec) = spec.maxValue
            /\ spec.type \notin {"string", "array"}
        BY <3>7 DEF Rules!Lower, Rules!Upper
      <4> QED BY <3>1, <3>2, <3>3, <3>4, <3>5, <3>7, <4>1
    <3>8. CASE spec.type \notin {"string", "array", "integer", "number"}
      <4>1. Rules!Lower(spec) = None /\ Rules!Upper(spec) = None
        BY <3>8 DEF Rules!Lower, Rules!Upper
      <4>2. ~Rules!Below(v, None) /\ ~Rules!Exceeds(v, None)
        BY DEF Rules!Below, Rules!Exceeds
      <4> QED BY <3>1, <3>2, <3>3, <3>8, <4>1, <4>2
    <3> QED BY <3>6, <3>7, <3>8
  <2> QED BY <2>3, <2>4
<1> QED BY <1>2, <1>3

\* What validate finds are pairs of a field name and a rule, in the fields that the
\* schema declares and among those it does not.
LEMMA ErrorsAreFaults ==
  ASSUME NEW F, NEW isStrict \in BOOLEAN, NEW load, NEW e \in Rules!Errors(F, isStrict, load)
  PROVE  \E f \in FieldNames, rule \in Rules!Rules :
           /\ e = <<f, rule>>
           /\ \/ F[f] # Absent /\ rule \in Rules!FieldErrors(F[f], load[f])
              \/ isStrict /\ rule = "extraneous" /\ f \in Rules!Extraneous(F, load)
<1>1. CASE \E f \in FieldNames : F[f] # Absent /\ e \in {f} \X Rules!FieldErrors(F[f], load[f])
  <2>1. PICK f \in FieldNames : F[f] # Absent /\ e \in {f} \X Rules!FieldErrors(F[f], load[f])
    BY <1>1
  <2>2. PICK rule \in Rules!FieldErrors(F[f], load[f]) : e = <<f, rule>>
    BY <2>1
  <2>3. rule \in Rules!Rules
    BY <2>2 DEF Rules!FieldErrors, Rules!Broken, Rules!Rules
  <2> QED BY <2>1, <2>2, <2>3
<1>2. CASE isStrict /\ e \in Rules!Extraneous(F, load) \X {"extraneous"}
  <2>1. PICK f \in Rules!Extraneous(F, load) : e = <<f, "extraneous">>
    BY <1>2
  <2>2. f \in FieldNames /\ "extraneous" \in Rules!Rules
    BY DEF Rules!Extraneous, Rules!Rules
  <2> QED BY <1>2, <2>1, <2>2
<1> QED BY <1>1, <1>2 DEF Rules!Errors

LEMMA ErrorsArePairs ==
  ASSUME NEW F, NEW isStrict \in BOOLEAN, NEW load
  PROVE  Rules!Errors(F, isStrict, load) \subseteq FieldNames \X Rules!Rules
<1> SUFFICES ASSUME NEW e \in Rules!Errors(F, isStrict, load)
             PROVE  e \in FieldNames \X Rules!Rules
  OBVIOUS
<1>1. \E f \in FieldNames, rule \in Rules!Rules : e = <<f, rule>>
  BY ErrorsAreFaults
<1> QED BY <1>1

\* A payload is found without error exactly if the schema permits it.
LEMMA PayloadVerdict ==
  ASSUME Rules!RulesAssumption, NEW F \in Rules!Schemas, NEW isStrict \in BOOLEAN,
         NEW load \in Rules!Payloads, ~Rules!Raises(F, load)
  PROVE  Rules!Errors(F, isStrict, load) = {} <=>
           \A f \in FieldNames :
             IF F[f] = Absent
             THEN isStrict => load[f] = Absent
             ELSE load[f] \in Rules!Permitted(F[f])
<1> DEFINE Fault(f, rule) ==
      \/ F[f] # Absent /\ rule \in Rules!FieldErrors(F[f], load[f])
      \/ isStrict /\ rule = "extraneous" /\ f \in Rules!Extraneous(F, load)
<1>1. Rules!Errors(F, isStrict, load) = {} <=>
        \A f \in FieldNames, rule \in Rules!Rules : ~Fault(f, rule)
  <2>1. ASSUME NEW f \in FieldNames, NEW rule \in Rules!Rules, Fault(f, rule)
        PROVE  <<f, rule>> \in Rules!Errors(F, isStrict, load)
    BY <2>1 DEF Rules!Errors, Rules!Extraneous
  <2>2. ASSUME NEW e \in Rules!Errors(F, isStrict, load)
        PROVE  \E f \in FieldNames, rule \in Rules!Rules : Fault(f, rule)
    BY <2>2, ErrorsAreFaults
  <2> HIDE DEF Fault
  <2> QED BY <2>1, <2>2
<1>2. ASSUME NEW f \in FieldNames
      PROVE  (\A rule \in Rules!Rules : ~Fault(f, rule)) <=>
               IF F[f] = Absent
               THEN isStrict => load[f] = Absent
               ELSE load[f] \in Rules!Permitted(F[f])
  <2>1. CASE F[f] = Absent
    <3>1. \A rule : Fault(f, rule) <=>
            isStrict /\ rule = "extraneous" /\ load[f] # Absent
      BY <2>1 DEF Rules!Extraneous
    <3>2. "extraneous" \in Rules!Rules
      BY DEF Rules!Rules
    <3> HIDE DEF Fault
    <3> QED BY <2>1, <3>1, <3>2
  <2>2. CASE F[f] # Absent
    <3>1. F[f] \in Fields /\ load[f] \in Values \cup {Absent}
      BY <2>2 DEF Rules!Schemas, Rules!Payloads
    <3>2. Rules!FieldErrors(F[f], load[f]) \subseteq Rules!Rules
      BY DEF Rules!FieldErrors, Rules!Broken, Rules!Rules
    <3>3. \A rule : Fault(f, rule) <=> rule \in Rules!FieldErrors(F[f], load[f])
      BY <2>2 DEF Rules!Extraneous
    <3>4. Rules!FieldErrors(F[f], load[f]) = {} <=> load[f] \in Rules!Permitted(F[f])
      <4>1. ~Trips(F[f], load[f])
        BY <2>2 DEF Trips, Rules!Raises
      <4> QED BY <3>1, <4>1, FieldVerdict
    <3> HIDE DEF Fault
    <3> QED BY <2>2, <3>2, <3>3, <3>4
  <2> QED BY <2>1, <2>2
<1> HIDE DEF Fault
<1> QED BY <1>1, <1>2

\* Who asks for less permits more.
LEMMA LessPermitsMore ==
  ASSUME Rules!RulesAssumption, NEW s \in Fields, NEW t \in Fields, Rules!AsksForLess(t, s)
  PROVE  Rules!Permitted(s) \subseteq Rules!Permitted(t)
<1>1. s \in Rules!Field /\ t \in Rules!Field
  BY DEF Rules!RulesAssumption
<1>2. /\ t.type = s.type \/ (t.type = "number" /\ s.type = "integer")
      /\ t.required => s.required
      /\ t.minLength = None \/ (s.minLength # None /\ t.minLength <= s.minLength)
      /\ t.minValue = None \/ (s.minValue # None /\ t.minValue <= s.minValue)
      /\ t.maxLength = None \/ (s.maxLength # None /\ t.maxLength >= s.maxLength)
      /\ t.maxValue = None \/ (s.maxValue # None /\ t.maxValue >= s.maxValue)
      /\ t.pattern = None
           \/ ({s.pattern, t.pattern} \cap {None, Malformed} = {} /\ s.pattern \subseteq t.pattern)
      /\ t.allowed = None
           \/ ({s.allowed, t.allowed} \cap {None, Malformed} = {} /\ s.allowed \subseteq t.allowed)
  BY DEF Rules!AsksForLess
<1>3. /\ s.minLength \in Int \cup {None} /\ t.minLength \in Int \cup {None}
      /\ s.maxLength \in Int \cup {None} /\ t.maxLength \in Int \cup {None}
      /\ s.minValue \in Int \cup {None} /\ t.minValue \in Int \cup {None}
      /\ s.maxValue \in Int \cup {None} /\ t.maxValue \in Int \cup {None}
  BY <1>1 DEF Rules!Field
<1> SUFFICES ASSUME NEW v \in Rules!Permitted(s) PROVE v \in Rules!Permitted(t)
  OBVIOUS
<1>5. CASE v \notin Rules!OfType(s.type)
  BY <1>2, <1>5 DEF Rules!Permitted
<1>6. CASE v \in Rules!OfType(s.type)
  <2>1. v \in Values /\ v # Rules!NoneValue /\ v.size \in Int \cup {NaN}
    <3>1. v \in Values /\ v # Rules!NoneValue
      BY <1>6 DEF Rules!OfType
    <3> QED BY <3>1, GivenValue
  <2>2. /\ v \in Rules!Within(s.minLength, s.maxLength)
             => v \in Rules!Within(t.minLength, t.maxLength)
        /\ v \in Rules!Within(s.minValue, s.maxValue)
             => v \in Rules!Within(t.minValue, t.maxValue)
    <3> DEFINE size == v.size
               Fits(low, high) ==
                 size = NaN \/ ((low = None \/ low <= size) /\ (high = None \/ size <= high))
    <3>1. /\ Fits(s.minLength, s.maxLength) => Fits(t.minLength, t.maxLength)
          /\ Fits(s.minValue, s.maxValue) => Fits(t.minValue, t.maxValue)
      BY <1>2, <1>3, <2>1 DEF Rules!RulesAssumption
    <3>2. \A low, high : v \in Rules!Within(low, high) <=> Fits(low, high)
      BY <2>1 DEF Rules!Within
    <3> HIDE DEF Fits
    <3> QED BY <3>1, <3>2
  <2>3. v # Rules!NoneValue /\ v # Absent
    BY <1>6 DEF Rules!OfType, Rules!RulesAssumption
  <2>4. /\ s.type \in {"string", "array"} => v \in Rules!Within(s.minLength, s.maxLength)
        /\ s.type \in {"integer", "number"} => v \in Rules!Within(s.minValue, s.maxValue)
        /\ (s.type = "string" /\ s.pattern \notin {None, Malformed}) => v \in s.pattern
        /\ (s.type = "string" /\ s.allowed # None) => v \in s.allowed
        /\ (s.type = "integer" /\ s.allowed # None)
             => v.size \in {w.size : w \in {x \in s.allowed : x.kind \in Rules!Numeric}}
    BY <2>3 DEF Rules!Permitted
  <2>5. v \in Rules!OfType(t.type)
    BY <1>2, <1>6 DEF Rules!OfType
  <2>6. /\ t.type \in {"string", "array"} => v \in Rules!Within(t.minLength, t.maxLength)
        /\ t.type \in {"integer", "number"} => v \in Rules!Within(t.minValue, t.maxValue)
        /\ (t.type = "string" /\ t.pattern \notin {None, Malformed}) => v \in t.pattern
        /\ (t.type = "string" /\ t.allowed # None) => v \in t.allowed
        /\ (t.type = "integer" /\ t.allowed # None)
             => v.size \in {w.size : w \in {x \in t.allowed : x.kind \in Rules!Numeric}}
    BY <1>2, <2>2, <2>4
  <2> QED BY <2>5, <2>6 DEF Rules!Permitted
<1> QED BY <1>5, <1>6

\* What was found is what validate finds in the payload validated last.
FoundInv ==
  /\ Rules!TypeOK
  /\ errors # None =>
       errors = Rules!Errors(fields, strict, payload) /\ ~Rules!Raises(fields, payload)

LEMMA FoundAlways == Spec => []FoundInv
<1>1. Rules!RulesAssumption
  BY RegistriesAssumption
<1>2. Init => FoundInv
  <2> SUFFICES ASSUME Init PROVE FoundInv
    OBVIOUS
  <2>1. payload = [f \in FieldNames |-> Absent] /\ errors = None /\ strict \in BOOLEAN
    BY <1>1 DEF Init, UncalledRules, Rules!Init, Rules!IsStrict, Rules!RulesAssumption
  <2>2. fields \in Rules!Schemas
    BY DEF Init, UncalledRules, Rules!Init, Rules!Schemas
  <2>3. payload \in Rules!Payloads
    BY <2>1 DEF Rules!Payloads
  <2>4. errors \in (SUBSET (FieldNames \X Rules!Rules)) \cup {None}
    BY <2>1
  <2>5. Rules!TypeOK
    BY <2>1, <2>2, <2>3, <2>4 DEF Rules!TypeOK
  <2> QED BY <2>1, <2>5 DEF FoundInv
<1>3. FoundInv /\ [Next]_vars => FoundInv'
  <2> SUFFICES ASSUME FoundInv, [Next]_vars PROVE FoundInv'
    OBVIOUS
  <2>1. ASSUME NEW load \in Rules!Payloads, Rules!Validate(load) PROVE FoundInv'
    <3>0. strict \in BOOLEAN
      BY DEF FoundInv, Rules!TypeOK
    <3>1. Rules!Errors(fields, strict, load) \subseteq FieldNames \X Rules!Rules
      BY <3>0, ErrorsArePairs
    <3>2. /\ payload' = load /\ fields' = fields /\ strict' = strict
          /\ IF Rules!Raises(fields, load) THEN errors' = None
             ELSE errors' = Rules!Errors(fields, strict, load)
      BY <2>1 DEF Rules!Validate, Rules!Verdict
    <3>3. Rules!TypeOK'
      BY <3>1, <3>2 DEF FoundInv, Rules!TypeOK
    <3>4. errors' # None =>
            errors' = Rules!Errors(fields', strict', payload') /\ ~Rules!Raises(fields', payload')
      BY <3>2
    <3> QED BY <3>3, <3>4 DEF FoundInv
  <2>2. CASE UNCHANGED ruleVars
    BY <2>2 DEF FoundInv, Rules!TypeOK, ruleVars
  <2> QED
    BY <2>1, <2>2
       DEF Next, StoreStep, ContractStep, RuleStep, PolicyStep, FlagStep, vars, Rules!Next
<1> QED BY <1>2, <1>3, PTL DEF Spec

\* validate agrees with what the declarations permit.
THEOREM VerdictsAgree == Spec => []VerdictIsReference
<1>1. FoundInv => VerdictIsReference
  <2> SUFFICES ASSUME FoundInv, errors # None
               PROVE  errors = {} <=>
                        \A f \in FieldNames :
                          IF fields[f] = Absent
                          THEN strict => payload[f] = Absent
                          ELSE payload[f] \in Rules!Permitted(fields[f])
    BY DEF VerdictIsReference, Rules!VerdictIsReference
  <2> QED BY PayloadVerdict, RegistriesAssumption DEF FoundInv, Rules!TypeOK
<1> QED BY <1>1, FoundAlways, PTL

\* Asking for less of a field loses no payload that was accepted.
THEOREM RelaxingKeepsPayloads == Spec => []RelaxedAccepts
<1>1. FoundInv => RelaxedAccepts
  <2> SUFFICES ASSUME FoundInv, NEW f \in FieldNames, NEW t \in Fields,
                      errors = {}, fields[f] # Absent, Rules!AsksForLess(t, fields[f])
               PROVE  Rules!Verdict([fields EXCEPT ![f] = t], strict, payload) = {}
    BY DEF RelaxedAccepts, Rules!RelaxedAccepts
  <2> DEFINE relaxed == [fields EXCEPT ![f] = t]
  <2>1. /\ fields \in Rules!Schemas /\ strict \in BOOLEAN /\ payload \in Rules!Payloads
        /\ Rules!Errors(fields, strict, payload) = {}
        /\ ~Rules!Raises(fields, payload)
        /\ Rules!RulesAssumption
    BY RegistriesAssumption DEF FoundInv, Rules!TypeOK, Rules!RulesAssumption
  <2>2. \A g \in FieldNames :
          IF fields[g] = Absent
          THEN strict => payload[g] = Absent
          ELSE payload[g] \in Rules!Permitted(fields[g])
    BY <2>1, PayloadVerdict
  <2>3. fields[f] \in Fields /\ t # Absent
    BY <2>1 DEF Rules!Schemas, Rules!RulesAssumption
  <2>4. payload[f] \in Rules!Permitted(t)
    BY <2>1, <2>2, <2>3, LessPermitsMore
  <2>5. relaxed \in Rules!Schemas /\ \A g \in FieldNames : relaxed[g] = IF g = f THEN t ELSE fields[g]
    BY <2>1 DEF Rules!Schemas
  <2> HIDE DEF relaxed
  <2>6. \A g \in FieldNames :
          IF relaxed[g] = Absent
          THEN strict => payload[g] = Absent
          ELSE payload[g] \in Rules!Permitted(relaxed[g])
    BY <2>2, <2>3, <2>4, <2>5
  <2>7. ~Rules!Raises(relaxed, payload)
    <3> SUFFICES ASSUME NEW g \in FieldNames, relaxed[g] # Absent, relaxed[g].type = "string",
                        relaxed[g].pattern = Malformed, Rules!Given(payload[g]),
                        payload[g].kind = "str"
                 PROVE  FALSE
      BY DEF Rules!Raises
    <3>1. g = f
      BY <2>1, <2>5 DEF Rules!Raises
    <3>2. t.pattern # Malformed
      BY <2>1 DEF Rules!AsksForLess, Rules!RulesAssumption
    <3> QED BY <2>5, <3>1, <3>2
  <2>8. Rules!Errors(relaxed, strict, payload) = {}
    BY <2>1, <2>5, <2>6, <2>7, PayloadVerdict
  <2> QED BY <2>7, <2>8 DEF relaxed, Rules!Verdict
<1> QED BY <1>1, FoundAlways, PTL
-------------------------------------------------------------------------------
(* The policy engine                                                           *)

\* A rule keeps what its maker asked for, with everything in place of nothing.
KeepsAsked(rule) ==
  /\ rule.roles = Policy!OrAll(rule.asked.roles)
  /\ rule.actions = Policy!OrAll(rule.asked.actions)
  /\ rule.resources = Policy!OrAll(rule.asked.resources)

Rule == [effect : Policy!Effects, asked : Policy!Asked, conditions : Policy!Conditions,
         roles : SUBSET (Roles \cup {Star}), actions : SUBSET (Actions \cup {Star}),
         resources : SUBSET (Resources \cup {Star})]

PolicyInv ==
  /\ policies \in Seq(Rule) /\ default \in Policy!Effects
  /\ \A i \in 1..Len(policies) : KeepsAsked(policies[i])

LEMMA PolicyInit == Init => PolicyInv
<1> SUFFICES ASSUME Init PROVE PolicyInv
  OBVIOUS
<1>1. policies = <<>> /\ default \in {"ALLOW", "DENY"}
  BY DEF Init, UncalledPolicies, Policy!Init, Policy!Effects
<1> QED BY <1>1 DEF PolicyInv, Policy!Effects

\* A selection that is asked for is kept as one of names or of everything.
LEMMA SelectionKept ==
  ASSUME NEW names, NEW selection \in Policy!Selections(names)
  PROVE  Policy!OrAll(selection) \in SUBSET (names \cup {Star})
BY DEF Policy!Selections, Policy!OrAll

LEMMA CreateInv ==
  ASSUME PolicyInv, NEW effect \in Policy!Effects, NEW asked \in Policy!Asked,
         NEW conditions \in Policy!Conditions, Policy!Create(effect, asked, conditions)
  PROVE  PolicyInv'
<1> DEFINE rule == [effect |-> effect, asked |-> asked, conditions |-> conditions,
                    roles |-> Policy!OrAll(asked.roles), actions |-> Policy!OrAll(asked.actions),
                    resources |-> Policy!OrAll(asked.resources)]
<1>1. policies' = Append(policies, rule) /\ UNCHANGED default
  BY DEF Policy!Create
<1>2. rule \in Rule
  <2>1. /\ asked.roles \in Policy!Selections(Roles)
        /\ asked.actions \in Policy!Selections(Actions)
        /\ asked.resources \in Policy!Selections(Resources)
    BY DEF Policy!Asked
  <2> QED BY <2>1, SelectionKept DEF Rule
<1>3. KeepsAsked(rule)
  BY DEF KeepsAsked
<1> HIDE DEF rule
<1>4. /\ policies' \in Seq(Rule)
      /\ Len(policies) \in Nat
      /\ Len(policies') = Len(policies) + 1
      /\ policies'[Len(policies) + 1] = rule
      /\ \A i \in 1..Len(policies) : policies'[i] = policies[i]
  BY <1>1, <1>2, StackPush DEF PolicyInv
<1>5. ASSUME NEW i \in 1..Len(policies') PROVE KeepsAsked(policies'[i])
  <2>1. i \in 1..Len(policies) \/ i = Len(policies) + 1
    BY <1>4
  <2> QED BY <1>3, <1>4, <2>1 DEF PolicyInv
<1> QED BY <1>1, <1>4, <1>5 DEF PolicyInv

\* A deletion leaves the other rules as they are.
LEMMA DeleteRuleInv ==
  ASSUME PolicyInv, NEW k \in DOMAIN policies, Policy!Delete(k)
  PROVE  PolicyInv'
<1> DEFINE n == Len(policies)
           before == SubSeq(policies, 1, k - 1)
           after == SubSeq(policies, k + 1, n)
<1>1. policies \in Seq(Rule) /\ n \in Nat /\ k \in 1..n
  BY DEF PolicyInv
<1>2. policies' = before \o after /\ UNCHANGED default
  BY DEF Policy!Delete, Policy!RemoveAt
<1>3. \A i \in 1..n : policies[i] \in Rule /\ KeepsAsked(policies[i])
  BY <1>1 DEF PolicyInv
<1> DEFINE Good == {r \in Rule : KeepsAsked(r)}
<1>4. before \in Seq(Good)
  <2>1. \A i \in 1..k - 1 : policies[i] \in Good
    BY <1>1, <1>3
  <2> QED BY <1>1, <2>1, SubSeqProperties
<1>5. after \in Seq(Good)
  <2>1. \A i \in k + 1..n : policies[i] \in Good
    BY <1>1, <1>3
  <2> HIDE DEF Good
  <2> QED BY <1>1, <2>1, SubSeqProperties
<1>6. policies' \in Seq(Good)
  BY <1>2, <1>4, <1>5, ConcatProperties
<1>7. policies' \in Seq(Rule) /\ \A i \in 1..Len(policies') : KeepsAsked(policies'[i])
  <2>1. \A i \in 1..Len(policies') : policies'[i] \in Good
    BY <1>6
  <2>2. Good \subseteq Rule
    OBVIOUS
  <2> QED BY <1>6, <2>1, <2>2
<1> QED BY <1>2, <1>7 DEF PolicyInv

LEMMA PolicyNext == PolicyInv /\ [Next]_vars => PolicyInv'
<1> SUFFICES ASSUME PolicyInv, [Next]_vars PROVE PolicyInv'
  OBVIOUS
<1>1. ASSUME NEW effect \in Policy!Effects, NEW asked \in Askings,
             NEW conditions \in Policy!Conditions, Policy!Create(effect, asked, conditions)
      PROVE  PolicyInv'
  BY <1>1, CreateInv, RegistriesAssumption DEF Policy!PolicyAssumption
<1>2. ASSUME NEW k \in DOMAIN policies, Policy!Delete(k) PROVE PolicyInv'
  BY <1>2, DeleteRuleInv
<1>3. CASE Policy!Clear
  BY <1>3 DEF Policy!Clear, PolicyInv
<1>4. CASE UNCHANGED policyVars
  BY <1>4 DEF policyVars, PolicyInv
<1> QED BY <1>1, <1>2, <1>3, <1>4
        DEF Next, StoreStep, ContractStep, RuleStep, PolicyStep, FlagStep, vars, Policy!Next

\* What a selection selects is what its caller meant: nothing means all names.
LEMMA SelectsMeant ==
  ASSUME NEW names, Star \notin names, NEW selection \in Policy!Selections(names),
         NEW name \in names
  PROVE  Policy!Selects(Policy!OrAll(selection), name)
           <=> name \in IF selection = {} \/ Star \in selection THEN names ELSE selection
BY DEF Policy!Selections, Policy!OrAll, Policy!Selects

\* A rule matches exactly the requests that it is about.
LEMMA MatchesAbout ==
  ASSUME Policy!PolicyAssumption, NEW rule \in Rule, KeepsAsked(rule),
         NEW r \in Policy!Requests
  PROVE  Policy!Matches(rule, r) <=> r \in Policy!About(rule)
<1>1. /\ rule.asked.roles \in Policy!Selections(Roles)
      /\ rule.asked.actions \in Policy!Selections(Actions)
      /\ rule.asked.resources \in Policy!Selections(Resources)
  BY DEF Rule, Policy!Asked
<1>2. /\ r.role \in Roles /\ r.action \in Actions /\ r.resource \in Resources
      /\ r.context \in [Keys -> ContextValues \cup {NoValue}]
      /\ r = [role |-> r.role, action |-> r.action, resource |-> r.resource,
              context |-> r.context]
  BY DEF Policy!Requests
<1> DEFINE Meant(selection, names) ==
             IF selection = {} \/ Star \in selection THEN names ELSE selection
<1>3. /\ Policy!Selects(rule.roles, r.role) <=> r.role \in Meant(rule.asked.roles, Roles)
      /\ Policy!Selects(rule.actions, r.action) <=> r.action \in Meant(rule.asked.actions, Actions)
      /\ Policy!Selects(rule.resources, r.resource)
           <=> r.resource \in Meant(rule.asked.resources, Resources)
  BY <1>1, <1>2, SelectsMeant DEF KeepsAsked, Policy!PolicyAssumption
<1> HIDE DEF Meant
<1>4. r \in [role : Meant(rule.asked.roles, Roles), action : Meant(rule.asked.actions, Actions),
             resource : Meant(rule.asked.resources, Resources),
             context : [Keys -> ContextValues \cup {NoValue}]]
        <=> /\ r.role \in Meant(rule.asked.roles, Roles)
            /\ r.action \in Meant(rule.asked.actions, Actions)
            /\ r.resource \in Meant(rule.asked.resources, Resources)
  BY <1>2
<1> QED BY <1>3, <1>4 DEF Policy!Matches, Policy!About, Meant

\* No rule is about anything but requests.
LEMMA AboutRequests ==
  ASSUME NEW rule \in Rule
  PROVE  Policy!About(rule) \subseteq Policy!Requests
<1>1. /\ rule.asked.roles \in Policy!Selections(Roles)
      /\ rule.asked.actions \in Policy!Selections(Actions)
      /\ rule.asked.resources \in Policy!Selections(Resources)
  BY DEF Rule, Policy!Asked
<1> DEFINE Meant(selection, names) ==
             IF selection = {} \/ Star \in selection THEN names ELSE selection
<1>2. /\ Meant(rule.asked.roles, Roles) \subseteq Roles
      /\ Meant(rule.asked.actions, Actions) \subseteq Actions
      /\ Meant(rule.asked.resources, Resources) \subseteq Resources
  BY <1>1 DEF Policy!Selections
<1>3. Policy!About(rule) \subseteq
        [role : Meant(rule.asked.roles, Roles), action : Meant(rule.asked.actions, Actions),
         resource : Meant(rule.asked.resources, Resources),
         context : [Keys -> ContextValues \cup {NoValue}]]
  BY DEF Policy!About
<1> HIDE DEF Meant
<1> QED BY <1>2, <1>3 DEF Policy!Requests

\* The decision is that of the rules as a set.
LEMMA DecisionFollowsRules ==
  ASSUME PolicyInv, Policy!PolicyAssumption
  PROVE  DecisionIsReference
<1>1. \A i \in DOMAIN policies : policies[i] \in Rule /\ KeepsAsked(policies[i])
  BY DEF PolicyInv
<1>2. ASSUME NEW effect, NEW r \in Policy!Requests
      PROVE  Policy!Matched(effect, r) # {} <=> r \in Policy!AboutAny(effect)
  BY <1>1, MatchesAbout DEF Policy!Matched, Policy!AboutAny
<1>3. \A effect : Policy!AboutAny(effect) \subseteq Policy!Requests
  BY <1>1, AboutRequests DEF Policy!AboutAny
<1>4. default \in {"ALLOW", "DENY"}
  BY DEF PolicyInv, Policy!Effects
<1>5. ASSUME NEW r \in Policy!Requests
      PROVE  Policy!Decision(r) = "ALLOW"
               <=> /\ default = "ALLOW" \/ r \in Policy!AboutAny("ALLOW")
                   /\ r \notin Policy!AboutAny("DENY")
  BY <1>2, <1>4 DEF Policy!Decision
<1> QED BY <1>3, <1>5 DEF DecisionIsReference, Policy!DecisionIsReference

\* Requests are allowed by the rules as a set, whatever the order of their making and
\* the deletions between: what one rule denies, no other reopens.
THEOREM DecisionsIgnoreOrder == Spec => []DecisionIsReference
BY PolicyInit, PolicyNext, DecisionFollowsRules, RegistriesAssumption, PTL DEF Spec
-------------------------------------------------------------------------------
(* The item storage                                                            *)

\* Store takes its operators from its own instance.
LEMMA SameStore ==
  /\ \A X : Store!Cardinality(X) = Cardinality(X)
  /\ \A s, P : Store!Sublist(s, P) = Sublist(s, P)
BY DEF Store!Cardinality, Cardinality, Store!Sublist, Sublist

\* The numbers up to the length of the list that are no id in use.
Missing == {k \in 1..Len(items) : k \notin Store!IdsInUse}

\* Items are told from removed ones by their serial numbers.  A number gets missing
\* only when an item goes, since the next id is the next number.
StoreInv ==
  /\ items \in Seq(Store!Item) /\ born \in Nat
  /\ removed \in SUBSET Store!Item /\ IsFiniteSet(removed)
  /\ \A e \in Store!Elements(items) \cup removed : e.serial <= born
  /\ Store!Elements(items) \cap removed = {}
  /\ DOMAIN doing = {Server}
  /\ doing[Server].op = "add" => doing[Server].id = Len(items) + 1
  /\ doing[Server].op = "delete" => doing[Server].rest = Store!Without(doing[Server].id)
  /\ Cardinality(Missing) <= Cardinality(removed)

LEMMA MissingFinite ==
  ASSUME items \in Seq(Store!Item)
  PROVE  /\ IsFiniteSet(Missing) /\ Cardinality(Missing) \in Nat
         /\ IsFiniteSet(Store!IdsInUse) /\ Cardinality(Store!IdsInUse) \in Nat
<1>1. Len(items) \in Nat /\ \A i \in 1..Len(items) : items[i] \in Store!Item
  OBVIOUS
<1>2. IsFiniteSet(1..Len(items))
  BY <1>1, FS_Interval
<1>3. IsFiniteSet(Missing)
  BY <1>2, FS_Subset DEF Missing
<1>4. IsFiniteSet(Store!IdsInUse)
  <2> DEFINE f == [i \in 1..Len(items) |-> items[i].id]
  <2>1. f \in Surjection(1..Len(items), Store!IdsInUse)
    BY <1>1 DEF Store!IdsInUse, Store!Elements, Surjection
  <2> QED BY <1>2, <2>1, FS_Surjection
<1> QED BY <1>3, <1>4, FS_CardinalityType

\* Items beyond as many as there are ids are at most the missing numbers.
LEMMA SharedAreMissing ==
  ASSUME items \in Seq(Store!Item)
  PROVE  Len(items) - Cardinality(Store!IdsInUse) <= Cardinality(Missing)
<1> DEFINE n == Len(items)
           used == (1..n) \ Missing
<1>1. n \in Nat /\ IsFiniteSet(1..n) /\ Cardinality(1..n) = n
  <2>1. n \in Nat
    OBVIOUS
  <2> HIDE DEF n
  <2>2. IsFiniteSet(1..n) /\ Cardinality(1..n) = IF 1 > n THEN 0 ELSE n - 1 + 1
    BY <2>1, FS_Interval
  <2> QED BY <2>1, <2>2
<1>2. Missing \subseteq 1..n /\ used \subseteq Store!IdsInUse
  BY DEF Missing
<1>3. Cardinality(used) = n - Cardinality(Missing)
  <2>1. (1..n) \cap Missing = Missing
    BY <1>2
  <2>2. Cardinality(used) = Cardinality(1..n) - Cardinality((1..n) \cap Missing)
    BY <1>1, FS_Difference
  <2> QED BY <1>1, <2>1, <2>2
<1> HIDE DEF used
<1>4. /\ Cardinality(used) <= Cardinality(Store!IdsInUse)
      /\ Cardinality(Missing) \in Nat /\ Cardinality(Store!IdsInUse) \in Nat
  BY <1>2, MissingFinite, FS_Subset
<1> QED BY <1>1, <1>3, <1>4

LEMMA StoreInit == Store!Init => StoreInv
<1> SUFFICES ASSUME Store!Init PROVE StoreInv
  OBVIOUS
<1> DEFINE one == [id |-> 1, serial |-> 1]
           two == [id |-> 2, serial |-> 2]
<1>1. /\ items = <<one, two>> /\ born = 2 /\ removed = {}
      /\ doing = [t \in {Server} |-> [op |-> "idle"]]
  BY DEF Store!Init, Store!Idle
<1>2. one \in Store!Item /\ two \in Store!Item
  BY DEF Store!Item
<1>3. one.id = 1 /\ two.id = 2 /\ one.serial = 1 /\ two.serial = 2
  OBVIOUS
<1> HIDE DEF one, two
<1>4. items \in Seq(Store!Item) /\ Len(items) = 2 /\ items[1] = one /\ items[2] = two
  BY <1>1, <1>2
<1>5. Store!Elements(items) = {one, two}
  <2>1. 1..2 = {1, 2}
    OBVIOUS
  <2> QED BY <1>4, <2>1 DEF Store!Elements
<1>6. Missing = {}
  <2>1. Store!IdsInUse = {1, 2}
    BY <1>3, <1>5 DEF Store!IdsInUse
  <2> QED BY <1>4, <2>1 DEF Missing
<1>7. IsFiniteSet(removed) /\ Cardinality(Missing) <= Cardinality(removed)
  BY <1>1, <1>6, FS_EmptySet
<1>8. DOMAIN doing = {Server} /\ doing[Server].op = "idle"
  BY <1>1
<1> QED BY <1>1, <1>3, <1>4, <1>5, <1>7, <1>8 DEF StoreInv

\* An item is appended under the number after the last: none gets missing.
LEMMA AppendsInv ==
  ASSUME StoreInv, Store!AddAppends(Server)
  PROVE  StoreInv'
<1> DEFINE n == Len(items)
           item == [id |-> n + 1, serial |-> born + 1]
<1>1. /\ items \in Seq(Store!Item) /\ born \in Nat /\ n \in Nat
      /\ doing[Server].op = "add" /\ doing[Server].id = n + 1 /\ DOMAIN doing = {Server}
  BY DEF StoreInv, Store!AddAppends
<1>2. /\ born' = born + 1
      /\ items' = Append(items, item)
      /\ doing' = [doing EXCEPT ![Server] = [op |-> "idle"]]
      /\ removed' = removed
  BY <1>1 DEF Store!AddAppends, Store!Idle
<1>3. item \in Store!Item /\ item.id = n + 1 /\ item.serial = born + 1
  BY <1>1 DEF Store!Item
<1> HIDE DEF item
<1>4. /\ items' \in Seq(Store!Item)
      /\ Len(items') = n + 1
      /\ items'[n + 1] = item
      /\ \A i \in 1..n : items'[i] = items[i]
  BY <1>1, <1>2, <1>3, StackPush
<1>5. Store!Elements(items)' = Store!Elements(items) \cup {item}
  BY <1>1, <1>2, <1>3, AppendRange DEF Store!Elements
<1>6. Store!IdsInUse' = Store!IdsInUse \cup {n + 1}
  BY <1>3, <1>5 DEF Store!IdsInUse
<1>7. Missing' = Missing
  <2>1. 1..n + 1 = (1..n) \cup {n + 1}
    BY <1>1
  <2>2. n + 1 \notin 1..n
    BY <1>1
  <2> QED BY <1>4, <1>6, <2>1, <2>2 DEF Missing
<1>8. \A e \in Store!Elements(items)' \cup removed' : e.serial <= born'
  <2>1. \A e \in Store!Elements(items) \cup removed : e \in Store!Item /\ e.serial <= born
    BY <1>1 DEF StoreInv, Store!Elements
  <2>2. ASSUME NEW e \in Store!Elements(items) \cup removed PROVE e.serial <= born + 1
    BY <1>1, <2>1 DEF Store!Item
  <2> QED BY <1>1, <1>2, <1>3, <1>5, <2>2
<1>9. Store!Elements(items)' \cap removed' = {}
  <2>1. item \notin removed
    BY <1>1, <1>3 DEF StoreInv
  <2> QED BY <1>2, <1>5, <2>1 DEF StoreInv
<1>10. DOMAIN doing' = {Server} /\ doing'[Server].op = "idle"
  BY <1>1, <1>2
<1> QED BY <1>1, <1>2, <1>4, <1>7, <1>8, <1>9, <1>10 DEF StoreInv

\* The number that gets missing is paid for by an item removed.
LEMMA AssignsInv ==
  ASSUME StoreInv, Store!DeleteAssigns(Server)
  PROVE  StoreInv'
<1> DEFINE id == doing[Server].id
           P == {i \in 1..Len(items) : items[i].id # id}
           gone == {e \in Store!Elements(items) : e.id = id}
<1>1. /\ items \in Seq(Store!Item) /\ born \in Nat /\ DOMAIN doing = {Server}
      /\ removed \in SUBSET Store!Item /\ IsFiniteSet(removed)
      /\ Store!Elements(items) \cap removed = {}
  BY DEF StoreInv
<1>2. /\ items' = Sublist(items, P)
      /\ removed' = removed \cup gone
      /\ doing' = [doing EXCEPT ![Server] = [op |-> "idle"]]
      /\ born' = born
  BY SameStore DEF StoreInv, Store!DeleteAssigns, Store!Without, Store!Idle
<1>3. /\ items' \in Seq(Store!Item)
      /\ Len(items') \in Nat /\ Len(items) \in Nat /\ Len(items') <= Len(items)
      /\ \A j \in 1..Len(items') : \E i \in 1..Len(items) : i \in P /\ items'[j] = items[i]
      /\ \A i \in 1..Len(items) : i \in P => \E j \in 1..Len(items') : items'[j] = items[i]
  <2>1. Len(items) \in Nat
    BY <1>1
  <2>2. /\ items' \in Seq(Store!Item) /\ Len(items') <= Len(items)
        /\ \A j \in 1..Len(items') : \E i \in 1..Len(items) : i \in P /\ items'[j] = items[i]
        /\ \A i \in 1..Len(items) : i \in P => \E j \in 1..Len(items') : items'[j] = items[i]
    <3> DEFINE t == Sublist(items, P)
    <3>1. items \in Seq(Store!Item)
      BY <1>1
    <3> HIDE DEF P
    <3>2. /\ t \in Seq(Store!Item) /\ Len(t) <= Len(items)
          /\ \A j \in 1..Len(t) : \E i \in 1..Len(items) : i \in P /\ t[j] = items[i]
          /\ \A i \in 1..Len(items) : i \in P => \E j \in 1..Len(t) : t[j] = items[i]
      BY <3>1, SublistProperties
    <3>3. items' = t
      BY <1>2
    <3> HIDE DEF t
    <3> QED BY <3>2, <3>3
  <2>3. Len(items') \in Nat
    BY <2>2
  <2> QED BY <2>1, <2>2, <2>3
<1>4. Store!Elements(items)' = Store!Elements(items) \ gone
  <2>1. ASSUME NEW e \in Store!Elements(items)' PROVE e \in Store!Elements(items) \ gone
    <3>1. PICK j \in 1..Len(items') : e = items'[j]
      BY DEF Store!Elements
    <3>2. PICK i \in 1..Len(items) : i \in P /\ items'[j] = items[i]
      BY <1>3
    <3> QED BY <3>1, <3>2 DEF Store!Elements
  <2>2. ASSUME NEW e \in Store!Elements(items) \ gone PROVE e \in Store!Elements(items)'
    <3>1. PICK i \in 1..Len(items) : e = items[i]
      BY DEF Store!Elements
    <3>2. i \in P
      BY <3>1
    <3>3. PICK j \in 1..Len(items') : items'[j] = items[i]
      BY <1>3, <3>2
    <3> QED BY <3>1, <3>3 DEF Store!Elements
  <2> QED BY <2>1, <2>2
<1>5. /\ Store!Elements(items)' \cap removed' = {}
      /\ \A e \in Store!Elements(items)' \cup removed' : e.serial <= born'
      /\ removed' \in SUBSET Store!Item
  <2>1. gone \subseteq Store!Elements(items) /\ Store!Elements(items) \subseteq Store!Item
    BY <1>1 DEF Store!Elements
  <2>2. \A e \in Store!Elements(items) \cup removed : e.serial <= born
    BY DEF StoreInv
  <2> HIDE DEF gone
  <2>3. Store!Elements(items)' \cap removed' = {}
    BY <1>1, <1>2, <1>4
  <2>4. \A e \in Store!Elements(items)' \cup removed' : e.serial <= born'
    BY <1>2, <1>4, <2>1, <2>2
  <2>5. removed' \in SUBSET Store!Item
    BY <1>1, <1>2, <2>1
  <2> QED BY <2>3, <2>4, <2>5
<1>6. IsFiniteSet(removed') /\ Cardinality(removed) \in Nat /\ Cardinality(removed') \in Nat
      /\ Cardinality(removed) <= Cardinality(removed')
  <2>1. IsFiniteSet(Store!Elements(items))
    <3>1. IsFiniteSet(1..Len(items))
      <4>1. Len(items) \in Int /\ 1 \in Int
        BY <1>3
      <4> QED BY <4>1, FS_Interval
    <3> DEFINE f == [i \in 1..Len(items) |-> items[i]]
    <3>2. f \in Surjection(1..Len(items), Store!Elements(items))
      BY DEF Store!Elements, Surjection
    <3> QED BY <3>1, <3>2, FS_Surjection
  <2>2. IsFiniteSet(gone)
    BY <2>1, FS_Subset
  <2>3. IsFiniteSet(removed')
    BY <1>1, <1>2, <2>2, FS_Union
  <2> HIDE DEF gone
  <2> QED BY <1>1, <1>2, <2>3, FS_Subset, FS_CardinalityType
<1>7. Cardinality(Missing') <= Cardinality(removed')
  <2>1. /\ IsFiniteSet(Missing) /\ Cardinality(Missing) \in Nat
        /\ Cardinality(Missing) <= Cardinality(removed)
    BY <1>1, MissingFinite DEF StoreInv
  <2>2. CASE gone = {}
    <3>1. Store!IdsInUse' = Store!IdsInUse
      BY <1>4, <2>2 DEF Store!IdsInUse
    <3>2. Missing' \subseteq Missing
      BY <1>3, <3>1 DEF Missing
    <3>3. Cardinality(Missing') <= Cardinality(Missing) /\ Cardinality(Missing') \in Nat
      BY <2>1, <3>2, FS_Subset, FS_CardinalityType
    <3> QED BY <1>6, <2>1, <3>3
  <2>3. CASE gone # {}
    <3>1. Missing' \subseteq Missing \cup {id}
      <4>1. \A e \in Store!Elements(items) : e.id # id => e.id \in Store!IdsInUse'
        BY <1>4 DEF Store!IdsInUse
      <4>2. Store!IdsInUse \subseteq Store!IdsInUse' \cup {id}
        BY <4>1 DEF Store!IdsInUse
      <4>3. 1..Len(items') \subseteq 1..Len(items)
        BY <1>3
      <4> HIDE DEF id
      <4> QED BY <4>2, <4>3 DEF Missing
    <3>2. PICK e \in gone : e \notin removed
      BY <1>1, <2>3
    <3> HIDE DEF id, gone
    <3>3. /\ IsFiniteSet(Missing \cup {id})
          /\ Cardinality(Missing \cup {id}) <= Cardinality(Missing) + 1
          /\ Cardinality(Missing \cup {id}) \in Nat
      <4>1. CASE id \in Missing
        <5>1. Missing \cup {id} = Missing
          BY <4>1
        <5>2. Cardinality(Missing) <= Cardinality(Missing) + 1
          BY <2>1
        <5> QED BY <2>1, <5>1, <5>2
      <4>2. CASE id \notin Missing
        <5>1. /\ IsFiniteSet(Missing \cup {id})
              /\ Cardinality(Missing \cup {id}) = Cardinality(Missing) + 1
          BY <2>1, <4>2, FS_AddElement
        <5> QED BY <2>1, <5>1
      <4> QED BY <4>1, <4>2
    <3>4. Cardinality(Missing') <= Cardinality(Missing \cup {id}) /\ Cardinality(Missing') \in Nat
      BY <3>1, <3>3, FS_Subset, FS_CardinalityType
    <3>5. IsFiniteSet(removed \cup {e}) /\ Cardinality(removed \cup {e}) = Cardinality(removed) + 1
      BY <1>1, <3>2, FS_AddElement
    <3>6. Cardinality(removed \cup {e}) <= Cardinality(removed')
      <4>1. removed \cup {e} \subseteq removed'
        BY <1>2, <3>2
      <4> QED BY <1>6, <4>1, FS_Subset
    <3> QED BY <1>6, <2>1, <3>3, <3>4, <3>5, <3>6
  <2> QED BY <2>2, <2>3
<1>8. DOMAIN doing' = {Server} /\ doing'[Server].op = "idle"
  BY <1>1, <1>2
<1> QED BY <1>1, <1>2, <1>3, <1>5, <1>6, <1>7, <1>8 DEF StoreInv

\* After a clear no number is missing.
LEMMA ClearItemsInv ==
  ASSUME StoreInv, Store!Clear(Server)
  PROVE  StoreInv'
<1>1. /\ items' = <<>> /\ removed' = removed \cup Store!Elements(items)
      /\ UNCHANGED <<born, doing>> /\ doing[Server].op = "idle"
  BY DEF Store!Clear, Store!IsIdle
<1>2. items' \in Seq(Store!Item) /\ Store!Elements(items)' = {} /\ Missing' = {}
  BY <1>1 DEF Store!Elements, Missing
<1>3. IsFiniteSet(removed')
  <2>1. items \in Seq(Store!Item) /\ Len(items) \in Nat
    BY DEF StoreInv
  <2>2. IsFiniteSet(1..Len(items))
    BY <2>1, FS_Interval
  <2> DEFINE f == [i \in 1..Len(items) |-> items[i]]
  <2>3. f \in Surjection(1..Len(items), Store!Elements(items))
    BY DEF Store!Elements, Surjection
  <2>4. IsFiniteSet(Store!Elements(items))
    BY <2>2, <2>3, FS_Surjection
  <2> QED BY <1>1, <2>4, FS_Union DEF StoreInv
<1>4. Cardinality(Missing') <= Cardinality(removed')
  BY <1>2, <1>3, FS_EmptySet, FS_CardinalityType
<1>5. removed' \in SUBSET Store!Item /\ \A e \in removed' : e.serial <= born
  BY <1>1 DEF StoreInv, Store!Elements
<1> QED BY <1>1, <1>2, <1>3, <1>4, <1>5 DEF StoreInv

LEMMA StoreNext == StoreInv /\ [Next]_vars => StoreInv'
<1> SUFFICES ASSUME StoreInv, [Next]_vars PROVE StoreInv'
  OBVIOUS
<1>1. CASE Store!AddCounts(Server)
  <2>1. /\ doing' = [doing EXCEPT ![Server] = [op |-> "add", id |-> Len(items) + 1]]
        /\ UNCHANGED <<items, born, removed>>
    BY <1>1 DEF Store!AddCounts, Store!IdAfter
  <2>2. DOMAIN doing' = {Server} /\ doing'[Server] = [op |-> "add", id |-> Len(items) + 1]
    BY <2>1 DEF StoreInv
  <2> QED BY <2>1, <2>2 DEF StoreInv, Missing, Store!IdsInUse, Store!Elements
<1>2. CASE Store!AddAppends(Server)
  BY <1>2, AppendsInv
<1>3. ASSUME NEW id \in 1..MaxId, Store!DeleteCopies(Server, id) PROVE StoreInv'
  <2>1. /\ doing' = [doing EXCEPT ![Server] =
                      [op |-> "delete", id |-> id, rest |-> Store!Without(id)]]
        /\ UNCHANGED <<items, born, removed>>
    BY <1>3 DEF Store!DeleteCopies
  <2>2. /\ DOMAIN doing' = {Server}
        /\ doing'[Server] = [op |-> "delete", id |-> id, rest |-> Store!Without(id)]
    BY <2>1 DEF StoreInv
  <2>3. Store!Without(id)' = Store!Without(id)
    BY <2>1 DEF Store!Without
  <2>4. /\ doing'[Server].op = "delete" /\ doing'[Server].id = id
        /\ doing'[Server].rest = Store!Without(id)'
    BY <2>2, <2>3
  <2>5. doing'[Server].rest = Store!Without(doing[Server].id)'
    BY <2>4 DEF Store!Without
  <2> QED BY <2>1, <2>2, <2>4, <2>5 DEF StoreInv, Missing, Store!IdsInUse, Store!Elements
<1>4. CASE Store!DeleteAssigns(Server)
  BY <1>4, AssignsInv
<1>5. CASE Store!Clear(Server)
  BY <1>5, ClearItemsInv
<1>6. CASE UNCHANGED itemVars
  BY <1>6 DEF itemVars, StoreInv, Missing, Store!IdsInUse, Store!Elements, Store!Without
<1> QED BY <1>1, <1>2, <1>3, <1>4, <1>5, <1>6
        DEF Next, StoreStep, ContractStep, RuleStep, PolicyStep, FlagStep, vars, Store!Next

\* Items that share an id are paid for by removals, one by one: as long as nothing is
\* removed, ids are unique.
THEOREM SharedIdsAreRemovals == Spec => []SharedIdsPaidFor
<1>1. Init => StoreInv
  BY StoreInit DEF Init
<1>2. StoreInv => SharedIdsPaidFor
  <2> SUFFICES ASSUME StoreInv PROVE SharedIdsPaidFor
    OBVIOUS
  <2>1. /\ items \in Seq(Store!Item) /\ Len(items) \in Nat
        /\ Cardinality(Missing) <= Cardinality(removed)
        /\ Cardinality(removed) \in Nat
    BY FS_CardinalityType DEF StoreInv
  <2>2. /\ Len(items) - Cardinality(Store!IdsInUse) <= Cardinality(Missing)
        /\ Cardinality(Missing) \in Nat /\ Cardinality(Store!IdsInUse) \in Nat
    BY <2>1, SharedAreMissing, MissingFinite
  <2>3. Len(items) - Cardinality(Store!IdsInUse) <= Cardinality(removed)
    BY <2>1, <2>2
  <2> QED BY <2>3, SameStore DEF SharedIdsPaidFor, Store!SharedIdsPaidFor
<1> QED BY <1>1, <1>2, StoreNext, PTL DEF Spec
===============================================================================
