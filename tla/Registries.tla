------------------------------ MODULE Registries ------------------------------
(* The engines of APIService that call no user code before their work is done: *)
(* the item storage in one thread, the schema registry, the rules of schemas,  *)
(* the policy engine and the feature flags.  They share no state and never     *)
(* call one another, so that what one of them may do does not depend on the    *)
(* others: a behaviour here is one of any one of them, chosen at the start.    *)
EXTENDS Naturals, Sequences, FiniteSets

CONSTANTS
  Server, MaxItems, MaxId,                                   \* see ItemStore
  Ids, Names, Versions, NoSchema, NoId, MaxSchemas,          \* see Contracts
  FieldNames, Fields, Values, StrictMode, None, Absent, NaN,
  Malformed,                                                 \* see ContractRules
  Roles, Actions, Resources, Star, Keys, ContextValues, NoValue,
  Askings, MaxPolicies,                                      \* see Policies
  Flags, Users, FlagRoles, NoUser, NoRole, Rollouts, Bucket,
  NoFlag, Unset                                              \* see Flags

VARIABLES
  engine,      \* the engine that is called
  items, born, removed, doing,
  schemas, index, registered,
  fields, strict, payload, errors,
  policies, default,
  flags, outcome

itemVars == <<items, born, removed, doing>>
contractVars == <<schemas, index, registered>>
ruleVars == <<fields, strict, payload, errors>>
policyVars == <<policies, default>>
flagVars == <<flags, outcome>>
vars == <<engine, itemVars, contractVars, ruleVars, policyVars, flagVars>>

Store == INSTANCE ItemStore WITH Threads <- {Server}
Registry == INSTANCE Contracts
Rules == INSTANCE ContractRules
Policy == INSTANCE Policies WITH Values <- ContextValues
Flagging == INSTANCE Flags WITH Roles <- FlagRoles

ASSUME RegistriesAssumption ==
  /\ Store!StoreAssumption
  /\ Registry!RegistryAssumption
  /\ Rules!RulesAssumption
  /\ Policy!PolicyAssumption
  /\ Flagging!FlagsAssumption

Engines == {"storage", "contracts", "rules", "policies", "flags"}

\* Engines that are not called have one initial state of theirs.
UncalledRules ==
  /\ fields = [f \in FieldNames |-> Absent]
  /\ strict = StrictMode
  /\ payload = fields
  /\ errors = None

UncalledPolicies == policies = <<>> /\ default = "DENY"

Init ==
  /\ engine \in Engines
  /\ Store!Init
  /\ Registry!Init
  /\ IF engine = "rules" THEN Rules!Init ELSE UncalledRules
  /\ IF engine = "policies" THEN Policy!Init ELSE UncalledPolicies
  /\ Flagging!Init

StoreStep ==
  /\ engine = "storage"
  /\ Store!Next
  /\ UNCHANGED <<engine, contractVars, ruleVars, policyVars, flagVars>>

ContractStep ==
  /\ engine = "contracts"
  /\ Registry!Next
  /\ UNCHANGED <<engine, itemVars, ruleVars, policyVars, flagVars>>

RuleStep ==
  /\ engine = "rules"
  /\ Rules!Next
  /\ UNCHANGED <<engine, itemVars, contractVars, policyVars, flagVars>>

PolicyStep ==
  /\ engine = "policies"
  /\ Policy!Next
  /\ UNCHANGED <<engine, itemVars, contractVars, ruleVars, flagVars>>

FlagStep ==
  /\ engine = "flags"
  /\ Flagging!Next
  /\ UNCHANGED <<engine, itemVars, contractVars, ruleVars, policyVars>>

Next ==
  \/ StoreStep
  \/ ContractStep
  \/ RuleStep
  \/ PolicyStep
  \/ FlagStep

Spec == Init /\ [][Next]_vars

-------------------------------------------------------------------------------
\* Every engine is well typed.
TypeOK == Store!TypeOK /\ Registry!TypeOK /\ Rules!TypeOK /\ Policy!TypeOK /\ Flagging!TypeOK

\* Items share an id only as far as items were removed.
SharedIdsPaidFor == Store!SharedIdsPaidFor

\* The index of schemas names no schema that is gone, and none of another name or
\* version.
IndexIsLive == Registry!IndexIsLive

\* The schema that the index names is the newest of its name and version.
IndexIsNewest == Registry!IndexIsNewest

\* validate finds no error exactly in the payloads that the declarations permit.
VerdictIsReference == Rules!VerdictIsReference

\* A schema that asks for less accepts what was accepted.
RelaxedAccepts == Rules!RelaxedAccepts

\* A request is allowed by the rules as a whole, whatever their order.
DecisionIsReference == Policy!DecisionIsReference

\* A rollout that grows keeps whom it has.
RolloutOnlyGrows == Flagging!RolloutOnlyGrows

\* A call that is refused turns the switch of its flag at most.
RefusalTurnsSwitchAtMost == Flagging!RefusalTurnsSwitchAtMost
===============================================================================
