------------------------------- MODULE Policies -------------------------------
(* PolicyEngine of src/src/policies.py: rules that allow or deny, and what     *)
(* evaluate decides by them.                                                   *)
(*                                                                             *)
(* The engine calls no user code before its work is done, so every call is one *)
(* step.  The rules are kept in the order of their making, as the dictionary   *)
(* keeps them.  All rules are enabled: nothing ever disables one.  Names,      *)
(* ids and the counts of evaluations are left out.                             *)
EXTENDS Naturals, Sequences, SequencesExt

CONSTANTS
  Roles, Actions, Resources,   \* the names that rules and requests use
  Star,                        \* "*"
  Keys, Values,                \* of conditions and contexts
  NoValue,                     \* None, and what ctx.get yields for a missing key
  Askings,                     \* the roles, actions and resources that callers ask for
  MaxPolicies                  \* bound: rules at one time

VARIABLES
  policies,        \* _policies
  default          \* default_effect

vars == <<policies, default>>

Effects == {"ALLOW", "DENY"}

\* What a caller may name in a rule: names, and everything, alone or among them.
Selections(names) == SUBSET (names \cup {Star})

Conditions == UNION {[keys -> Values \cup {NoValue}] : keys \in SUBSET Keys}

\* asked holds the selections of the caller, which nothing in the engine keeps.
Asked == [roles : Selections(Roles), actions : Selections(Actions),
          resources : Selections(Resources)]

\* What the constants are, assumed by the modules that use this one.
PolicyAssumption ==
  /\ Star \notin Roles \cup Actions \cup Resources
  /\ NoValue \notin Values
  /\ Askings \subseteq Asked
  /\ MaxPolicies \in Nat

Init ==
  /\ policies = <<>>
  /\ default \in Effects

-------------------------------------------------------------------------------
(* create_policy, delete_policy, clear                                         *)

\* An empty selection is everything.
OrAll(selection) == IF selection = {} THEN {Star} ELSE selection

Create(effect, asked, conditions) ==
  /\ Len(policies) < MaxPolicies
  /\ policies' = Append(policies,
       [effect |-> effect, asked |-> asked, conditions |-> conditions,
        roles |-> OrAll(asked.roles), actions |-> OrAll(asked.actions),
        resources |-> OrAll(asked.resources)])
  /\ UNCHANGED default

Delete(i) ==
  /\ policies' = RemoveAt(policies, i)
  /\ UNCHANGED default

Clear ==
  /\ policies' = <<>>
  /\ UNCHANGED default

Next ==
  \/ \E effect \in Effects, asked \in Askings, conditions \in Conditions :
       Create(effect, asked, conditions)
  \/ \E i \in DOMAIN policies : Delete(i)
  \/ Clear

Spec == Init /\ [][Next]_vars

-------------------------------------------------------------------------------
(* evaluate                                                                    *)

Requests == [role : Roles, action : Actions, resource : Resources,
             context : [Keys -> Values \cup {NoValue}]]

Selects(selection, name) == Star \in selection \/ name \in selection

Matches(p, r) ==
  /\ Selects(p.roles, r.role)
  /\ Selects(p.actions, r.action)
  /\ Selects(p.resources, r.resource)
  /\ \A k \in DOMAIN p.conditions : r.context[k] = p.conditions[k]

\* The rules of one effect that match: their positions in the list.
Matched(effect, r) ==
  {i \in DOMAIN policies : policies[i].effect = effect /\ Matches(policies[i], r)}

\* Mutant: the first rule that matches decides.
FirstMatch(r) ==
  LET matched == Matched("ALLOW", r) \cup Matched("DENY", r) IN
  IF matched = {} THEN default
  ELSE policies[CHOOSE i \in matched : \A k \in matched : i <= k].effect

Decision(r) ==
  IF Matched("DENY", r) # {} THEN "DENY"
  ELSE IF Matched("ALLOW", r) # {} THEN "ALLOW" ELSE default

-------------------------------------------------------------------------------
TypeOK ==
  /\ policies \in Seq([effect : Effects, asked : Asked, conditions : Conditions,
                       roles : SUBSET (Roles \cup {Star}),
                       actions : SUBSET (Actions \cup {Star}),
                       resources : SUBSET (Resources \cup {Star})])
  /\ default \in Effects

\* The requests that a rule is about, by what its maker asked for.
About(p) ==
  LET Meant(selection, names) == IF selection = {} \/ Star \in selection THEN names ELSE selection IN
  {r \in [role : Meant(p.asked.roles, Roles), action : Meant(p.asked.actions, Actions),
          resource : Meant(p.asked.resources, Resources),
          context : [Keys -> Values \cup {NoValue}]] :
     \A k \in DOMAIN p.conditions : r.context[k] = p.conditions[k]}

AboutAny(effect) ==
  UNION {About(policies[i]) : i \in {k \in DOMAIN policies : policies[k].effect = effect}}

\* The requests that are allowed are those of the allowing rules, or all of them if
\* that is the default, less those of the denying rules, whatever the order the
\* rules were made in: no later rule reopens what one denies.
DecisionIsReference ==
  LET Always == IF default = "ALLOW" THEN Requests ELSE {} IN
  {r \in Requests : Decision(r) = "ALLOW"}
    = (Always \cup AboutAny("ALLOW")) \ AboutAny("DENY")
===============================================================================
