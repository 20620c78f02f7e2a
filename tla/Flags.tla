-------------------------------- MODULE Flags ---------------------------------
(* FeatureFlagManager of src/src/feature_flags.py: flags, and for whom         *)
(* evaluate finds them active.                                                 *)
(*                                                                             *)
(* The manager calls no user code before its work is done, so every call is    *)
(* one step: it announces to listeners what it has done, and one that raises   *)
(* takes the caller's answer away.  Descriptions, metadata, times and the      *)
(* counts of evaluations are left out.                                         *)
EXTENDS Integers

CONSTANTS
  Flags,
  Users, Roles,
  NoUser, NoRole,    \* the context names none
  Rollouts,          \* the percentages that callers ask for, within 0..100 or not
  Bucket,            \* md5 of flag and user, modulo 100
  NoFlag,
  Unset              \* None: the call leaves the field alone

Flag == [enabled : BOOLEAN, rollout : 0..100, roles : SUBSET Roles, users : SUBSET Users]

\* What the constants are, assumed by the modules that use this one.
FlagsAssumption ==
  /\ NoFlag \notin Flag
  /\ Rollouts \subseteq Int
  /\ Bucket \in [Flags \X Users -> 0..99]
  /\ NoUser \notin Users /\ NoRole \notin Roles
  /\ Unset \notin BOOLEAN \cup Int
  /\ \A names \in (SUBSET Roles) \cup (SUBSET Users) : Unset # names

VARIABLES
  flags,      \* _flags
  outcome     \* of the call that was carried out, or refused, last

vars == <<flags, outcome>>

\* Refused by the manager itself, or abandoned by a listener.
Outcomes == {"answered", "refused", "abandoned"}

Known(f) == flags[f] # NoFlag

Init ==
  /\ flags = [f \in Flags |-> NoFlag]
  /\ outcome = "answered"

-------------------------------------------------------------------------------
(* create_flag, update_flag, toggle_flag, delete_flag, clear                   *)

\* What a call comes to that is carried out, and announced.
Announced == {"answered", "abandoned"}

InRange(rollout) == 0 <= rollout /\ rollout <= 100

Create(f, enabled, rollout, roles, users) ==
  IF ~Known(f) /\ InRange(rollout)
  THEN /\ flags' = [flags EXCEPT ![f] = [enabled |-> enabled, rollout |-> rollout,
                                          roles |-> roles, users |-> users]]
       /\ outcome' \in Announced
  ELSE outcome' = "refused" /\ UNCHANGED flags

Given(value, old) == IF value = Unset THEN old ELSE value

\* Mutant: the percentage is checked last.
UntilLastCheck(f, enabled, roles, users) ==
  [flags[f] EXCEPT !.enabled = Given(enabled, @), !.roles = Given(roles, @),
                   !.users = Given(users, @)]

\* The switch is assigned before the percentage is checked.
UntilCheck(f, enabled, roles, users) == [flags[f] EXCEPT !.enabled = Given(enabled, @)]

Update(f, enabled, rollout, roles, users) ==
  /\ Known(f)
  /\ IF rollout = Unset \/ InRange(rollout)
     THEN /\ flags' = [flags EXCEPT ![f] =
               [enabled |-> Given(enabled, @.enabled), rollout |-> Given(rollout, @.rollout),
                roles |-> Given(roles, @.roles), users |-> Given(users, @.users)]]
          /\ outcome' \in Announced
     ELSE /\ flags' = [flags EXCEPT ![f] = UntilCheck(f, enabled, roles, users)]
          /\ outcome' = "refused"

Toggle(f, enabled) ==
  /\ Known(f)
  /\ flags' = [flags EXCEPT ![f].enabled = Given(enabled, ~@)]
  /\ outcome' \in Announced

Delete(f) ==
  /\ Known(f)
  /\ flags' = [flags EXCEPT ![f] = NoFlag]
  /\ outcome' \in Announced

Clear ==
  /\ flags' = [f \in Flags |-> NoFlag]
  /\ outcome' = "answered"

Next ==
  \/ \E f \in Flags, enabled \in BOOLEAN, rollout \in Rollouts,
        roles \in SUBSET Roles, users \in SUBSET Users :
       Create(f, enabled, rollout, roles, users)
  \/ \E f \in Flags, enabled \in BOOLEAN \cup {Unset}, rollout \in Rollouts \cup {Unset},
        roles \in (SUBSET Roles) \cup {Unset}, users \in (SUBSET Users) \cup {Unset} :
       Update(f, enabled, rollout, roles, users)
  \/ \E f \in Flags, enabled \in BOOLEAN \cup {Unset} : Toggle(f, enabled)
  \/ \E f \in Flags : Delete(f)
  \/ Clear

Spec == Init /\ [][Next]_vars

-------------------------------------------------------------------------------
(* evaluate                                                                    *)

Contexts == [user : Users \cup {NoUser}, role : Roles \cup {NoRole}]

\* Mutant: the percentage is hashed along with flag and user.
RehashedBelow(f, user, rollout) == (Bucket[<<f, user>>] + rollout * rollout) % 100 < rollout

BucketBelow(f, user, rollout) == Bucket[<<f, user>>] < rollout

\* Without a user, every percentage but 0 activates the flag.
Active(f, c) ==
  LET flag == flags[f] IN
  /\ flag.enabled
  /\ \/ c.user \in flag.users
     \/ c.role \in flag.roles
     \/ flag.rollout >= 100
     \/ flag.rollout > 0 /\ (c.user = NoUser \/ BucketBelow(f, c.user, flag.rollout))

-------------------------------------------------------------------------------
TypeOK == flags \in [Flags -> Flag \cup {NoFlag}] /\ outcome \in Outcomes

ActiveFor(f) == {c \in Contexts : Active(f, c)}

\* Raising the percentage of a flag, or widening its lists, never turns it off for
\* anybody for whom it was on, as long as its switch is not turned off: users stay
\* in a rollout that grows.
RolloutOnlyGrows ==
  [][\A f \in Flags :
       /\ Known(f) /\ flags'[f] # NoFlag
       /\ flags[f].enabled => flags'[f].enabled
       /\ flags[f].rollout <= flags'[f].rollout
       /\ flags[f].roles \subseteq flags'[f].roles
       /\ flags[f].users \subseteq flags'[f].users
       => ActiveFor(f) \subseteq ActiveFor(f)']_vars

\* A call that the manager refuses may have turned the switch of its flag, and
\* changed nothing else: no flag is made, and whom it is on for once it is enabled
\* is as before.
RefusalTurnsSwitchAtMost ==
  [][outcome' = "refused" =>
       \A f \in Flags :
         /\ Known(f) <=> flags'[f] # NoFlag
         /\ Known(f) => flags'[f] = [flags[f] EXCEPT !.enabled = flags'[f].enabled]]_vars
===============================================================================
