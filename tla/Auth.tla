--------------------------------- MODULE Auth ---------------------------------
(* AuthService of src/src/auth.py: sessions by token.                          *)
(*                                                                             *)
(* A token is a hash of user, role, time and the service's secret, so two      *)
(* tokens differ exactly when their user (user name and role stand for one     *)
(* thing here) or time does.  generate_token reads the time twice, first for   *)
(* the token and then for the session.                                         *)
EXTENDS Naturals, FiniteSets

CONSTANTS
  Users,
  Expiry,        \* expires_in, 3600 in the code
  MaxTime,       \* bound: the clock stops there
  MaxSessions    \* bound: tokens ever made

\* What the constants are, assumed by the modules that use this one.
AuthAssumption == Expiry \in Nat /\ MaxTime \in Nat /\ MaxSessions \in Nat

VARIABLES
  clock,         \* time.time()
  sessions,      \* _sessions: the token's created_at
  refused        \* tokens that validate_token found expired

vars == <<clock, sessions, refused>>

Tokens == [user : Users, time : 0..MaxTime]

Init ==
  /\ clock = 0
  /\ sessions = [t \in {} |-> 0]
  /\ refused = {}

TimePasses ==
  /\ clock < MaxTime
  /\ clock' = clock + 1
  /\ UNCHANGED <<sessions, refused>>

TokenFor(u) == [user |-> u, time |-> clock]

\* The clock may move on between its two readings.
GenerateToken(u) ==
  /\ Cardinality(DOMAIN sessions \cup refused \cup {TokenFor(u)}) <= MaxSessions
  /\ \E now \in {clock, clock + 1} \cap 0..MaxTime :
       /\ clock' = now
       /\ sessions' = [t \in DOMAIN sessions \cup {TokenFor(u)} |->
                         IF t = TokenFor(u) THEN now ELSE sessions[t]]
  /\ UNCHANGED refused

-------------------------------------------------------------------------------
(* validate_token                                                              *)

Expired(t) == t \in DOMAIN sessions /\ clock - sessions[t] > Expiry

Valid(t) == t \in DOMAIN sessions /\ ~Expired(t)

\* What validate_token does to the sessions, whatever it answers.
Validate(t) ==
  /\ sessions' = [s \in DOMAIN sessions \ (IF Expired(t) THEN {t} ELSE {}) |-> sessions[s]]
  /\ refused' = IF Expired(t) THEN refused \cup {t} ELSE refused
  /\ UNCHANGED clock

-------------------------------------------------------------------------------
TypeOK ==
  /\ clock \in 0..MaxTime
  /\ DOMAIN sessions \subseteq Tokens
  /\ \A t \in DOMAIN sessions : sessions[t] \in 0..clock
  /\ refused \subseteq Tokens

\* A token that was refused because it expired is never accepted again: no later
\* session takes its place.
RefusedForEver == \A t \in refused : t \notin DOMAIN sessions
===============================================================================
