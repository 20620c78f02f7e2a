------------------------------ MODULE Throttler -------------------------------
(* TrafficThrottler of src/src/throttler.py, for one client: clients share the *)
(* rules and nothing else.                                                     *)
(*                                                                             *)
(* Rules are replaced while buckets and logs of the client live on under the   *)
(* rule's name, and a rule may come back with another capacity, rate, window   *)
(* or algorithm.  A tick is the hundredth of a second that retry_after is      *)
(* rounded to; tokens are counted in a unit of which every rule refills a      *)
(* whole number in a tick.  The counters of get_stats are left out.            *)
EXTENDS Integers, Sequences, Lists

CONSTANTS
  Names,          \* names of rules that callers register
  Unknown,        \* a name that callers ask for and nobody registers
  Standard,       \* the name that stands in for one that is not registered
  Fallback,       \* the name of the rule for when even Standard is gone
  NoRule, NoBucket, NoPromise,
  RuleChoices,    \* rules that callers register
  StandardRule,   \* the tier that __init__ registers under Standard
  FallbackRule,   \* the rule made of the defaults of the throttler
  RateFloor,      \* the 0.1 tokens per second that retry_after reckons with at least
  Costs,          \* costs that callers ask for
  BanTimes,       \* durations of blacklistings
  MaxClock        \* bound: the last tick of a behaviour

Rule == [algorithm : {"token_bucket", "sliding_window"}, capacity : Nat \ {0}, rate : Nat,
         window : Nat]

\* What the constants are, assumed by the modules that use this one.
ThrottlerAssumption ==
  /\ Standard \in Names /\ {Unknown, Fallback} \cap Names = {}
  /\ NoRule \notin Rule
  /\ NoBucket \notin [tokens : Nat, last_refill : 0..MaxClock]
  /\ RuleChoices \cup {StandardRule, FallbackRule} \subseteq Rule
  /\ RateFloor \in Nat \ {0} /\ Costs \subseteq Nat \ {0} /\ BanTimes \subseteq Nat
  /\ MaxClock \in Nat

VARIABLES
  clock,      \* time.time(), in ticks
  rules,      \* _rules
  buckets,    \* _buckets of the client, by rule name
  logs,       \* _sliding_logs of the client, by rule name
  ban,        \* when the client's blacklisting ends, 0 when there is no entry
  admitted,   \* what was admitted up to the end of each tick, since the rule was
              \* registered or reset
  promise     \* the retry_after given last, until something is admitted

clientVars == <<buckets, logs, ban, admitted, promise>>
vars == <<clock, rules, clientVars>>

Charged == Names \cup {Fallback}
Nothing == [t \in 0..MaxClock |-> 0]

Init ==
  /\ clock = 0
  /\ rules = [n \in Names |-> IF n = Standard THEN StandardRule ELSE NoRule]
  /\ buckets = [k \in Charged |-> NoBucket]
  /\ logs = [k \in Charged |-> <<>>]
  /\ ban = 0
  /\ admitted = [k \in Charged |-> Nothing]
  /\ promise = [k \in Charged |-> NoPromise]

-------------------------------------------------------------------------------
(* Which rule evaluate applies, and under which name it charges the client.    *)

ChargedTo(n) ==
  IF n \in Names /\ rules[n] # NoRule
  THEN n ELSE IF rules[Standard] # NoRule THEN Standard ELSE Fallback

RuleOf(k) == IF k = Fallback THEN FallbackRule ELSE rules[k]

InForce(k) == RuleOf(k) # NoRule

Banned == clock < ban

-------------------------------------------------------------------------------
(* The two algorithms: the client's allowance now, and whether a cost fits.    *)

\* Mutant: tokens pile up while the client is away.
Unbounded(tokens, rule) == tokens

Bounded(tokens, rule) == IF tokens > rule.capacity THEN rule.capacity ELSE tokens

Refilled(k) ==
  LET rule == RuleOf(k) IN
  IF buckets[k] = NoBucket
  THEN rule.capacity
  ELSE Bounded(buckets[k].tokens + (clock - buckets[k].last_refill) * rule.rate, rule)

\* Mutant: a request is forgotten one tick before the window has passed it.
WellAfter(t, start) == t > start + 1

After(t, start) == t > start

\* The positions in the log that the window has not passed.
Within(k) == {i \in 1..Len(logs[k]) : After(logs[k][i], clock - RuleOf(k).window)}

Recent(k) == Sublist(logs[k], Within(k))

Covers(tokens, cost) == tokens >= cost

Fits(k, cost) ==
  IF RuleOf(k).algorithm = "token_bucket"
  THEN Covers(Refilled(k), cost)
  ELSE Len(Recent(k)) + cost <= RuleOf(k).capacity

\* Mutant: a refusal notes the time of the refill and forgets the tokens.
ChargeForgetful(k, cost) ==
  IF RuleOf(k).algorithm = "token_bucket"
  THEN /\ buckets' = [buckets EXCEPT ![k] =
            [tokens |-> IF cost = 0 /\ @ # NoBucket THEN @.tokens ELSE Refilled(k) - cost,
             last_refill |-> clock]]
       /\ UNCHANGED logs
  ELSE /\ logs' = [logs EXCEPT ![k] = Recent(k) \o [i \in 1..cost |-> clock]]
       /\ UNCHANGED buckets

\* What is written back before, or when, the cost is charged.
Charge(k, cost) ==
  IF RuleOf(k).algorithm = "token_bucket"
  THEN /\ buckets' = [buckets EXCEPT ![k] =
            [tokens |-> Refilled(k) - cost, last_refill |-> clock]]
       /\ UNCHANGED logs
  ELSE /\ logs' = [logs EXCEPT ![k] = Recent(k) \o [i \in 1..cost |-> clock]]
       /\ UNCHANGED buckets

-------------------------------------------------------------------------------
(* retry_after of a refusal.  It says when the request would fit only if the   *)
(* cost is within the capacity and, for a window, lacks one place, and for a   *)
(* bucket, the rate is not below the floor.                                    *)

\* The whole numbers nearest to a / b: which of two that are as near is taken
\* depends on the binary fraction.
Rounded(a, b) == {q \in 0..a : 2 * (q * b - a) \in -b..b}

WaitForTokens(k, cost) ==
  LET rate == IF RuleOf(k).rate > RateFloor THEN RuleOf(k).rate ELSE RateFloor
  IN  {clock + wait : wait \in Rounded(cost - Refilled(k), rate)}

\* The instants that retry_after may stand for.  For a window it is exact, or the
\* tenth of a second that is the least it tells; the instant here is the earlier one.
RetryAt(k, cost) ==
  IF RuleOf(k).algorithm = "token_bucket"
  THEN WaitForTokens(k, cost)
  ELSE {(IF Recent(k) = <<>> THEN clock ELSE Head(Recent(k))) + RuleOf(k).window}

Meaningful(k, cost) ==
  /\ cost <= RuleOf(k).capacity
  /\ IF RuleOf(k).algorithm = "token_bucket"
     THEN RuleOf(k).rate >= RateFloor
     ELSE Len(Recent(k)) + cost = RuleOf(k).capacity + 1

-------------------------------------------------------------------------------
(* evaluate                                                                    *)

EvaluateBanned ==
  /\ Banned
  /\ UNCHANGED vars

Admit(n, cost) ==
  LET k == ChargedTo(n) IN
  /\ ~Banned
  /\ Fits(k, cost)
  /\ Charge(k, cost)
  /\ ban' = 0
  /\ admitted' = [admitted EXCEPT ![k] =
       [t \in 0..MaxClock |-> IF t < clock THEN admitted[k][t] ELSE admitted[k][t] + cost]]
  /\ promise' = [promise EXCEPT ![k] = NoPromise]
  /\ UNCHANGED <<clock, rules>>

Refuse(n, cost) ==
  LET k == ChargedTo(n) IN
  /\ ~Banned
  /\ ~Fits(k, cost)
  /\ Charge(k, 0)
  /\ ban' = 0
  /\ \E due \in RetryAt(k, cost) :
       promise' = [promise EXCEPT ![k] =
         IF Meaningful(k, cost) THEN [cost |-> cost, due |-> due] ELSE @]
  /\ UNCHANGED <<clock, rules, admitted>>

-------------------------------------------------------------------------------
(* register_rule, blacklist_client, unblacklist_client, is_client_blacklisted, *)
(* reset_client, clear                                                         *)

Register(n, rule) ==
  /\ rules' = [rules EXCEPT ![n] = rule]
  /\ admitted' = [admitted EXCEPT ![n] = Nothing]
  /\ promise' = [promise EXCEPT ![n] = NoPromise]
  /\ UNCHANGED <<clock, buckets, logs, ban>>

Blacklist(d) ==
  /\ ban' = clock + d
  /\ UNCHANGED <<clock, rules, buckets, logs, admitted, promise>>

Unblacklist ==
  /\ ban # 0
  /\ ban' = 0
  /\ UNCHANGED <<clock, rules, buckets, logs, admitted, promise>>

IsBlacklisted ==
  /\ ban' = IF Banned THEN ban ELSE 0
  /\ UNCHANGED <<clock, rules, buckets, logs, admitted, promise>>

\* For one rule name, or for all.
ResetClient(K) ==
  /\ buckets' = [k \in Charged |-> IF k \in K THEN NoBucket ELSE buckets[k]]
  /\ logs' = [k \in Charged |-> IF k \in K THEN <<>> ELSE logs[k]]
  /\ admitted' = [k \in Charged |-> IF k \in K THEN Nothing ELSE admitted[k]]
  /\ UNCHANGED <<clock, rules, ban, promise>>

\* The default tiers go with the other rules.
Clear ==
  /\ rules' = [n \in Names |-> NoRule]
  /\ buckets' = [k \in Charged |-> NoBucket]
  /\ logs' = [k \in Charged |-> <<>>]
  /\ ban' = 0
  /\ admitted' = [k \in Charged |-> Nothing]
  /\ promise' = [k \in Charged |-> NoPromise]
  /\ UNCHANGED clock

Tick ==
  /\ clock < MaxClock
  /\ clock' = clock + 1
  /\ UNCHANGED <<rules, clientVars>>

Next ==
  \/ EvaluateBanned
  \/ \E n \in Names \cup {Unknown}, cost \in Costs : Admit(n, cost)
  \/ \E n \in Names \cup {Unknown}, cost \in Costs : Refuse(n, cost)
  \/ \E n \in Names, rule \in RuleChoices : Register(n, rule)
  \/ \E d \in BanTimes : Blacklist(d)
  \/ Unblacklist
  \/ IsBlacklisted
  \/ \E k \in Charged : ResetClient({k})
  \/ ResetClient(Charged)
  \/ Clear
  \/ Tick

Spec == Init /\ [][Next]_vars

-------------------------------------------------------------------------------
TypeOK ==
  /\ clock \in 0..MaxClock
  /\ rules \in [Names -> Rule \cup {NoRule}]
  /\ buckets \in [Charged -> [tokens : Nat, last_refill : 0..MaxClock] \cup {NoBucket}]
  /\ logs \in [Charged -> Seq(0..MaxClock)]
  /\ ban \in Nat
  /\ admitted \in [Charged -> [0..MaxClock -> Nat]]
  /\ promise \in [Charged -> [cost : Costs, due : Nat] \cup {NoPromise}]

AdmittedSince(k, start) ==
  admitted[k][clock] - (IF start = 0 THEN 0 ELSE admitted[k][start - 1])

\* No window of a sliding-window rule admits more than its capacity, whichever
\* rules the name stood for before and whatever they left in the log.
WindowBound ==
  \A k \in Charged :
    LET rule == RuleOf(k)
        start == IF clock < rule.window THEN 0 ELSE clock - rule.window + 1
    IN  (InForce(k) /\ rule.algorithm = "sliding_window")
          => AdmittedSince(k, start) <= rule.capacity

\* Over any stretch of time a token-bucket rule admits no more than its capacity
\* and what it refills meanwhile, whatever bucket it inherited.
BucketBound ==
  \A k \in Charged :
    (InForce(k) /\ RuleOf(k).algorithm = "token_bucket")
      => \A start \in 0..clock :
           AdmittedSince(k, start) <= RuleOf(k).capacity + (clock - start) * RuleOf(k).rate

\* A client that waits a hundredth of a second longer than retry_after says, and gets
\* nothing in between, is admitted: refused requests, bans and resets meanwhile do
\* not set it back.  Without the hundredth it may be refused, for rounding to the
\* nearest hundredth tells a wait that may be half of one too short.
RetryHonoured ==
  \A k \in Charged :
    (promise[k] # NoPromise /\ clock > promise[k].due) => Fits(k, promise[k].cost)
===============================================================================
