-------------------------------- MODULE Leases --------------------------------
(* LeaseManager of src/src/leases.py.                                          *)
(*                                                                             *)
(* acquire and renew read the clock once, clean the expired record (which      *)
(* publishes lock_expired, and so runs listeners that may call the manager or  *)
(* raise), only then look at the lock again and act on it with the `now` they  *)
(* read before, and publish lock_acquired, lease_renewed or lock_conflict      *)
(* before they answer.  A call in progress is therefore a frame on a stack:    *)
(* time passes, and a listener's calls run, between its parts.  The other      *)
(* calls change state in one piece, publish, and answer with what they did.    *)
(*                                                                             *)
(* The callers' side (belief) is the answer each holder last got: its token    *)
(* and the expires_at in the returned lock.  A holder is whoever presents its  *)
(* name and token; it stops relying on a lease before it releases it.          *)
EXTENDS Integers, FiniteSets, Sequences

CONSTANTS
  Resources, Holders,
  NoHolder,       \* the holder of a resource nobody ever locked
  Requests,       \* durations and extensions callers ask for, in clock ticks
  MinDuration,    \* the floor of the clamp: 0.01 s in the code
  MaxDuration,    \* max_duration
  StartToken,     \* fencing_token_start
  ResetToken,     \* the 1000 that clear() assigns
  MaxClock,       \* bound: the last tick of a behaviour
  MaxGrants,      \* bound: leases granted since the last clear()
  MaxDepth        \* bound: calls in progress inside one another

ASSUME ResourcesAssumption == IsFiniteSet(Resources)
ASSUME HoldersAssumption == NoHolder \notin Holders
ASSUME RequestsAssumption == Requests \subseteq Int
ASSUME DurationAssumption ==
  MinDuration \in Nat /\ MaxDuration \in Nat /\ 0 < MinDuration /\ MinDuration <= MaxDuration
ASSUME TokenAssumption == StartToken \in Nat /\ ResetToken \in Nat
ASSUME BoundsAssumption == MaxClock \in Nat /\ MaxGrants \in Nat /\ MaxDepth \in Nat

VARIABLES
  clock,     \* time.time(), in ticks
  locks,     \* _locks: the last LeaseLock of each resource
  counter,   \* _fencing_counter
  stats,     \* _stats, without the two counters that nothing is checked against
  frames,    \* the acquire and renew calls in progress, outermost first
  belief,    \* belief[h][r]: the lease that h was last told it has on r
  early      \* <<r, t>>: the lease t of r ends before its holder was told it would

managerVars == <<locks, counter, stats>>
callerVars == <<belief, early>>
vars == <<clock, locks, counter, stats, frames, belief, early>>

Lock == [active : BOOLEAN, holder : Holders \cup {NoHolder}, fencing_token : Nat, expires_at : Nat]
Stats == [acquisitions : Nat, releases : Nat, expirations : Nat, forced_breaks : Nat]
OnRecord == -1

\* listening: the listeners of lock_expired run or, once the call has done its
\* work and its op is answer, those of the event that it ends with.  The token is
\* then the one it answers with, 0 for a no, and final the last expires_at of that
\* lease, once another has replaced its record.
Frame == [op : {"acquire", "renew", "answer"}, stage : {"running", "listening"},
          resource : Resources, holder : Holders, token : Nat, duration : Nat, now : Nat,
          final : Nat \cup {OnRecord}]
Belief == [token : Nat, deadline : Nat]

NoBelief == [token |-> 0, deadline |-> 0]
Untracked == [active |-> FALSE, holder |-> NoHolder, fencing_token |-> 0, expires_at |-> 0]
ZeroStats == [acquisitions |-> 0, releases |-> 0, expirations |-> 0, forced_breaks |-> 0]

Init ==
  /\ clock = 0
  /\ locks = [r \in Resources |-> Untracked]
  /\ counter = StartToken
  /\ stats = ZeroStats
  /\ frames = <<>>
  /\ belief = [h \in Holders |-> [r \in Resources |-> NoBelief]]
  /\ early = {}

-------------------------------------------------------------------------------
(* LeaseLock.is_expired, the clamp of a requested duration, the checks on the  *)
(* record, and _clean_expired                                                  *)

\* Mutant: a lease counts as expired one tick too early.
ExpiredEarly(lock, now) == now + 1 >= lock.expires_at

Expired(lock, now) == now >= lock.expires_at

Holds(r, now) == locks[r].active /\ ~Expired(locks[r], now)

\* Mutant: a record is cleaned, and counted, whether or not it is active.
LapsedOrEnded(r, now) == Expired(locks[r], now)

Lapsed(r, now) == locks[r].active /\ Expired(locks[r], now)

\* Mutant: no floor.
ClampFromAbove(d) == IF d > MaxDuration THEN MaxDuration ELSE d

Clamp(d) ==
  LET floored == IF d < MinDuration THEN MinDuration ELSE d
  IN  IF floored > MaxDuration THEN MaxDuration ELSE floored

\* Mutant: a token is enough, whoever presents it.
OwnedByToken(r, h, t) == locks[r].fencing_token = t

OwnedBy(r, h, t) == locks[r].holder = h /\ locks[r].fencing_token = t

\* Mutant: the counter is read but not advanced.
StaleToken == counter

NextToken == counter + 1

Deactivated(R) ==
  [r \in Resources |-> IF r \in R THEN [locks[r] EXCEPT !.active = FALSE] ELSE locks[r]]

CleanExpired(R, now) ==
  LET gone == {r \in R : Lapsed(r, now)}
  IN  /\ locks' = Deactivated(gone)
      /\ stats' = [stats EXCEPT !.expirations = @ + Cardinality(gone)]

-------------------------------------------------------------------------------
(* Calls in progress.  A call can start when no other is running, or from a    *)
(* listener of the event that the innermost call has published.                *)

InCall == frames # <<>>

Top == frames[Len(frames)]

CanCall == InCall => Top.stage # "running"

\* The innermost call has cleaned the record, and its listeners returned.
Deciding(op) == InCall /\ Top.op = op

Pop == frames' = SubSeq(frames, 1, Len(frames) - 1)

\* Read the clock and clean the record: what acquire and renew both start with.
Entered(op, r, h, t, d) ==
  [op |-> op, stage |-> IF Lapsed(r, clock) THEN "listening" ELSE "running",
   resource |-> r, holder |-> h, token |-> t, duration |-> d, now |-> clock,
   final |-> OnRecord]

Enter(op, r, h, t, d) ==
  /\ CanCall
  /\ Len(frames) < MaxDepth
  /\ CleanExpired({r}, clock)
  /\ frames' = Append(frames, Entered(op, r, h, t, d))
  /\ UNCHANGED <<clock, counter, callerVars>>

-------------------------------------------------------------------------------
(* Answers.  They are given after the listeners of the last event returned:    *)
(* with the lease that was granted or renewed, as it is by then.               *)

Told(h, r, b) == belief' = [belief EXCEPT ![h][r] = b]

GivesUp(h, r, t) == IF belief[h][r].token = t THEN Told(h, r, NoBelief) ELSE UNCHANGED belief

\* The innermost call has done its work and publishes.
AnswersWith(t) ==
  [op |-> "answer", stage |-> "listening", resource |-> Top.resource, holder |-> Top.holder,
   token |-> t, duration |-> 0, now |-> 0, final |-> OnRecord]

Answers(f) == f.op = "answer" /\ f.token # 0

\* A yes with this lease is on its way to its holder.
Pending(r, t) ==
  \E i \in 1..Len(frames) :
    frames[i].op = "answer" /\ frames[i].resource = r /\ frames[i].token = t

\* The calls in progress when the records of R are replaced: those that answer
\* with one of them keep it as it is.
Detached(R) ==
  [i \in 1..Len(frames) |->
     IF Answers(frames[i]) /\ frames[i].resource \in R /\ frames[i].final = OnRecord
     THEN [frames[i] EXCEPT !.final = locks[frames[i].resource].expires_at]
     ELSE frames[i]]

DeadlineOf(f, lock) == IF f.final = OnRecord THEN lock.expires_at ELSE f.final

Stands(f, lock) == lock.active /\ lock.fencing_token = f.token

\* acquired=False, with nothing to rely on.
AnswerNo ==
  /\ InCall
  /\ Top.op = "answer"
  /\ Top.token = 0
  /\ Pop
  /\ Told(Top.holder, Top.resource, NoBelief)
  /\ UNCHANGED <<clock, managerVars, early>>

\* acquired=True, even if the lease has ended meanwhile.
AnswerYes ==
  LET f == Top
      lock == locks[f.resource]
  IN
  /\ InCall
  /\ Answers(f)
  /\ Pop
  /\ Told(f.holder, f.resource, [token |-> f.token, deadline |-> DeadlineOf(f, lock)])
  /\ early' = IF Stands(f, lock) THEN early \ {<<f.resource, f.token>>} ELSE early
  /\ UNCHANGED <<clock, managerVars>>

\* A listener raised: the call in progress is abandoned and its caller sees an
\* exception, whatever has changed by then.
CallRaises ==
  /\ InCall
  /\ Top.stage # "running"
  /\ Pop
  /\ UNCHANGED <<clock, managerVars, callerVars>>

-------------------------------------------------------------------------------
(* acquire                                                                     *)

\* The acquire calls in progress that may still grant.
Undecided == {i \in 1..Len(frames) : frames[i].op = "acquire"}

AcquireCall(r, h, d) ==
  /\ stats.acquisitions + Cardinality(Undecided) < MaxGrants
  /\ Enter("acquire", r, h, 0, Clamp(d))

AcquireConflict ==
  /\ Deciding("acquire")
  /\ Holds(Top.resource, Top.now)
  /\ locks[Top.resource].holder # Top.holder
  /\ frames' = [frames EXCEPT ![Len(frames)] = AnswersWith(0)]
  /\ UNCHANGED <<clock, managerVars, callerVars>>

\* The holder itself asks again: the call becomes a renew, which reads the clock
\* and cleans once more.
AcquireReenter ==
  LET f == Top IN
  /\ Deciding("acquire")
  /\ Holds(f.resource, f.now)
  /\ locks[f.resource].holder = f.holder
  /\ CleanExpired({f.resource}, clock)
  /\ frames' = [frames EXCEPT ![Len(frames)] =
       Entered("renew", f.resource, f.holder, locks[f.resource].fencing_token, f.duration)]
  /\ UNCHANGED <<clock, counter, callerVars>>

AcquireGrant ==
  LET f == Top
      token == NextToken
  IN
  /\ Deciding("acquire")
  /\ ~Holds(f.resource, f.now)
  /\ counter' = token
  /\ locks' = [locks EXCEPT ![f.resource] =
       [active |-> TRUE, holder |-> f.holder, fencing_token |-> token,
        expires_at |-> f.now + f.duration]]
  /\ stats' = [stats EXCEPT !.acquisitions = @ + 1]
  /\ frames' = [Detached({f.resource}) EXCEPT ![Len(frames)] = AnswersWith(token)]
  /\ UNCHANGED <<clock, callerVars>>

-------------------------------------------------------------------------------
(* renew: any holder may present any token issued so far, its own or a stale   *)
(* one.                                                                        *)

RenewCall(r, h, t, e) == Enter("renew", r, h, t, Clamp(e))

RenewRefused ==
  LET f == Top IN
  /\ Deciding("renew")
  /\ \/ ~Holds(f.resource, f.now)
     \/ ~OwnedBy(f.resource, f.holder, f.token)
  /\ Pop
  /\ GivesUp(f.holder, f.resource, f.token)
  /\ UNCHANGED <<clock, managerVars, early>>

CutsShort(b, t, deadline) == b.token = t /\ deadline < b.deadline

RenewExtend ==
  LET f == Top
      deadline == f.now + f.duration
  IN
  /\ Deciding("renew")
  /\ Holds(f.resource, f.now)
  /\ OwnedBy(f.resource, f.holder, f.token)
  /\ locks' = [locks EXCEPT ![f.resource].expires_at = deadline]
  /\ frames' = [frames EXCEPT ![Len(frames)] = AnswersWith(f.token)]
  /\ early' = IF CutsShort(belief[f.holder][f.resource], f.token, deadline)
              THEN early \cup {<<f.resource, f.token>>} ELSE early
  /\ UNCHANGED <<clock, counter, stats, belief>>

-------------------------------------------------------------------------------
(* release, force_break, inspect, list_active, clear                           *)

\* release does not look at the clock: it also ends a lease that has expired but
\* was not cleaned yet, and counts it as released.  A listener may release a lease
\* whose holder is yet to be told that it has it.
Release(r, h, t) ==
  /\ CanCall
  /\ locks[r].active
  /\ OwnedBy(r, h, t)
  /\ locks' = Deactivated({r})
  /\ stats' = [stats EXCEPT !.releases = @ + 1]
  /\ GivesUp(h, r, t)
  /\ early' = IF Pending(r, t) THEN early \cup {<<r, t>>} ELSE early
  /\ UNCHANGED <<clock, counter, frames>>

ReleaseRefused(r, h, t) ==
  /\ CanCall
  /\ ~locks[r].active \/ ~OwnedBy(r, h, t)
  /\ GivesUp(h, r, t)
  /\ UNCHANGED <<clock, managerVars, frames, early>>

ForceBreak(r) ==
  /\ CanCall
  /\ locks[r].active
  /\ locks' = Deactivated({r})
  /\ stats' = [stats EXCEPT !.forced_breaks = @ + 1]
  /\ early' = early \cup {<<r, locks[r].fencing_token>>}
  /\ UNCHANGED <<clock, counter, frames, belief>>

\* list_active cleans one resource after the other.  What a listener does between
\* two of them is also what it does between two calls of inspect.
Inspect(r) ==
  /\ CanCall
  /\ CleanExpired({r}, clock)
  /\ UNCHANGED <<clock, counter, frames, callerVars>>

ListActive ==
  /\ CanCall
  /\ CleanExpired(Resources, clock)
  /\ UNCHANGED <<clock, counter, frames, callerVars>>

Clear ==
  /\ CanCall
  /\ locks' = [r \in Resources |-> Untracked]
  /\ counter' = ResetToken
  /\ stats' = ZeroStats
  /\ frames' = Detached(Resources)
  /\ UNCHANGED <<clock, callerVars>>

Tick ==
  /\ clock < MaxClock
  /\ clock' = clock + 1
  /\ UNCHANGED <<managerVars, frames, callerVars>>

-------------------------------------------------------------------------------
Issued == {t \in 1..counter : t > StartToken \/ t > ResetToken}

Call ==
  \/ \E r \in Resources, h \in Holders, d \in Requests : AcquireCall(r, h, d)
  \/ \E r \in Resources, h \in Holders, t \in Issued, e \in Requests : RenewCall(r, h, t, e)
  \/ \E r \in Resources, h \in Holders, t \in Issued : Release(r, h, t)
  \/ \E r \in Resources, h \in Holders, t \in Issued : ReleaseRefused(r, h, t)
  \/ \E r \in Resources : ForceBreak(r)
  \/ \E r \in Resources : Inspect(r)
  \/ ListActive

Proceed ==
  \/ AcquireConflict
  \/ AcquireReenter
  \/ AcquireGrant
  \/ RenewRefused
  \/ RenewExtend
  \/ AnswerNo
  \/ AnswerYes
  \/ CallRaises

Next == Call \/ Proceed \/ Tick

\* The manager as the API drives it, which never calls clear().
Spec == Init /\ [][Next]_vars

\* The manager with clear(), for the callers of the module itself.
NextOrClear == Next \/ Clear

ClearingSpec == Init /\ [][NextOrClear]_vars

-------------------------------------------------------------------------------
TypeOK ==
  /\ clock \in Nat
  /\ locks \in [Resources -> Lock]
  /\ counter \in Nat
  /\ stats \in Stats
  /\ frames \in Seq(Frame)
  /\ belief \in [Holders -> [Resources -> Belief]]
  /\ early \subseteq Resources \X Nat

ActiveResources == {r \in Resources : locks[r].active}

\* Every grant is accounted for: a lease is still active or was ended exactly
\* once, as a release, an expiry or a forced break.  It fails as soon as acquire
\* overwrites a record that is active, or two paths end the same lease.
Accounting ==
  stats.acquisitions =
    Cardinality(ActiveResources) + stats.releases + stats.expirations + stats.forced_breaks

\* A call that is yet to decide carries a `now` that no time reading precedes but
\* that time has overtaken: whatever ran since it cleaned its resource, a record
\* that is active there is not expired at that `now`.  This is why acquire may
\* treat "not held at now" as "not active".
StaleNowIsSafe ==
  \A i \in 1..Len(frames) :
    LET f == frames[i] IN f.op # "answer" => ~Lapsed(f.resource, f.now)

Live(h, r) == belief[h][r].deadline > clock

\* A holder that was told of a lease, whose deadline has not passed and which did
\* not end early, is backed by the manager's record: same holder, same token, and
\* the record lasts at least as long as the holder believes.  A lease ends early
\* in three ways: it is broken, a renewal shortens it and the answer is still on
\* its way or was lost, or a listener releases it while the answer that grants or
\* renews it is on its way.
BeliefBacked ==
  \A h \in Holders, r \in Resources :
    (Live(h, r) /\ <<r, belief[h][r].token>> \notin early) =>
      /\ locks[r].active
      /\ locks[r].holder = h
      /\ locks[r].fencing_token = belief[h][r].token
      /\ locks[r].expires_at >= belief[h][r].deadline

\* Exclusive leases: two holders can both rely on a lease of one resource only if
\* one of the two leases ended early, in one of the three ways of BeliefBacked.
MutualExclusion ==
  \A h, g \in Holders, r \in Resources :
    (h # g /\ Live(h, r) /\ Live(g, r))
      => early \cap {<<r, belief[h][r].token>>, <<r, belief[g][r].token>>} # {}

\* What the fencing token is for: when two holders do rely on one resource (see
\* MutualExclusion), their tokens differ, so that storage can refuse the older.
FencingDistinguishes ==
  \A h, g \in Holders, r \in Resources :
    (h # g /\ Live(h, r) /\ Live(g, r)) => belief[h][r].token # belief[g][r].token

\* The newest token wins: no holder knows a token above the one on record, and a
\* holder that knows the one on record is the holder on record.
NewestTokenOnRecord ==
  \A h \in Holders, r \in Resources :
    /\ belief[h][r].token <= locks[r].fencing_token
    /\ belief[h][r].token = locks[r].fencing_token => locks[r].holder \in {h, NoHolder}

\* The manager implements exclusive ownership with growing fencing tokens: a
\* record that is active is the owner, until it is cleaned, released or broken.
Free == [holder |-> NoHolder, token |-> 0]

OwnerOf(r) ==
  IF locks[r].active
  THEN [holder |-> locks[r].holder, token |-> locks[r].fencing_token]
  ELSE Free

Mutex == INSTANCE LeaseMutex WITH owner <- [r \in Resources |-> OwnerOf(r)], fence <- counter

ImplementsMutex == Mutex!AbstractSpec
===============================================================================
