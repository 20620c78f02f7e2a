----------------------------- MODULE LeasesProofs -----------------------------
(* Theorems about Leases, for any resources, holders, durations and bounds.    *)
EXTENDS Leases, FiniteSetTheorems, SequenceTheorems, TLAPS

-------------------------------------------------------------------------------
(* Helpers of the specification                                                *)

\* The clamp of a requested duration yields a positive duration.
LEMMA ClampType == ASSUME NEW d \in Int PROVE Clamp(d) \in Nat /\ Clamp(d) > 0
BY DurationAssumption DEF Clamp

\* A new innermost call leaves the calls around it as they are.
LEMMA PushFrame ==
  ASSUME NEW s \in Seq(Frame), NEW f \in Frame
  PROVE  /\ Append(s, f) \in Seq(Frame)
         /\ Len(Append(s, f)) = Len(s) + 1
         /\ Append(s, f)[Len(s) + 1] = f
         /\ \A i \in 1..Len(s) : Append(s, f)[i] = s[i]
OBVIOUS

\* The innermost call is a frame.
LEMMA TopFrame ==
  ASSUME NEW s \in Seq(Frame), s # <<>>
  PROVE  Len(s) \in Nat /\ Len(s) >= 1 /\ s[Len(s)] \in Frame
OBVIOUS

\* When the innermost call returns, the calls around it are as they were.
LEMMA PopFrame ==
  ASSUME NEW s \in Seq(Frame), s # <<>>
  PROVE  LET p == SubSeq(s, 1, Len(s) - 1)
         IN  /\ p \in Seq(Frame)
             /\ Len(p) = Len(s) - 1
             /\ \A i \in 1..Len(p) : p[i] = s[i]
<1>1. Len(s) \in Nat /\ Len(s) >= 1 /\ \A i \in 1..Len(s) - 1 : s[i] \in Frame
  OBVIOUS
<1> DEFINE n == Len(s) - 1
           p == SubSeq(s, 1, n)
<1>2. /\ p \in Seq(Frame)
      /\ Len(p) = IF 1 <= n THEN n - 1 + 1 ELSE 0
      /\ \A i \in 1..n - 1 + 1 : p[i] = s[1 + i - 1]
  BY <1>1, SubSeqProperties
<1>3. n \in Nat
  BY <1>1
<1>4. Len(p) = n /\ \A i \in 1..n : p[i] = s[i]
  <2> HIDE DEF n, p
  <2> QED BY <1>2, <1>3
<1> QED BY <1>2, <1>4

\* A call that goes on as another one leaves the calls around it as they are.
LEMMA ReplaceFrame ==
  ASSUME NEW s \in Seq(Frame), s # <<>>, NEW f \in Frame
  PROVE  LET p == [s EXCEPT ![Len(s)] = f]
         IN  /\ p \in Seq(Frame)
             /\ Len(p) = Len(s)
             /\ p[Len(s)] = f
             /\ \A i \in 1..Len(s) - 1 : p[i] = s[i]
<1>1. Len(s) \in 1..Len(s)
  OBVIOUS
<1> QED BY <1>1, ExceptSeq

\* Deactivating records keeps the lock table well typed.
LEMMA DeactivatedType ==
  ASSUME TypeOK, NEW R
  PROVE  Deactivated(R) \in [Resources -> Lock]
BY DEF TypeOK, Deactivated, Lock

\* Cleaning expired records keeps the lock table and the counters well typed.
LEMMA CleanExpiredType ==
  ASSUME TypeOK, NEW R \in SUBSET Resources, NEW now \in Nat, CleanExpired(R, now)
  PROVE  locks' \in [Resources -> Lock] /\ stats' \in Stats
<1> DEFINE gone == {r \in R : Lapsed(r, now)}
<1>1. locks' \in [Resources -> Lock]
  BY DeactivatedType DEF CleanExpired
<1>2. Cardinality(gone) \in Nat
  <2>1. IsFiniteSet(gone)
    BY ResourcesAssumption, FS_Subset
  <2> QED BY <2>1, FS_CardinalityType
<1>3. stats' = [stats EXCEPT !.expirations = @ + Cardinality(gone)]
  BY DEF CleanExpired
<1>4. stats \in Stats
  BY DEF TypeOK
<1> HIDE DEF gone
<1> QED BY <1>1, <1>2, <1>3, <1>4 DEF Stats

\* The frame of a call that starts now is well typed.
LEMMA EnteredType ==
  ASSUME TypeOK, NEW op \in {"acquire", "renew"}, NEW r \in Resources, NEW h \in Holders,
         NEW t \in Nat, NEW d \in Nat
  PROVE  Entered(op, r, h, t, d) \in Frame
BY DEF Entered, Frame, TypeOK

LEMMA EnterType ==
  ASSUME TypeOK, NEW op \in {"acquire", "renew"}, NEW r \in Resources, NEW h \in Holders,
         NEW t \in Nat, NEW d \in Nat, Enter(op, r, h, t, d)
  PROVE  TypeOK'
<1>1. locks' \in [Resources -> Lock] /\ stats' \in Stats
  BY CleanExpiredType DEF Enter, TypeOK
<1>2. frames' \in Seq(Frame)
  BY EnteredType, PushFrame DEF Enter, TypeOK
<1> QED BY <1>1, <1>2 DEF Enter, TypeOK, callerVars

\* One more event of a kind keeps the counters well typed.
LEMMA CountType ==
  ASSUME TypeOK
  PROVE  /\ [stats EXCEPT !.acquisitions = @ + 1] \in Stats
         /\ [stats EXCEPT !.releases = @ + 1] \in Stats
         /\ [stats EXCEPT !.forced_breaks = @ + 1] \in Stats
<1>1. [stats EXCEPT !.acquisitions = @ + 1] \in Stats
  BY DEF TypeOK, Stats
<1>2. [stats EXCEPT !.releases = @ + 1] \in Stats
  BY DEF TypeOK, Stats
<1>3. [stats EXCEPT !.forced_breaks = @ + 1] \in Stats
  BY DEF TypeOK, Stats
<1> QED BY <1>1, <1>2, <1>3

\* What a holder makes of an answer keeps the beliefs well typed.
LEMMA ToldType ==
  ASSUME TypeOK, NEW h \in Holders, NEW r \in Resources, NEW b \in Belief, Told(h, r, b)
  PROVE  belief' \in [Holders -> [Resources -> Belief]]
<1>1. [belief[h] EXCEPT ![r] = b] \in [Resources -> Belief]
  BY DEF TypeOK
<1>2. belief' = [belief EXCEPT ![h] = [belief[h] EXCEPT ![r] = b]]
  BY DEF Told, TypeOK
<1> QED BY <1>1, <1>2 DEF TypeOK

LEMMA NoBeliefType == NoBelief \in Belief
BY DEF NoBelief, Belief

LEMMA GivesUpType ==
  ASSUME TypeOK, NEW h \in Holders, NEW r \in Resources, NEW t, GivesUp(h, r, t)
  PROVE  belief' \in [Holders -> [Resources -> Belief]]
BY ToldType, NoBeliefType DEF GivesUp, TypeOK

LEMMA CallType ==
  ASSUME TypeOK, Call
  PROVE  TypeOK'
<1>0. \A r \in Resources : Deactivated({r}) \in [Resources -> Lock]
  BY DeactivatedType
<1>1. ASSUME NEW r \in Resources, NEW h \in Holders, NEW d \in Requests, AcquireCall(r, h, d)
      PROVE  TypeOK'
  BY <1>1, ClampType, EnterType, RequestsAssumption DEF AcquireCall
<1>2. ASSUME NEW r \in Resources, NEW h \in Holders, NEW t \in Issued, NEW e \in Requests,
             RenewCall(r, h, t, e)
      PROVE  TypeOK'
  <2>1. t \in Nat /\ Clamp(e) \in Nat
    BY ClampType, RequestsAssumption DEF Issued, TypeOK
  <2> QED BY <1>2, <2>1, EnterType DEF RenewCall
<1>3. ASSUME NEW r \in Resources, NEW h \in Holders, NEW t \in Issued, Release(r, h, t)
      PROVE  TypeOK'
  <2>1. t \in Nat
    BY DEF Issued, TypeOK
  <2>2. early' \subseteq Resources \X Nat
    BY <1>3, <2>1 DEF Release, TypeOK
  <2> QED BY <1>3, <1>0, <2>2, CountType, GivesUpType DEF Release, TypeOK
<1>4. ASSUME NEW r \in Resources, NEW h \in Holders, NEW t \in Issued, ReleaseRefused(r, h, t)
      PROVE  TypeOK'
  BY <1>4, GivesUpType DEF ReleaseRefused, managerVars, TypeOK
<1>5. ASSUME NEW r \in Resources, ForceBreak(r)
      PROVE  TypeOK'
  <2>1. locks[r].fencing_token \in Nat
    BY DEF TypeOK, Lock
  <2> QED BY <1>5, <1>0, <2>1, CountType DEF ForceBreak, TypeOK
<1>6. ASSUME NEW r \in Resources, Inspect(r)
      PROVE  TypeOK'
  <2>1. clock \in Nat /\ {r} \in SUBSET Resources
    BY DEF TypeOK
  <2>2. locks' \in [Resources -> Lock] /\ stats' \in Stats
    BY <1>6, <2>1, CleanExpiredType DEF Inspect
  <2> QED BY <1>6, <2>2 DEF Inspect, callerVars, TypeOK
<1>7. CASE ListActive
  BY <1>7, CleanExpiredType DEF ListActive, callerVars, TypeOK
<1> QED BY <1>1, <1>2, <1>3, <1>4, <1>5, <1>6, <1>7 DEF Call

\* A call that is about to answer is a frame.
LEMMA AnswerFrame ==
  ASSUME TypeOK, InCall, NEW t \in Nat
  PROVE  /\ AnswersWith(t) \in Frame
         /\ AnswersWith(t).op = "answer"
         /\ AnswersWith(t).resource = Top.resource
         /\ AnswersWith(t).holder = Top.holder
         /\ AnswersWith(t).token = t
         /\ AnswersWith(t).final = OnRecord
<1>1. Top \in Frame
  BY TopFrame DEF InCall, Top, TypeOK
<1> QED BY <1>1 DEF AnswersWith, Frame

\* Replacing records changes no more than the final deadline of the answers that
\* are on their way.
LEMMA DetachedFrames ==
  ASSUME TypeOK, NEW R
  PROVE  /\ Detached(R) \in Seq(Frame)
         /\ Len(Detached(R)) = Len(frames)
         /\ \A i \in 1..Len(frames) :
              Detached(R)[i] =
                IF Answers(frames[i]) /\ frames[i].resource \in R /\ frames[i].final = OnRecord
                THEN [frames[i] EXCEPT !.final = locks[frames[i].resource].expires_at]
                ELSE frames[i]
<1>1. frames \in Seq(Frame) /\ Len(frames) \in Nat /\ \A i \in 1..Len(frames) : frames[i] \in Frame
  BY DEF TypeOK
<1> DEFINE e(i) == IF Answers(frames[i]) /\ frames[i].resource \in R /\ frames[i].final = OnRecord
                   THEN [frames[i] EXCEPT !.final = locks[frames[i].resource].expires_at]
                   ELSE frames[i]
<1>2. \A i \in 1..Len(frames) : e(i) \in Frame
  <2> SUFFICES ASSUME NEW i \in 1..Len(frames) PROVE e(i) \in Frame
    OBVIOUS
  <2>1. frames[i] \in Frame
    BY <1>1
  <2>2. locks[frames[i].resource].expires_at \in Nat
    BY <2>1 DEF TypeOK, Lock, Frame
  <2>3. [frames[i] EXCEPT !.final = locks[frames[i].resource].expires_at] \in Frame
    BY <2>1, <2>2 DEF Frame
  <2> QED BY <2>1, <2>3
<1>3. Detached(R) = [i \in 1..Len(frames) |-> e(i)]
  BY DEF Detached
<1> HIDE DEF e
<1>4. [i \in 1..Len(frames) |-> e(i)] \in Seq(Frame)
      /\ Len([i \in 1..Len(frames) |-> e(i)]) = Len(frames)
  BY <1>1, <1>2
<1> QED BY <1>3, <1>4 DEF e

\* The frames after a grant.
LEMMA GrantFrames ==
  ASSUME TypeOK, AcquireGrant
  PROVE  /\ frames' \in Seq(Frame) /\ Len(frames') = Len(frames)
         /\ Len(frames) \in Nat /\ Len(frames) >= 1
         /\ frames'[Len(frames)] = AnswersWith(counter + 1)
         /\ \A i \in 1..Len(frames) - 1 :
              frames'[i] = IF /\ Answers(frames[i]) /\ frames[i].resource = Top.resource
                              /\ frames[i].final = OnRecord
                           THEN [frames[i] EXCEPT !.final = locks[Top.resource].expires_at]
                           ELSE frames[i]
<1>1. /\ InCall /\ counter + 1 \in Nat /\ Len(frames) \in Nat /\ Len(frames) >= 1
      /\ frames' = [Detached({Top.resource}) EXCEPT ![Len(frames)] = AnswersWith(counter + 1)]
  BY TopFrame DEF AcquireGrant, NextToken, Deciding, InCall, TypeOK
<1> DEFINE D == Detached({Top.resource})
           f == AnswersWith(counter + 1)
<1>2. /\ D \in Seq(Frame) /\ Len(D) = Len(frames)
      /\ \A i \in 1..Len(frames) :
           D[i] = IF Answers(frames[i]) /\ frames[i].resource \in {Top.resource}
                     /\ frames[i].final = OnRecord
                  THEN [frames[i] EXCEPT !.final = locks[frames[i].resource].expires_at]
                  ELSE frames[i]
  BY DetachedFrames
<1>3. f \in Frame
  BY <1>1, AnswerFrame
<1>4. \A i \in 1..Len(frames) - 1 : i \in 1..Len(frames)
  BY <1>1
<1>5. frames' = [D EXCEPT ![Len(D)] = f]
  BY <1>1, <1>2
<1> HIDE DEF D, f
<1>6. D # <<>>
  BY <1>1, <1>2
<1>7. /\ frames' \in Seq(Frame) /\ Len(frames') = Len(frames)
      /\ frames'[Len(frames)] = f
      /\ \A i \in 1..Len(frames) - 1 : frames'[i] = D[i]
  BY <1>2, <1>3, <1>5, <1>6, ReplaceFrame
<1>8. ASSUME NEW i \in 1..Len(frames) - 1
      PROVE  frames'[i] = IF /\ Answers(frames[i]) /\ frames[i].resource = Top.resource
                             /\ frames[i].final = OnRecord
                          THEN [frames[i] EXCEPT !.final = locks[Top.resource].expires_at]
                          ELSE frames[i]
  BY <1>2, <1>4, <1>7
<1> QED BY <1>1, <1>7, <1>8 DEF f

\* The frames after a call has published what it did, other than a grant.
LEMMA AnswerFrames ==
  ASSUME TypeOK, InCall, NEW t \in Nat, frames' = [frames EXCEPT ![Len(frames)] = AnswersWith(t)]
  PROVE  /\ frames' \in Seq(Frame) /\ Len(frames') = Len(frames)
         /\ Len(frames) \in Nat /\ Len(frames) >= 1
         /\ frames'[Len(frames)] = AnswersWith(t)
         /\ \A i \in 1..Len(frames) - 1 : frames'[i] = frames[i]
<1>1. AnswersWith(t) \in Frame
  BY AnswerFrame
<1>2. frames \in Seq(Frame) /\ frames # <<>>
  BY DEF TypeOK, InCall
<1> HIDE DEF AnswersWith
<1> QED BY <1>1, <1>2, TopFrame, ReplaceFrame

\* The frames after the innermost call has returned.
LEMMA PopFrames ==
  ASSUME TypeOK, InCall, Pop
  PROVE  /\ frames' \in Seq(Frame) /\ Len(frames') = Len(frames) - 1
         /\ Len(frames) \in Nat /\ Len(frames) >= 1
         /\ \A i \in 1..Len(frames) - 1 : frames'[i] = frames[i]
BY TopFrame, PopFrame DEF Pop, InCall, TypeOK

LEMMA ProceedType ==
  ASSUME TypeOK, Proceed
  PROVE  TypeOK'
<1>a. InCall
  BY DEF Proceed, Deciding, AcquireConflict, AcquireReenter, AcquireGrant, NextToken, RenewRefused,
     RenewExtend, AnswerNo, AnswerYes, CallRaises
<1>b. Top \in Frame
  BY <1>a, TopFrame DEF InCall, Top, TypeOK
<1>c. Top.holder \in Holders /\ Top.resource \in Resources /\ Top.token \in Nat
      /\ Top.now + Top.duration \in Nat
  BY <1>b DEF Frame
<1>1. CASE AcquireConflict
  <2>1. frames' \in Seq(Frame)
    BY <1>a, <1>1, AnswerFrames DEF AcquireConflict
  <2> QED BY <1>1, <2>1 DEF AcquireConflict, managerVars, callerVars, TypeOK
<1>2. CASE AcquireReenter
  <2>1. locks' \in [Resources -> Lock] /\ stats' \in Stats
    BY <1>c, <1>2, CleanExpiredType DEF AcquireReenter, TypeOK, Frame
  <2>2. Entered("renew", Top.resource, Top.holder, locks[Top.resource].fencing_token, Top.duration)
          \in Frame
    BY <1>b, EnteredType DEF TypeOK, Frame, Lock
  <2>3. frames' \in Seq(Frame)
    BY <1>a, <1>2, <2>2, ReplaceFrame DEF AcquireReenter, InCall, TypeOK
  <2> QED BY <1>2, <2>1, <2>3 DEF AcquireReenter, callerVars, TypeOK
<1>3. CASE AcquireGrant
  <2>1. locks' \in [Resources -> Lock] /\ counter' \in Nat
    BY <1>c, <1>3 DEF AcquireGrant, NextToken, TypeOK, Lock
  <2>2. stats' \in Stats
    BY <1>3, CountType DEF AcquireGrant, NextToken
  <2>3. frames' \in Seq(Frame)
    BY <1>3, GrantFrames
  <2> QED BY <1>3, <2>1, <2>2, <2>3 DEF AcquireGrant, NextToken, callerVars, TypeOK
<1>4. CASE RenewRefused
  <2>1. belief' \in [Holders -> [Resources -> Belief]]
    BY <1>c, <1>4, GivesUpType DEF RenewRefused
  <2>2. frames' \in Seq(Frame)
    BY <1>a, <1>4, PopFrames DEF RenewRefused
  <2> QED BY <1>4, <2>1, <2>2 DEF RenewRefused, managerVars, TypeOK
<1>5. CASE RenewExtend
  <2>1. locks' \in [Resources -> Lock]
    BY <1>c, <1>5 DEF RenewExtend, TypeOK, Lock
  <2>2. frames' \in Seq(Frame)
    BY <1>a, <1>c, <1>5, AnswerFrames DEF RenewExtend
  <2>3. early' \subseteq Resources \X Nat
    BY <1>c, <1>5 DEF RenewExtend, TypeOK
  <2> QED BY <1>5, <2>1, <2>2, <2>3 DEF RenewExtend, TypeOK
<1>6. CASE AnswerNo
  <2>1. belief' \in [Holders -> [Resources -> Belief]]
    BY <1>c, <1>6, ToldType, NoBeliefType DEF AnswerNo
  <2>2. frames' \in Seq(Frame)
    BY <1>6, PopFrames DEF AnswerNo
  <2> QED BY <1>6, <2>1, <2>2 DEF AnswerNo, managerVars, TypeOK
<1>7. CASE AnswerYes
  <2>1. DeadlineOf(Top, locks[Top.resource]) \in Nat
    <3>1. locks[Top.resource].expires_at \in Nat
      BY <1>c DEF TypeOK, Lock
    <3> QED BY <1>b, <3>1 DEF DeadlineOf, Frame
  <2>2. [token |-> Top.token, deadline |-> DeadlineOf(Top, locks[Top.resource])] \in Belief
    BY <1>c, <2>1 DEF Belief
  <2>3. belief' \in [Holders -> [Resources -> Belief]]
    BY <1>c, <1>7, <2>2, ToldType DEF AnswerYes
  <2>4. frames' \in Seq(Frame)
    BY <1>7, PopFrames DEF AnswerYes
  <2>5. early' \subseteq Resources \X Nat
    BY <1>7 DEF AnswerYes, TypeOK
  <2> QED BY <1>7, <2>3, <2>4, <2>5 DEF AnswerYes, managerVars, TypeOK
<1>8. CASE CallRaises
  <2>1. frames' \in Seq(Frame)
    BY <1>8, PopFrames DEF CallRaises
  <2> QED BY <1>8, <2>1 DEF CallRaises, managerVars, callerVars, TypeOK
<1> QED BY <1>1, <1>2, <1>3, <1>4, <1>5, <1>6, <1>7, <1>8 DEF Proceed

-------------------------------------------------------------------------------
(* Type correctness, with clear() among the calls                              *)

LEMMA InitType == Init => TypeOK
BY TokenAssumption DEF Init, TypeOK, Untracked, Lock, ZeroStats, Stats, NoBelief, Belief

LEMMA StepType == TypeOK /\ [NextOrClear]_vars => TypeOK'
<1> SUFFICES ASSUME TypeOK, [NextOrClear]_vars PROVE TypeOK'
  OBVIOUS
<1>1. CASE Call
  BY <1>1, CallType
<1>2. CASE Proceed
  BY <1>2, ProceedType
<1>3. CASE Tick
  BY <1>3 DEF Tick, managerVars, callerVars, TypeOK
<1>4. CASE Clear
  BY <1>4, TokenAssumption, DetachedFrames
     DEF Clear, callerVars, TypeOK, Untracked, Lock, ZeroStats, Stats
<1>5. CASE UNCHANGED vars
  BY <1>5 DEF vars, TypeOK
<1> QED BY <1>1, <1>2, <1>3, <1>4, <1>5 DEF NextOrClear, Next

\* Every reachable state of the manager, cleared or not, is well typed.
THEOREM TypeCorrect == ClearingSpec => []TypeOK
<1> QED BY InitType, StepType, PTL DEF ClearingSpec

-------------------------------------------------------------------------------
(* A `now` read before a callback is still good after it                       *)

\* Calls that are yet to decide read the clock in the order in which they are
\* nested, and none of them asks for an empty lease.
FramesOrdered ==
  /\ \A i \in 1..Len(frames) :
       frames[i].op # "answer" => frames[i].now <= clock /\ frames[i].duration > 0
  /\ \A i, j \in 1..Len(frames) :
       (i <= j /\ frames[i].op # "answer" /\ frames[j].op # "answer")
         => frames[i].now <= frames[j].now

TimeInv == TypeOK /\ FramesOrdered /\ StaleNowIsSafe

\* No record changes other than by ending.
OnlyEnds == \A r \in Resources : locks'[r].active => locks'[r] = locks[r]

\* Deactivating records, and cleaning them, only ends leases.
LEMMA DeactivatedOnlyEnds ==
  ASSUME TypeOK, NEW R, locks' = Deactivated(R)
  PROVE  OnlyEnds
BY DEF TypeOK, Lock, Deactivated, OnlyEnds

LEMMA CleanOnlyEnds ==
  ASSUME TypeOK, NEW R \in SUBSET Resources, NEW now \in Nat, CleanExpired(R, now)
  PROVE  OnlyEnds /\ \A r \in R : ~Lapsed(r, now)'
<1>1. OnlyEnds
  BY DeactivatedOnlyEnds DEF CleanExpired
<1>2. \A r \in R : locks'[r] =
        IF Lapsed(r, now) THEN [locks[r] EXCEPT !.active = FALSE] ELSE locks[r]
  BY DEF CleanExpired, Deactivated
<1>3. \A r \in R : ~(locks'[r].active /\ Expired(locks'[r], now))
  BY <1>2 DEF TypeOK, Lock, Lapsed
<1> QED BY <1>1, <1>3 DEF Lapsed

\* The calls that are yet to decide were there before.
SameUndecided ==
  /\ Len(frames') \in Nat
  /\ \A i \in 1..Len(frames') :
       frames'[i].op # "answer" => i \in 1..Len(frames) /\ frames'[i] = frames[i]

\* As long as leases only end and the calls that are yet to decide are calls that
\* were there before, nothing about them changes.
LEMMA QuietStep ==
  ASSUME TimeInv, OnlyEnds, SameUndecided, clock' >= clock, clock' \in Nat
  PROVE  FramesOrdered' /\ StaleNowIsSafe'
<1>0. frames \in Seq(Frame) /\ Len(frames) \in Nat /\ clock \in Nat
  BY DEF TimeInv, TypeOK
<1>2. \A i \in 1..Len(frames) : frames[i].now \in Nat /\ frames[i].resource \in Resources
  <2>1. \A i \in 1..Len(frames) : frames[i] \in Frame
    BY <1>0
  <2> QED BY <2>1 DEF Frame
<1>3. FramesOrdered'
  <2>1. ASSUME NEW i \in 1..Len(frames'), frames'[i].op # "answer"
        PROVE  frames'[i].now <= clock' /\ frames'[i].duration > 0
    <3>1. i \in 1..Len(frames) /\ frames'[i] = frames[i]
      BY <2>1 DEF SameUndecided
    <3>2. frames[i].now <= clock /\ frames[i].duration > 0 /\ frames[i].now \in Nat
      BY <1>2, <2>1, <3>1 DEF TimeInv, FramesOrdered
    <3> QED BY <1>0, <3>1, <3>2
  <2>2. \A i, j \in 1..Len(frames') :
          (i <= j /\ frames'[i].op # "answer" /\ frames'[j].op # "answer")
            => frames'[i].now <= frames'[j].now
    BY DEF TimeInv, FramesOrdered, SameUndecided
  <2> QED BY <2>1, <2>2 DEF FramesOrdered
<1>4. ASSUME NEW i \in 1..Len(frames'), frames'[i].op # "answer",
             locks'[frames'[i].resource].active,
             Expired(locks'[frames'[i].resource], frames'[i].now)
      PROVE  FALSE
  <2>1. i \in 1..Len(frames) /\ frames'[i] = frames[i]
    BY <1>4 DEF SameUndecided
  <2> QED BY <1>2, <1>4, <2>1 DEF TimeInv, StaleNowIsSafe, OnlyEnds, Lapsed
<1> QED BY <1>3, <1>4 DEF StaleNowIsSafe, Lapsed

\* The innermost call returns.
LEMMA PopStep ==
  ASSUME TimeInv, OnlyEnds, InCall, Pop, clock' = clock
  PROVE  FramesOrdered' /\ StaleNowIsSafe'
<1>1. clock \in Nat /\ TypeOK
  BY DEF TimeInv, TypeOK
<1>2. SameUndecided
  BY <1>1, PopFrames DEF SameUndecided
<1> QED BY <1>1, <1>2, QuietStep

\* A call starts: its own resource is clean at the `now` it has just read, which
\* no call around it has read before.
LEMMA EnterStep ==
  ASSUME TimeInv, NEW op \in {"acquire", "renew"}, NEW r \in Resources, NEW h \in Holders,
         NEW t \in Nat, NEW d \in Nat, d > 0, Enter(op, r, h, t, d)
  PROVE  FramesOrdered' /\ StaleNowIsSafe'
<1> DEFINE f == Entered(op, r, h, t, d)
<1>0. TypeOK /\ clock \in Nat /\ clock' = clock /\ frames \in Seq(Frame) /\ f \in Frame
  BY EnteredType DEF TimeInv, TypeOK, Enter
<1>1. OnlyEnds /\ ~Lapsed(r, clock)'
  BY <1>0, CleanOnlyEnds DEF Enter
<1>2. f.resource = r /\ f.now = clock /\ f.duration = d
  BY DEF Entered
<1> HIDE DEF f
<1>3. /\ Len(frames') = Len(frames) + 1
      /\ frames'[Len(frames) + 1] = f
      /\ \A i \in 1..Len(frames) : frames'[i] = frames[i]
  BY <1>0, PushFrame DEF Enter, f
<1>4. Len(frames) \in Nat /\ \A i \in 1..Len(frames') : i \in 1..Len(frames) \/ i = Len(frames) + 1
  BY <1>0, <1>3
<1>5. \A i \in 1..Len(frames) : frames[i].now \in Nat /\ frames[i].resource \in Resources
  <2>1. \A i \in 1..Len(frames) : frames[i] \in Frame
    BY <1>0
  <2> QED BY <2>1 DEF Frame
<1>6. FramesOrdered'
  <2>1. \A i \in 1..Len(frames') :
          frames'[i].op # "answer" => frames'[i].now <= clock /\ frames'[i].duration > 0
    BY <1>0, <1>2, <1>3, <1>4 DEF TimeInv, FramesOrdered
  <2>2. ASSUME NEW i \in 1..Len(frames'), NEW j \in 1..Len(frames'), i <= j,
               frames'[i].op # "answer", frames'[j].op # "answer"
        PROVE  frames'[i].now <= frames'[j].now
    <3>1. CASE j = Len(frames) + 1
      BY <1>2, <1>3, <2>1, <2>2, <3>1
    <3>2. CASE j \in 1..Len(frames)
      <4>1. i \in 1..Len(frames)
        BY <1>4, <2>2, <3>2
      <4> QED BY <1>3, <2>2, <3>2, <4>1 DEF TimeInv, FramesOrdered
    <3> QED BY <1>4, <3>1, <3>2
  <2> QED BY <1>0, <2>1, <2>2 DEF FramesOrdered
<1>7. ASSUME NEW i \in 1..Len(frames'), frames'[i].op # "answer",
             locks'[frames'[i].resource].active,
             Expired(locks'[frames'[i].resource], frames'[i].now)
      PROVE  FALSE
  <2>1. CASE i = Len(frames) + 1
    BY <1>0, <1>1, <1>2, <1>3, <1>7, <2>1 DEF Lapsed
  <2>2. CASE i \in 1..Len(frames)
    BY <1>1, <1>3, <1>5, <1>7, <2>2 DEF TimeInv, StaleNowIsSafe, OnlyEnds, Lapsed
  <2> QED BY <1>4, <2>1, <2>2
<1> QED BY <1>6, <1>7 DEF StaleNowIsSafe, Lapsed

\* An acquisition by the holder itself goes on as a renewal: the same, with the
\* innermost call replaced.
LEMMA ReenterStep ==
  ASSUME TimeInv, AcquireReenter
  PROVE  FramesOrdered' /\ StaleNowIsSafe'
<1> DEFINE n == Len(frames)
<1>0. /\ TypeOK /\ clock \in Nat /\ clock' = clock /\ frames \in Seq(Frame)
      /\ n \in Nat /\ n >= 1 /\ Top \in Frame /\ Top = frames[n] /\ Top.op # "answer"
  BY TopFrame DEF TimeInv, TypeOK, AcquireReenter, Deciding, InCall, Top
<1>a. PICK r \in Resources : r = Top.resource
  BY <1>0 DEF Frame
<1> DEFINE f == Entered("renew", r, Top.holder, locks[r].fencing_token, Top.duration)
<1>1. Top.holder \in Holders /\ Top.duration \in Nat /\ locks[r].fencing_token \in Nat
  BY <1>0 DEF TypeOK, Frame, Lock
<1>2. f \in Frame /\ f.resource = r /\ f.now = clock /\ f.duration = Top.duration
  BY <1>0, <1>1, EnteredType DEF Entered
<1>3. OnlyEnds /\ ~Lapsed(r, clock)'
  BY <1>0, <1>a, CleanOnlyEnds DEF AcquireReenter
<1>4. frames' = [frames EXCEPT ![n] = f]
  BY <1>a DEF AcquireReenter
<1> HIDE DEF f
<1>5. /\ Len(frames') = n
      /\ frames'[n] = f
      /\ \A i \in 1..n - 1 : frames'[i] = frames[i]
  BY <1>0, <1>2, <1>4, ReplaceFrame
<1>6. \A i \in 1..n : frames[i].now \in Nat /\ frames[i].resource \in Resources
  <2>1. \A i \in 1..n : frames[i] \in Frame
    BY <1>0
  <2> QED BY <2>1 DEF Frame
<1>7. \A i \in 1..n : i = n \/ i \in 1..n - 1
  BY <1>0
<1>8. FramesOrdered'
  <2>1. \A i \in 1..n :
          frames'[i].op # "answer" => frames'[i].now <= clock /\ frames'[i].duration > 0
    BY <1>0, <1>2, <1>5, <1>7 DEF TimeInv, FramesOrdered
  <2>2. ASSUME NEW i \in 1..n, NEW j \in 1..n, i <= j,
               frames'[i].op # "answer", frames'[j].op # "answer"
        PROVE  frames'[i].now <= frames'[j].now
    <3>1. CASE j = n
      BY <1>2, <1>5, <2>1, <2>2, <3>1
    <3>2. CASE j \in 1..n - 1
      <4>1. i \in 1..n - 1
        BY <1>0, <2>2, <3>2
      <4> QED BY <1>5, <2>2, <3>2, <4>1 DEF TimeInv, FramesOrdered
    <3> QED BY <1>7, <3>1, <3>2
  <2> QED BY <1>0, <1>5, <2>1, <2>2 DEF FramesOrdered
<1>9. ASSUME NEW i \in 1..n, frames'[i].op # "answer", locks'[frames'[i].resource].active,
             Expired(locks'[frames'[i].resource], frames'[i].now)
      PROVE  FALSE
  <2>1. CASE i = n
    BY <1>0, <1>2, <1>3, <1>5, <1>9, <2>1 DEF Lapsed
  <2>2. CASE i \in 1..n - 1
    BY <1>3, <1>5, <1>6, <1>9, <2>2 DEF TimeInv, StaleNowIsSafe, OnlyEnds, Lapsed
  <2> QED BY <1>7, <2>1, <2>2
<1> QED BY <1>5, <1>8, <1>9 DEF StaleNowIsSafe, Lapsed

\* The innermost call decides, and leaves a record that outlasts its `now`, hence
\* that of every call around it.
LEMMA WriteStep ==
  ASSUME TimeInv, InCall, Top.op # "answer", SameUndecided, clock' = clock,
         Len(frames') = Len(frames), frames'[Len(frames)].op = "answer",
         \A r \in Resources : r # Top.resource => locks'[r] = locks[r],
         locks'[Top.resource].expires_at = Top.now + Top.duration
  PROVE  FramesOrdered' /\ StaleNowIsSafe'
<1> DEFINE n == Len(frames)
<1>1. /\ frames \in Seq(Frame) /\ clock \in Nat
      /\ n \in Nat /\ n >= 1 /\ Top \in Frame /\ Top = frames[n]
  BY TopFrame DEF TimeInv, TypeOK, InCall, Top
<1>2. \A i \in 1..n : frames[i].now \in Nat /\ frames[i].resource \in Resources
  <2>1. \A i \in 1..n : frames[i] \in Frame
    BY <1>1
  <2> QED BY <2>1 DEF Frame
<1>3. FramesOrdered'
  BY <1>1 DEF TimeInv, FramesOrdered, SameUndecided
<1>4. ASSUME NEW i \in 1..n, frames'[i].op # "answer", locks'[frames'[i].resource].active,
             Expired(locks'[frames'[i].resource], frames'[i].now)
      PROVE  FALSE
  <2>1. frames'[i] = frames[i] /\ frames[i].op # "answer"
    BY <1>4 DEF SameUndecided
  <2>2. CASE frames[i].resource = Top.resource
    <3>1. n \in 1..n /\ i <= n /\ Top.now \in Nat /\ Top.duration \in Nat
      BY <1>1 DEF Frame
    <3>2. frames[i].now <= Top.now /\ Top.duration > 0
      BY <1>1, <2>1, <3>1 DEF TimeInv, FramesOrdered
    <3> QED BY <1>2, <1>4, <2>1, <2>2, <3>1, <3>2 DEF Expired
  <2>3. CASE frames[i].resource # Top.resource
    BY <1>2, <1>4, <2>1, <2>3 DEF TimeInv, StaleNowIsSafe, Lapsed
  <2> QED BY <2>2, <2>3
<1> QED BY <1>3, <1>4 DEF StaleNowIsSafe, Lapsed

\* No calls in progress change.
LEMMA SameFrames ==
  ASSUME TimeInv, OnlyEnds, frames' = frames, clock' = clock
  PROVE  FramesOrdered' /\ StaleNowIsSafe'
<1>1. clock \in Nat /\ Len(frames) \in Nat
  BY DEF TimeInv, TypeOK
<1> QED BY <1>1, QuietStep DEF SameUndecided

LEMMA InitTime == Init => TimeInv
<1> SUFFICES ASSUME Init PROVE TimeInv
  OBVIOUS
<1>1. frames = <<>>
  BY DEF Init
<1>2. FramesOrdered /\ StaleNowIsSafe
  BY <1>1 DEF FramesOrdered, StaleNowIsSafe
<1> QED BY <1>2, InitType DEF TimeInv

LEMMA StepTime == TimeInv /\ [NextOrClear]_vars => TimeInv'
<1> SUFFICES ASSUME TimeInv, [NextOrClear]_vars PROVE FramesOrdered' /\ StaleNowIsSafe'
  BY StepType DEF TimeInv
<1>0. TypeOK /\ clock \in Nat /\ Resources \in SUBSET Resources
  BY DEF TimeInv, TypeOK
<1>1. ASSUME NEW r \in Resources, NEW h \in Holders, NEW d \in Requests, AcquireCall(r, h, d)
      PROVE  FramesOrdered' /\ StaleNowIsSafe'
  <2>1. Clamp(d) \in Nat /\ Clamp(d) > 0 /\ 0 \in Nat
    BY ClampType, RequestsAssumption
  <2> QED BY <1>1, <2>1, EnterStep DEF AcquireCall
<1>2. ASSUME NEW r \in Resources, NEW h \in Holders, NEW t \in Issued, NEW e \in Requests,
             RenewCall(r, h, t, e)
      PROVE  FramesOrdered' /\ StaleNowIsSafe'
  <2>1. Clamp(e) \in Nat /\ Clamp(e) > 0 /\ t \in Nat
    BY ClampType, RequestsAssumption, <1>0 DEF Issued, TypeOK
  <2> QED BY <1>2, <2>1, EnterStep DEF RenewCall
<1>3. ASSUME NEW r \in Resources, NEW h \in Holders, NEW t \in Issued, Release(r, h, t)
      PROVE  FramesOrdered' /\ StaleNowIsSafe'
  BY <1>0, <1>3, DeactivatedOnlyEnds, SameFrames DEF Release
<1>4. ASSUME NEW r \in Resources, NEW h \in Holders, NEW t \in Issued, ReleaseRefused(r, h, t)
      PROVE  FramesOrdered' /\ StaleNowIsSafe'
  BY <1>4, SameFrames DEF ReleaseRefused, managerVars, OnlyEnds
<1>5. ASSUME NEW r \in Resources, ForceBreak(r)
      PROVE  FramesOrdered' /\ StaleNowIsSafe'
  BY <1>0, <1>5, DeactivatedOnlyEnds, SameFrames DEF ForceBreak
<1>6. ASSUME NEW r \in Resources, Inspect(r)
      PROVE  FramesOrdered' /\ StaleNowIsSafe'
  BY <1>0, <1>6, CleanOnlyEnds, SameFrames DEF Inspect
<1>7. CASE ListActive
  BY <1>0, <1>7, CleanOnlyEnds, SameFrames DEF ListActive
<1>8. CASE AcquireConflict
  <2>1. SameUndecided
    BY <1>0, <1>8, AnswerFrames, AnswerFrame DEF AcquireConflict, Deciding, SameUndecided
  <2>2. OnlyEnds /\ clock' = clock
    BY <1>8 DEF AcquireConflict, managerVars, OnlyEnds
  <2> QED BY <1>0, <2>1, <2>2, QuietStep
<1>9. CASE AcquireReenter
  BY <1>9, ReenterStep
<1>10. CASE AcquireGrant
  <2>0. InCall /\ Top.op # "answer" /\ clock' = clock
    BY <1>10 DEF AcquireGrant, NextToken, Deciding
  <2>1. Top.resource \in Resources
    BY <2>0, TopFrame DEF InCall, Top, TimeInv, TypeOK, Frame
  <2>2. /\ \A r \in Resources : r # Top.resource => locks'[r] = locks[r]
        /\ locks'[Top.resource].expires_at = Top.now + Top.duration
    BY <1>0, <1>10, <2>1 DEF AcquireGrant, NextToken, TypeOK
  <2>3. counter + 1 \in Nat
    BY <1>0 DEF TypeOK
  <2>4. Len(frames') = Len(frames) /\ Len(frames) \in Nat /\ frames'[Len(frames)].op = "answer"
    BY <1>0, <1>10, <2>0, <2>3, GrantFrames, AnswerFrame
  <2>5. ASSUME NEW i \in 1..Len(frames'), frames'[i].op # "answer"
        PROVE  i \in 1..Len(frames) /\ frames'[i] = frames[i]
    <3>1. i \in 1..Len(frames) - 1 /\ i \in 1..Len(frames) /\ frames[i] \in Frame
      BY <1>0, <2>4, <2>5 DEF TypeOK
    <3>2. [frames[i] EXCEPT !.final = locks[Top.resource].expires_at].op = frames[i].op
      BY <3>1 DEF Frame
    <3> QED BY <1>0, <1>10, <2>5, <3>1, <3>2, GrantFrames DEF Answers
  <2>6. SameUndecided
    BY <2>4, <2>5 DEF SameUndecided
  <2> QED BY <2>0, <2>2, <2>4, <2>6, WriteStep
<1>11. CASE RenewRefused
  BY <1>11, PopStep DEF RenewRefused, Deciding, managerVars, OnlyEnds
<1>12. CASE RenewExtend
  <2>0. InCall /\ Top.op # "answer" /\ clock' = clock
    BY <1>12 DEF RenewExtend, Deciding
  <2>1. Top.resource \in Resources /\ Top.token \in Nat
    BY <2>0, TopFrame DEF InCall, Top, TimeInv, TypeOK, Frame
  <2>2. /\ \A r \in Resources : r # Top.resource => locks'[r] = locks[r]
        /\ locks'[Top.resource].expires_at = Top.now + Top.duration
    BY <1>0, <1>12, <2>1 DEF RenewExtend, TypeOK, Lock
  <2>3. /\ Len(frames') = Len(frames) /\ Len(frames) \in Nat
        /\ frames'[Len(frames)].op = "answer"
        /\ \A i \in 1..Len(frames) - 1 : frames'[i] = frames[i]
    BY <1>0, <1>12, <2>0, <2>1, AnswerFrames, AnswerFrame DEF RenewExtend
  <2>4. SameUndecided
    BY <2>3 DEF SameUndecided
  <2> QED BY <2>0, <2>2, <2>3, <2>4, WriteStep
<1>13. CASE AnswerNo \/ AnswerYes \/ CallRaises
  BY <1>13, PopStep DEF AnswerNo, AnswerYes, CallRaises, managerVars, OnlyEnds
<1>14. CASE Tick
  <2>1. SameUndecided /\ clock' \in Nat /\ clock' >= clock /\ OnlyEnds
    BY <1>0, <1>14 DEF Tick, managerVars, OnlyEnds, SameUndecided, TypeOK
  <2> QED BY <2>1, QuietStep
<1>15. CASE Clear
  <2>1. OnlyEnds /\ clock' = clock /\ frames' = Detached(Resources)
    BY <1>15 DEF Clear, OnlyEnds, Untracked
  <2>2. Len(frames) \in Nat /\ \A i \in 1..Len(frames) : frames[i] \in Frame
    BY <1>0 DEF TypeOK
  <2>3. SameUndecided
    <3>1. Len(frames') = Len(frames)
      BY <1>0, <2>1, DetachedFrames
    <3>2. ASSUME NEW i \in 1..Len(frames), frames'[i].op # "answer"
          PROVE  frames'[i] = frames[i]
      <4>1. [frames[i] EXCEPT !.final = locks[frames[i].resource].expires_at].op = frames[i].op
        BY <2>2 DEF Frame
      <4> QED BY <1>0, <2>1, <3>2, <4>1, DetachedFrames DEF Answers
    <3> QED BY <2>2, <3>1, <3>2 DEF SameUndecided
  <2> QED BY <1>0, <2>1, <2>3, QuietStep
<1>16. CASE UNCHANGED vars
  BY <1>16, SameFrames DEF vars, OnlyEnds
<1> QED BY <1>1, <1>2, <1>3, <1>4, <1>5, <1>6, <1>7, <1>8, <1>9, <1>10, <1>11, <1>12, <1>13,
           <1>14, <1>15, <1>16 DEF NextOrClear, Next, Call, Proceed

\* acquire and renew may act on the `now` they read before their callbacks: no
\* call in progress ever finds a record that is active but expired at its `now`.
THEOREM StaleNow == ClearingSpec => []StaleNowIsSafe
<1>1. ClearingSpec => []TimeInv
  BY InitTime, StepTime, PTL DEF ClearingSpec
<1>2. TimeInv => StaleNowIsSafe
  BY DEF TimeInv
<1> QED BY <1>1, <1>2, PTL

\* A grant overwrites a record that is not active: not held at `now` means not
\* active at all.
LEMMA GrantFree ==
  ASSUME TimeInv, AcquireGrant
  PROVE  ~locks[Top.resource].active
<1>1. InCall /\ Top.op # "answer" /\ ~Holds(Top.resource, Top.now)
  BY DEF AcquireGrant, NextToken, Deciding
<1>2. Len(frames) \in 1..Len(frames) /\ Top = frames[Len(frames)]
  BY <1>1, TopFrame DEF TimeInv, TypeOK, InCall, Top
<1> QED BY <1>1, <1>2 DEF TimeInv, StaleNowIsSafe, Holds, Lapsed

-------------------------------------------------------------------------------
(* Every lease is ended once                                                   *)

AccountInv == TimeInv /\ Accounting

\* There are finitely many active leases, and ending some of them lowers their
\* number by as many.
LEMMA EndedCount ==
  ASSUME TypeOK, NEW R \in SUBSET ActiveResources, locks' = Deactivated(R)
  PROVE  /\ Cardinality(ActiveResources) \in Nat
         /\ Cardinality(R) \in Nat
         /\ Cardinality(ActiveResources') = Cardinality(ActiveResources) - Cardinality(R)
<1>1. IsFiniteSet(ActiveResources)
  BY ResourcesAssumption, FS_Subset DEF ActiveResources
<1>2. Cardinality(ActiveResources) \in Nat /\ Cardinality(R) \in Nat
  BY <1>1, FS_Subset, FS_CardinalityType
<1>3. ActiveResources' = ActiveResources \ R
  BY DEF ActiveResources, Deactivated, TypeOK, Lock
<1>4. ActiveResources \cap R = R
  OBVIOUS
<1> QED BY <1>1, <1>2, <1>3, <1>4, FS_Difference

\* Cleaning counts as many expirations as it ends leases.
LEMMA CleanAccounts ==
  ASSUME TypeOK, Accounting, NEW R \in SUBSET Resources, NEW now \in Nat, CleanExpired(R, now)
  PROVE  Accounting'
<1> DEFINE gone == {r \in R : Lapsed(r, now)}
<1>1. gone \in SUBSET ActiveResources
  BY DEF Lapsed, ActiveResources
<1>2. locks' = Deactivated(gone) /\ stats' = [stats EXCEPT !.expirations = @ + Cardinality(gone)]
  BY DEF CleanExpired
<1> HIDE DEF gone
<1>3. /\ Cardinality(ActiveResources) \in Nat
      /\ Cardinality(gone) \in Nat
      /\ Cardinality(ActiveResources') = Cardinality(ActiveResources) - Cardinality(gone)
  BY <1>1, <1>2, EndedCount
<1> QED BY <1>2, <1>3 DEF Accounting, TypeOK, Stats

\* A release or a forced break ends one lease and counts one.
LEMMA EndAccounts ==
  ASSUME TypeOK, Accounting, NEW r \in Resources, locks[r].active, locks' = Deactivated({r}),
         \/ stats' = [stats EXCEPT !.releases = @ + 1]
         \/ stats' = [stats EXCEPT !.forced_breaks = @ + 1]
  PROVE  Accounting'
<1>1. {r} \in SUBSET ActiveResources
  BY DEF ActiveResources
<1>2. Cardinality({r}) = 1
  BY FS_Singleton
<1>3. /\ Cardinality(ActiveResources) \in Nat
      /\ Cardinality(ActiveResources') = Cardinality(ActiveResources) - 1
  BY <1>1, <1>2, EndedCount
<1>4. CASE stats' = [stats EXCEPT !.releases = @ + 1]
  BY <1>3, <1>4 DEF Accounting, TypeOK, Stats
<1>5. CASE stats' = [stats EXCEPT !.forced_breaks = @ + 1]
  BY <1>3, <1>5 DEF Accounting, TypeOK, Stats
<1> QED BY <1>4, <1>5

\* A grant makes one more lease active: StaleNowIsSafe says that the record it
\* overwrites was not.
LEMMA GrantAccounts ==
  ASSUME AccountInv, AcquireGrant
  PROVE  Accounting'
<1>0. TypeOK /\ Accounting
  BY DEF AccountInv, TimeInv
<1>1. Top \in Frame
  BY <1>0, TopFrame DEF AcquireGrant, NextToken, Deciding, InCall, Top, TypeOK
<1>2. PICK r \in Resources : r = Top.resource
  BY <1>1 DEF Frame
<1>3. ~locks[r].active
  BY <1>2, GrantFree DEF AccountInv
<1>4. r \notin ActiveResources /\ ActiveResources' = ActiveResources \cup {r}
  BY <1>0, <1>2, <1>3 DEF AcquireGrant, NextToken, ActiveResources, TypeOK
<1>5. IsFiniteSet(ActiveResources)
  BY ResourcesAssumption, FS_Subset DEF ActiveResources
<1>6. Cardinality(ActiveResources) \in Nat
      /\ Cardinality(ActiveResources') = Cardinality(ActiveResources) + 1
  BY <1>4, <1>5, FS_AddElement, FS_CardinalityType
<1>7. stats' = [stats EXCEPT !.acquisitions = @ + 1]
  BY DEF AcquireGrant, NextToken
<1> QED BY <1>0, <1>6, <1>7 DEF Accounting, TypeOK, Stats

LEMMA InitAccount == Init => AccountInv
<1> SUFFICES ASSUME Init PROVE AccountInv
  OBVIOUS
<1>1. ActiveResources = {}
  BY DEF Init, Untracked, ActiveResources
<1>2. Accounting
  BY <1>1, FS_EmptySet DEF Init, ZeroStats, Accounting
<1> QED BY <1>2, InitTime DEF AccountInv

LEMMA StepAccount == AccountInv /\ [NextOrClear]_vars => AccountInv'
<1> SUFFICES ASSUME AccountInv, [NextOrClear]_vars PROVE Accounting'
  BY StepTime DEF AccountInv
<1>0. TypeOK /\ Accounting /\ clock \in Nat /\ Resources \in SUBSET Resources
  BY DEF AccountInv, TimeInv, TypeOK
<1>1. ASSUME NEW r \in Resources, NEW h \in Holders, NEW d \in Requests, AcquireCall(r, h, d)
      PROVE  Accounting'
  BY <1>0, <1>1, CleanAccounts DEF AcquireCall, Enter
<1>2. ASSUME NEW r \in Resources, NEW h \in Holders, NEW t \in Issued, NEW e \in Requests,
             RenewCall(r, h, t, e)
      PROVE  Accounting'
  BY <1>0, <1>2, CleanAccounts DEF RenewCall, Enter
<1>3. ASSUME NEW r \in Resources, NEW h \in Holders, NEW t \in Issued, Release(r, h, t)
      PROVE  Accounting'
  BY <1>0, <1>3, EndAccounts DEF Release
<1>4. ASSUME NEW r \in Resources, ForceBreak(r)
      PROVE  Accounting'
  BY <1>0, <1>4, EndAccounts DEF ForceBreak
<1>5. ASSUME NEW r \in Resources, Inspect(r)
      PROVE  Accounting'
  BY <1>0, <1>5, CleanAccounts DEF Inspect
<1>6. CASE ListActive
  BY <1>0, <1>6, CleanAccounts DEF ListActive
<1>7. CASE AcquireReenter
  <2>1. PICK r \in Resources : r = Top.resource
    BY <1>0, <1>7, TopFrame DEF AcquireReenter, Deciding, InCall, Top, TypeOK, Frame
  <2>2. CleanExpired({r}, clock)
    BY <1>7, <2>1 DEF AcquireReenter
  <2> QED BY <1>0, <2>2, CleanAccounts
<1>8. CASE AcquireGrant
  BY <1>8, GrantAccounts
<1>9. CASE RenewExtend
  <2>1. ActiveResources' = ActiveResources /\ stats' = stats
    BY <1>0, <1>9 DEF RenewExtend, ActiveResources, TypeOK, Lock
  <2> QED BY <1>0, <2>1 DEF Accounting
<1>10. CASE Clear
  <2>1. ActiveResources' = {}
    BY <1>10 DEF Clear, Untracked, ActiveResources
  <2> QED BY <1>10, <2>1, FS_EmptySet DEF Clear, ZeroStats, Accounting
<1>11. ASSUME UNCHANGED <<locks, stats>>
       PROVE  Accounting'
  BY <1>0, <1>11 DEF Accounting, ActiveResources
<1> QED BY <1>1, <1>2, <1>3, <1>4, <1>5, <1>6, <1>7, <1>8, <1>9, <1>10, <1>11
        DEF NextOrClear, Next, Call, Proceed, ReleaseRefused, AcquireConflict, RenewRefused,
            AnswerNo, AnswerYes, CallRaises, Tick, managerVars, vars

\* Every lease ever granted is active or was ended exactly once, and counted so:
\* no grant overwrites an active lease, with or without clear().
THEOREM EveryLeaseAccounted == ClearingSpec => []Accounting
<1>1. ClearingSpec => []AccountInv
  BY InitAccount, StepAccount, PTL DEF ClearingSpec
<1>2. AccountInv => Accounting
  BY DEF AccountInv
<1> QED BY <1>1, <1>2, PTL

-------------------------------------------------------------------------------
(* Fencing tokens, as long as nobody clears the manager                        *)

\* Tokens on record were issued, and an active lease has a holder and a token.
RecordTokens ==
  \A r \in Resources :
    /\ locks[r].fencing_token <= counter
    /\ locks[r].holder = NoHolder => locks[r].fencing_token = 0
    /\ locks[r].active => locks[r].holder # NoHolder /\ locks[r].fencing_token > 0

\* An answer that is on its way is one with the lease on record, or with an older
\* one that another has replaced.
AnswerTokens ==
  \A i \in 1..Len(frames) :
    LET f == frames[i]
        lock == locks[f.resource]
    IN  Answers(f) =>
          IF f.final = OnRecord
          THEN f.token = lock.fencing_token /\ f.holder = lock.holder
          ELSE f.token < lock.fencing_token

\* A token that was told to somebody was told to one holder, who is also the one
\* that the answers on their way tell it to.
OneHolderPerToken ==
  /\ \A h, g \in Holders, r \in Resources :
       (h # g /\ belief[h][r].token = belief[g][r].token) => belief[h][r].token = 0
  /\ \A i \in 1..Len(frames), h \in Holders :
       (Answers(frames[i]) /\ belief[h][frames[i].resource].token = frames[i].token)
         => frames[i].holder = h
  /\ \A i, j \in 1..Len(frames) :
       (/\ Answers(frames[i]) /\ Answers(frames[j])
        /\ frames[i].resource = frames[j].resource /\ frames[i].token = frames[j].token)
         => frames[i].holder = frames[j].holder

NoTokenNoLease ==
  \A h \in Holders, r \in Resources : belief[h][r].token = 0 => belief[h][r].deadline = 0

TokenInv ==
  /\ TypeOK
  /\ RecordTokens
  /\ NewestTokenOnRecord
  /\ AnswerTokens
  /\ OneHolderPerToken
  /\ NoTokenNoLease

\* The numbers that the invariants compare are numbers.
LEMMA TokenTypes ==
  ASSUME TypeOK
  PROVE  /\ counter \in Nat /\ Len(frames) \in Nat
         /\ \A r \in Resources : locks[r].fencing_token \in Nat /\ locks[r].expires_at \in Nat
         /\ \A h \in Holders, r \in Resources :
              belief[h][r].token \in Nat /\ belief[h][r].deadline \in Nat
         /\ \A i \in 1..Len(frames) :
              /\ frames[i] \in Frame
              /\ frames[i].resource \in Resources /\ frames[i].holder \in Holders
              /\ frames[i].token \in Nat /\ frames[i].final \in Nat \cup {OnRecord}
<1>1. \A r \in Resources : locks[r] \in Lock
  BY DEF TypeOK
<1>2. \A h \in Holders, r \in Resources : belief[h][r] \in Belief
  BY DEF TypeOK
<1>3. counter \in Nat /\ Len(frames) \in Nat /\ \A i \in 1..Len(frames) : frames[i] \in Frame
  BY DEF TypeOK
<1> QED BY <1>1, <1>2, <1>3 DEF Lock, Belief, Frame

\* The answers on their way were on their way before.
SameAnswers ==
  /\ Len(frames') \in Nat
  /\ \A i \in 1..Len(frames') :
       Answers(frames'[i]) => i \in 1..Len(frames) /\ frames'[i] = frames[i]

\* What the innermost call does to the answers on their way when it returns, when
\* it answers with a no, and when it starts or goes on.
LEMMA PopAnswers ==
  ASSUME TypeOK, InCall, Pop
  PROVE  SameAnswers
BY PopFrames DEF SameAnswers

LEMMA NoAnswers ==
  ASSUME TypeOK, InCall, frames' = [frames EXCEPT ![Len(frames)] = AnswersWith(0)]
  PROVE  SameAnswers
<1>1. /\ Len(frames') = Len(frames) /\ Len(frames) \in Nat
      /\ frames'[Len(frames)].token = 0
      /\ \A i \in 1..Len(frames) - 1 : frames'[i] = frames[i]
  BY AnswerFrames, AnswerFrame
<1>2. \A i \in 1..Len(frames) : i = Len(frames) \/ i \in 1..Len(frames) - 1
  <2>1. Len(frames) \in Nat
    BY <1>1
  <2> QED BY <2>1
<1>3. ASSUME NEW i \in 1..Len(frames'), Answers(frames'[i])
      PROVE  i \in 1..Len(frames) /\ frames'[i] = frames[i]
  BY <1>1, <1>2, <1>3 DEF Answers
<1> QED BY <1>1, <1>3 DEF SameAnswers

LEMMA EnterAnswers ==
  ASSUME TypeOK, NEW op \in {"acquire", "renew"}, NEW r \in Resources, NEW h \in Holders,
         NEW t \in Nat, NEW d \in Nat, Enter(op, r, h, t, d)
  PROVE  SameAnswers
<1> DEFINE f == Entered(op, r, h, t, d)
<1>1. f \in Frame /\ f.op # "answer" /\ frames \in Seq(Frame) /\ Len(frames) \in Nat
  <2>1. f \in Frame
    BY EnteredType
  <2>2. f.op = op
    BY DEF Entered
  <2> HIDE DEF f
  <2> QED BY <2>1, <2>2 DEF TypeOK
<1>2. frames' = Append(frames, f)
  BY DEF Enter
<1> HIDE DEF f
<1> QED BY <1>1, <1>2, PushFrame DEF SameAnswers, Answers

LEMMA ReenterAnswers ==
  ASSUME TypeOK, AcquireReenter
  PROVE  SameAnswers
<1> DEFINE f == Entered("renew", Top.resource, Top.holder, locks[Top.resource].fencing_token,
                        Top.duration)
<1>1. frames \in Seq(Frame) /\ frames # <<>> /\ Top \in Frame
  BY TopFrame DEF AcquireReenter, Deciding, InCall, Top, TypeOK
<1>2. f \in Frame /\ f.op # "answer"
  <2>1. f \in Frame
    BY <1>1, EnteredType DEF TypeOK, Frame, Lock
  <2>2. f.op = "renew"
    BY DEF Entered
  <2> HIDE DEF f
  <2> QED BY <2>1, <2>2
<1>3. frames' = [frames EXCEPT ![Len(frames)] = f]
  BY DEF AcquireReenter
<1> HIDE DEF f
<1>4. /\ Len(frames') = Len(frames) /\ Len(frames) \in Nat /\ frames'[Len(frames)] = f
      /\ \A i \in 1..Len(frames) - 1 : frames'[i] = frames[i]
  BY <1>1, <1>2, <1>3, ReplaceFrame
<1> QED BY <1>2, <1>4 DEF SameAnswers, Answers

\* A holder that gives up a token keeps its other beliefs.
LEMMA GivesUpBelief ==
  ASSUME TypeOK, NEW h \in Holders, NEW r \in Resources, NEW t, GivesUp(h, r, t)
  PROVE  /\ \A g \in Holders, s \in Resources : belief'[g][s] \in {belief[g][s], NoBelief}
         /\ belief'[h][r].token # t \/ t = 0
<1>1. CASE belief[h][r].token = t
  <2>1. belief' = [belief EXCEPT ![h][r] = NoBelief]
    BY <1>1 DEF GivesUp, Told
  <2> QED BY <2>1 DEF TypeOK, NoBelief
<1>2. CASE belief[h][r].token # t
  BY <1>2 DEF GivesUp
<1> QED BY <1>1, <1>2

\* What a holder is told about one resource changes nothing else it believes.
LEMMA ToldBelief ==
  ASSUME TypeOK, NEW h \in Holders, NEW r \in Resources, NEW b, Told(h, r, b)
  PROVE  \A g \in Holders, s \in Resources :
           belief'[g][s] = IF g = h /\ s = r THEN b ELSE belief[g][s]
BY DEF TypeOK, Told

\* The calls that answer a no, or do not answer at all, take beliefs away at most.
LEMMA QuietAnswers ==
  ASSUME TypeOK, AcquireConflict \/ RenewRefused \/ AnswerNo \/ CallRaises
  PROVE  /\ SameAnswers
         /\ UNCHANGED <<clock, managerVars, early>>
         /\ \A g \in Holders, s \in Resources : belief'[g][s] \in {belief[g][s], NoBelief}
<1>1. InCall /\ UNCHANGED <<clock, managerVars, early>>
  BY DEF AcquireConflict, RenewRefused, AnswerNo, CallRaises, Deciding, callerVars
<1>2. Top.holder \in Holders /\ Top.resource \in Resources
  BY <1>1, TopFrame DEF InCall, Top, TypeOK, Frame
<1>3. SameAnswers
  BY <1>1, PopAnswers, NoAnswers DEF AcquireConflict, RenewRefused, AnswerNo, CallRaises
<1>4. CASE AcquireConflict \/ CallRaises
  BY <1>1, <1>3, <1>4 DEF AcquireConflict, CallRaises, callerVars
<1>5. CASE RenewRefused
  BY <1>1, <1>2, <1>3, <1>5, GivesUpBelief DEF RenewRefused
<1>6. CASE AnswerNo
  BY <1>1, <1>2, <1>3, <1>6, ToldBelief DEF AnswerNo
<1> QED BY <1>4, <1>5, <1>6

\* Cleaning and deactivating records leaves all but their activity.
LEMMA DeactivatedTokens ==
  ASSUME TypeOK, NEW R, locks' = Deactivated(R)
  PROVE  \A r \in Resources :
           /\ locks'[r].fencing_token = locks[r].fencing_token
           /\ locks'[r].holder = locks[r].holder
           /\ locks'[r].expires_at = locks[r].expires_at
           /\ locks'[r].active => locks[r].active
BY DEF TypeOK, Lock, Deactivated

\* Ending leases and forgetting tokens keeps the tokens straight.
LEMMA KeepsTokens ==
  ASSUME TokenInv, TypeOK', SameAnswers, counter' = counter,
         \A r \in Resources :
           /\ locks'[r].fencing_token = locks[r].fencing_token
           /\ locks'[r].holder = locks[r].holder
           /\ locks'[r].active => locks[r].active,
         \A h \in Holders, r \in Resources : belief'[h][r] \in {belief[h][r], NoBelief}
  PROVE  TokenInv'
<1>t. TypeOK
  BY DEF TokenInv
<1>0. \A h \in Holders, r \in Resources :
        belief[h][r].token \in Nat /\ locks[r].fencing_token \in Nat
  BY <1>t, TokenTypes
<1>1. RecordTokens'
  BY DEF TokenInv, RecordTokens
<1>2. NewestTokenOnRecord'
  <2> SUFFICES ASSUME NEW h \in Holders, NEW r \in Resources
               PROVE  /\ belief'[h][r].token <= locks'[r].fencing_token
                      /\ belief'[h][r].token = locks'[r].fencing_token
                           => locks'[r].holder \in {h, NoHolder}
    BY DEF NewestTokenOnRecord
  <2>1. CASE belief'[h][r] = belief[h][r]
    BY <2>1 DEF TokenInv, NewestTokenOnRecord
  <2>2. CASE belief'[h][r] = NoBelief
    <3>1. locks[r].fencing_token = 0 => locks[r].holder \in {h, NoHolder}
      BY <1>0 DEF TokenInv, NewestTokenOnRecord
    <3> QED BY <1>0, <2>2, <3>1 DEF NoBelief
  <2> QED BY <2>1, <2>2
<1>3. NoTokenNoLease'
  BY <1>0 DEF TokenInv, NoTokenNoLease, NoBelief
<1>4. \A i \in 1..Len(frames) : frames[i].resource \in Resources
  BY <1>t, TokenTypes
<1>5. AnswerTokens'
  <2> SUFFICES ASSUME NEW i \in 1..Len(frames'), Answers(frames'[i])
               PROVE  IF frames'[i].final = OnRecord
                      THEN /\ frames'[i].token = locks'[frames'[i].resource].fencing_token
                           /\ frames'[i].holder = locks'[frames'[i].resource].holder
                      ELSE frames'[i].token < locks'[frames'[i].resource].fencing_token
    BY DEF AnswerTokens, Answers
  <2>1. i \in 1..Len(frames) /\ frames'[i] = frames[i]
    BY DEF SameAnswers
  <2> QED BY <1>4, <2>1 DEF TokenInv, AnswerTokens
<1>6. OneHolderPerToken'
  <2>1. \A h, g \in Holders, r \in Resources :
          (h # g /\ belief'[h][r].token = belief'[g][r].token) => belief'[h][r].token = 0
    BY <1>0 DEF TokenInv, OneHolderPerToken, NoBelief
  <2>2. ASSUME NEW i \in 1..Len(frames'), NEW h \in Holders, Answers(frames'[i]),
               belief'[h][frames'[i].resource].token = frames'[i].token
        PROVE  frames'[i].holder = h
    <3>1. i \in 1..Len(frames) /\ frames'[i] = frames[i]
      BY <2>2 DEF SameAnswers
    <3>2. frames[i].token # 0
      BY <2>2, <3>1 DEF Answers
    <3>3. belief'[h][frames[i].resource] = belief[h][frames[i].resource]
      BY <1>4, <2>2, <3>1, <3>2 DEF NoBelief
    <3> QED BY <2>2, <3>1, <3>3 DEF TokenInv, OneHolderPerToken
  <2>3. \A i, j \in 1..Len(frames') :
          (/\ Answers(frames'[i]) /\ Answers(frames'[j])
           /\ frames'[i].resource = frames'[j].resource /\ frames'[i].token = frames'[j].token)
            => frames'[i].holder = frames'[j].holder
    BY DEF TokenInv, OneHolderPerToken, SameAnswers
  <2> QED BY <2>1, <2>2, <2>3 DEF OneHolderPerToken, Answers
<1> QED BY <1>1, <1>2, <1>3, <1>5, <1>6 DEF TokenInv

\* A grant puts a token on record, and on its way to one holder, that is above all
\* others.
LEMMA GrantTokens ==
  ASSUME TokenInv, TypeOK', AcquireGrant
  PROVE  TokenInv'
<1> DEFINE n == Len(frames)
<1>0. TypeOK /\ Top \in Frame /\ InCall
  BY TopFrame DEF TokenInv, AcquireGrant, NextToken, Deciding, InCall, Top, TypeOK
<1>1. PICK r \in Resources, h \in Holders : r = Top.resource /\ h = Top.holder
  BY <1>0 DEF Frame
<1>2. counter \in Nat /\ counter' = counter + 1 /\ belief' = belief
  BY <1>0 DEF AcquireGrant, NextToken, callerVars, TypeOK
<1>3. /\ \A s \in Resources : s # r => locks'[s] = locks[s]
      /\ locks'[r].holder = h /\ locks'[r].fencing_token = counter + 1
  BY <1>0, <1>1 DEF AcquireGrant, NextToken, TypeOK
<1>4. /\ n \in Nat /\ n >= 1 /\ Len(frames') = n
      /\ frames'[n].resource = r /\ frames'[n].holder = h
      /\ frames'[n].token = counter + 1 /\ frames'[n].final = OnRecord
      /\ \A i \in 1..n - 1 :
           frames'[i] = IF /\ Answers(frames[i])
                           /\ frames[i].resource = r /\ frames[i].final = OnRecord
                        THEN [frames[i] EXCEPT !.final = locks[r].expires_at] ELSE frames[i]
  BY <1>0, <1>1, <1>2, GrantFrames, AnswerFrame
<1>5. \A g \in Holders, s \in Resources :
        /\ belief[g][s].token \in Nat /\ locks[s].fencing_token \in Nat
        /\ locks[s].fencing_token < counter + 1
        /\ belief[g][s].token < counter + 1
  <2>1. \A g \in Holders, s \in Resources :
          belief[g][s].token \in Nat /\ locks[s].fencing_token \in Nat
    BY <1>0, TokenTypes
  <2>2. \A g \in Holders, s \in Resources :
          belief[g][s].token <= locks[s].fencing_token /\ locks[s].fencing_token <= counter
    BY DEF TokenInv, RecordTokens, NewestTokenOnRecord
  <2> QED BY <1>2, <2>1, <2>2
<1>6. ASSUME NEW i \in 1..n - 1, Answers(frames'[i])
      PROVE  /\ i \in 1..n /\ Answers(frames[i])
             /\ frames'[i].resource = frames[i].resource /\ frames'[i].holder = frames[i].holder
             /\ frames'[i].token = frames[i].token
             /\ frames[i].token \in Nat /\ frames[i].token < counter + 1
             /\ frames[i].resource \in Resources
             /\ frames'[i].final = OnRecord => frames[i].final = OnRecord /\ frames[i].resource # r
             /\ frames[i].final = OnRecord =>
                  frames[i].token = locks[frames[i].resource].fencing_token
             /\ frames[i].final # OnRecord =>
                  frames[i].token < locks[frames[i].resource].fencing_token
  <2>1. i \in 1..n
    BY <1>4
  <2>2. /\ frames[i] \in Frame /\ frames[i].resource \in Resources
        /\ frames[i].token \in Nat /\ locks[r].expires_at \in Nat
    BY <1>0, <2>1, TokenTypes
  <2>3. [frames[i] EXCEPT !.final = locks[r].expires_at] =
          [op |-> frames[i].op, stage |-> frames[i].stage, resource |-> frames[i].resource,
           holder |-> frames[i].holder, token |-> frames[i].token,
           duration |-> frames[i].duration, now |-> frames[i].now,
           final |-> locks[r].expires_at]
    BY <2>2 DEF Frame
  <2>4. Answers(frames[i])
    BY <1>4, <1>6, <2>3 DEF Answers
  <2>5. IF frames[i].final = OnRecord
        THEN frames[i].token = locks[frames[i].resource].fencing_token
        ELSE frames[i].token < locks[frames[i].resource].fencing_token
    BY <2>1, <2>4 DEF TokenInv, AnswerTokens
  <2>6. locks[frames[i].resource].fencing_token \in Nat
        /\ locks[frames[i].resource].fencing_token < counter + 1
    BY <1>1, <1>5, <2>2
  <2>7. frames[i].token < counter + 1
    BY <1>2, <2>2, <2>5, <2>6
  <2>8. /\ frames'[i].resource = frames[i].resource /\ frames'[i].holder = frames[i].holder
        /\ frames'[i].token = frames[i].token
        /\ frames'[i].final = OnRecord => frames[i].final = OnRecord /\ frames[i].resource # r
    BY <1>4, <2>2, <2>3, <2>4 DEF OnRecord
  <2> QED BY <2>1, <2>2, <2>4, <2>5, <2>7, <2>8
<1>7. \A i \in 1..n : i = n \/ i \in 1..n - 1
  BY <1>4
<1>8. RecordTokens'
  BY <1>2, <1>3, <1>5, HoldersAssumption DEF TokenInv, RecordTokens
<1>9. NewestTokenOnRecord'
  BY <1>2, <1>3, <1>5 DEF TokenInv, NewestTokenOnRecord
<1>10. NoTokenNoLease'
  BY <1>2 DEF TokenInv, NoTokenNoLease
<1>11. AnswerTokens'
  <2> SUFFICES ASSUME NEW i \in 1..n, Answers(frames'[i])
               PROVE  IF frames'[i].final = OnRecord
                      THEN /\ frames'[i].token = locks'[frames'[i].resource].fencing_token
                           /\ frames'[i].holder = locks'[frames'[i].resource].holder
                      ELSE frames'[i].token < locks'[frames'[i].resource].fencing_token
    BY <1>4 DEF AnswerTokens, Answers
  <2>1. CASE i = n
    BY <1>3, <1>4, <2>1
  <2>2. CASE i \in 1..n - 1
    <3>1. CASE frames'[i].final = OnRecord
      <4>1. frames[i].final = OnRecord /\ frames[i].resource # r /\ frames[i].resource \in Resources
            /\ i \in 1..n /\ Answers(frames[i])
        BY <1>6, <2>2, <3>1
      <4>2. frames[i].token = locks[frames[i].resource].fencing_token
            /\ frames[i].holder = locks[frames[i].resource].holder
        BY <4>1 DEF TokenInv, AnswerTokens
      <4> QED BY <1>3, <1>6, <2>2, <3>1, <4>1, <4>2
    <3>2. CASE frames'[i].final # OnRecord
      <4>1. CASE frames[i].resource = r
        BY <1>3, <1>6, <2>2, <3>2, <4>1
      <4>2. CASE frames[i].resource # r
        <5>1. frames'[i] = frames[i]
          BY <1>4, <2>2, <4>2
        <5> QED BY <1>3, <1>6, <2>2, <3>2, <4>2, <5>1
      <4> QED BY <4>1, <4>2
    <3> QED BY <3>1, <3>2
  <2> QED BY <1>7, <2>1, <2>2
<1>12. OneHolderPerToken'
  <2>1. ASSUME NEW i \in 1..n, NEW g \in Holders, Answers(frames'[i]),
               belief[g][frames'[i].resource].token = frames'[i].token
        PROVE  frames'[i].holder = g
    <3>1. CASE i = n
      BY <1>1, <1>4, <1>5, <2>1, <3>1
    <3>2. CASE i \in 1..n - 1
      BY <1>6, <2>1, <3>2 DEF TokenInv, OneHolderPerToken
    <3> QED BY <1>7, <3>1, <3>2
  <2>2. ASSUME NEW i \in 1..n, NEW j \in 1..n, Answers(frames'[i]), Answers(frames'[j]),
               frames'[i].resource = frames'[j].resource, frames'[i].token = frames'[j].token
        PROVE  frames'[i].holder = frames'[j].holder
    <3>1. CASE i = n
      BY <1>2, <1>4, <1>6, <1>7, <2>2, <3>1
    <3>2. CASE j = n
      BY <1>2, <1>4, <1>6, <1>7, <2>2, <3>2
    <3>3. CASE i \in 1..n - 1 /\ j \in 1..n - 1
      BY <1>6, <2>2, <3>3 DEF TokenInv, OneHolderPerToken
    <3> QED BY <1>7, <3>1, <3>2, <3>3
  <2> QED BY <1>2, <1>4, <2>1, <2>2 DEF TokenInv, OneHolderPerToken, Answers
<1> QED BY <1>8, <1>9, <1>10, <1>11, <1>12 DEF TokenInv

\* A renewal is about to tell the holder on record the token on record.
LEMMA ExtendTokens ==
  ASSUME TokenInv, TypeOK', RenewExtend
  PROVE  TokenInv'
<1> DEFINE n == Len(frames)
<1>0. TypeOK /\ Top \in Frame /\ InCall
  BY TopFrame DEF TokenInv, RenewExtend, Deciding, InCall, Top, TypeOK
<1>1. PICK r \in Resources, h \in Holders : r = Top.resource /\ h = Top.holder
  BY <1>0 DEF Frame
<1>2. /\ locks[r].holder = h /\ locks[r].fencing_token = Top.token /\ locks[r].active
      /\ counter' = counter /\ belief' = belief /\ Top.token \in Nat
  BY <1>0, <1>1 DEF RenewExtend, Holds, OwnedBy, Frame
<1>3. \A s \in Resources :
        /\ locks'[s].fencing_token = locks[s].fencing_token
        /\ locks'[s].holder = locks[s].holder
        /\ locks'[s].active = locks[s].active
  BY <1>0 DEF RenewExtend, TypeOK, Lock
<1>4. /\ n \in Nat /\ n >= 1 /\ Len(frames') = n
      /\ frames'[n].resource = r /\ frames'[n].holder = h
      /\ frames'[n].token = Top.token /\ frames'[n].final = OnRecord
      /\ \A i \in 1..n - 1 : frames'[i] = frames[i]
  BY <1>0, <1>1, <1>2, AnswerFrames, AnswerFrame DEF RenewExtend
<1>5. \A i \in 1..n : i = n \/ i \in 1..n - 1
  BY <1>4
<1>6. \A i \in 1..n : frames[i].resource \in Resources /\ frames[i].token \in Nat
  BY <1>0, TokenTypes
<1>7. \A i \in 1..n - 1 : i \in 1..n
  BY <1>4
<1>8. RecordTokens' /\ NewestTokenOnRecord' /\ NoTokenNoLease'
  BY <1>2, <1>3 DEF TokenInv, RecordTokens, NewestTokenOnRecord, NoTokenNoLease
<1>9. AnswerTokens'
  <2> SUFFICES ASSUME NEW i \in 1..n, Answers(frames'[i])
               PROVE  IF frames'[i].final = OnRecord
                      THEN /\ frames'[i].token = locks'[frames'[i].resource].fencing_token
                           /\ frames'[i].holder = locks'[frames'[i].resource].holder
                      ELSE frames'[i].token < locks'[frames'[i].resource].fencing_token
    BY <1>4 DEF AnswerTokens, Answers
  <2>1. CASE i = n
    BY <1>2, <1>3, <1>4, <2>1
  <2>2. CASE i \in 1..n - 1
    BY <1>3, <1>4, <1>6, <1>7, <2>2 DEF TokenInv, AnswerTokens
  <2> QED BY <1>5, <2>1, <2>2
<1>10. \A g \in Holders : belief[g][r].token = Top.token => g = h
  BY <1>2, HoldersAssumption DEF TokenInv, NewestTokenOnRecord
<1>11. ASSUME NEW i \in 1..n - 1, Answers(frames[i]), frames[i].resource = r,
              frames[i].token = Top.token
       PROVE  frames[i].holder = h
  <2>1. i \in 1..n /\ frames[i].token \in Nat
    BY <1>6, <1>7
  <2> QED BY <1>2, <1>11, <2>1 DEF TokenInv, AnswerTokens
<1>12. OneHolderPerToken'
  <2>1. ASSUME NEW i \in 1..n, NEW g \in Holders, Answers(frames'[i]),
               belief[g][frames'[i].resource].token = frames'[i].token
        PROVE  frames'[i].holder = g
    <3>1. CASE i = n
      BY <1>4, <1>10, <2>1, <3>1
    <3>2. CASE i \in 1..n - 1
      BY <1>4, <1>7, <2>1, <3>2 DEF TokenInv, OneHolderPerToken
    <3> QED BY <1>5, <3>1, <3>2
  <2>2. ASSUME NEW i \in 1..n, NEW j \in 1..n, Answers(frames'[i]), Answers(frames'[j]),
               frames'[i].resource = frames'[j].resource, frames'[i].token = frames'[j].token
        PROVE  frames'[i].holder = frames'[j].holder
    <3>1. CASE i = n
      BY <1>4, <1>5, <1>11, <2>2, <3>1
    <3>2. CASE j = n
      BY <1>4, <1>5, <1>11, <2>2, <3>2
    <3>3. CASE i \in 1..n - 1 /\ j \in 1..n - 1
      BY <1>4, <1>7, <2>2, <3>3 DEF TokenInv, OneHolderPerToken
    <3> QED BY <1>5, <3>1, <3>2, <3>3
  <2> QED BY <1>2, <1>4, <2>1, <2>2 DEF TokenInv, OneHolderPerToken, Answers
<1> QED BY <1>8, <1>9, <1>12 DEF TokenInv

\* A holder is told a token that was on its way to nobody else.
LEMMA YesTokens ==
  ASSUME TokenInv, TypeOK', AnswerYes
  PROVE  TokenInv'
<1> DEFINE n == Len(frames)
<1>0. TypeOK /\ Top \in Frame /\ InCall /\ Top = frames[n] /\ n \in 1..n
  BY TopFrame DEF TokenInv, AnswerYes, InCall, Top, TypeOK
<1>1. PICK r \in Resources, h \in Holders : r = Top.resource /\ h = Top.holder
  BY <1>0 DEF Frame
<1>2. PICK t \in Nat : t = Top.token /\ t # 0
  BY <1>0 DEF AnswerYes, Answers, Frame
<1>3. UNCHANGED <<locks, counter>> /\ SameAnswers /\ Answers(Top)
  BY <1>0, PopAnswers DEF AnswerYes, managerVars
<1>4. \A g \in Holders, s \in Resources :
        /\ ~(g = h /\ s = r) => belief'[g][s] = belief[g][s]
        /\ (g = h /\ s = r) => belief'[g][s].token = t
  BY <1>0, <1>1, <1>2, ToldBelief DEF AnswerYes
<1>5. \A s \in Resources : locks[s].fencing_token \in Nat
  BY <1>0, TokenTypes
<1>6. /\ t <= locks[r].fencing_token
      /\ t = locks[r].fencing_token => locks[r].holder = h
  BY <1>0, <1>1, <1>2, <1>3, <1>5 DEF TokenInv, AnswerTokens
<1>7. \A g \in Holders : belief[g][r].token = t => g = h
  BY <1>0, <1>1, <1>2, <1>3 DEF TokenInv, OneHolderPerToken
<1>8. RecordTokens'
  BY <1>3 DEF TokenInv, RecordTokens
<1>9. NewestTokenOnRecord' /\ NoTokenNoLease'
  BY <1>2, <1>3, <1>4, <1>6 DEF TokenInv, NewestTokenOnRecord, NoTokenNoLease
<1>10. AnswerTokens'
  BY <1>3 DEF TokenInv, AnswerTokens, SameAnswers
<1>11. OneHolderPerToken'
  <2>1. \A g, k \in Holders, s \in Resources :
          (g # k /\ belief'[g][s].token = belief'[k][s].token) => belief'[g][s].token = 0
    BY <1>4, <1>7 DEF TokenInv, OneHolderPerToken
  <2>2. ASSUME NEW i \in 1..Len(frames'), NEW g \in Holders, Answers(frames'[i]),
               belief'[g][frames'[i].resource].token = frames'[i].token
        PROVE  frames'[i].holder = g
    <3>1. i \in 1..n /\ frames'[i] = frames[i] /\ frames[i].resource \in Resources
      BY <1>0, <1>3, <2>2, TokenTypes DEF SameAnswers
    <3>2. CASE g = h /\ frames[i].resource = r
      BY <1>0, <1>1, <1>2, <1>3, <1>4, <2>2, <3>1, <3>2 DEF TokenInv, OneHolderPerToken
    <3>3. CASE ~(g = h /\ frames[i].resource = r)
      BY <1>4, <2>2, <3>1, <3>3 DEF TokenInv, OneHolderPerToken
    <3> QED BY <3>2, <3>3
  <2>3. \A i, j \in 1..Len(frames') :
          (/\ Answers(frames'[i]) /\ Answers(frames'[j])
           /\ frames'[i].resource = frames'[j].resource /\ frames'[i].token = frames'[j].token)
            => frames'[i].holder = frames'[j].holder
    BY <1>3 DEF TokenInv, OneHolderPerToken, SameAnswers
  <2> QED BY <2>1, <2>2, <2>3 DEF OneHolderPerToken, Answers
<1> QED BY <1>8, <1>9, <1>10, <1>11 DEF TokenInv

LEMMA InitTokens == Init => TokenInv
<1> SUFFICES ASSUME Init PROVE TokenInv
  OBVIOUS
<1>1. frames = <<>>
  BY DEF Init
<1>2. AnswerTokens
  BY <1>1 DEF AnswerTokens
<1>3. OneHolderPerToken
  BY <1>1 DEF Init, OneHolderPerToken, NoBelief
<1> QED BY <1>2, <1>3, InitType, TokenAssumption
        DEF Init, TokenInv, RecordTokens, NewestTokenOnRecord, NoTokenNoLease, Untracked, NoBelief

LEMMA StepTokens == TokenInv /\ [Next]_vars => TokenInv'
<1> SUFFICES ASSUME TokenInv, [Next]_vars PROVE TokenInv'
  OBVIOUS
<1>0. TypeOK /\ TypeOK' /\ Resources \in SUBSET Resources
  BY StepType DEF TokenInv, NextOrClear
<1>c. ASSUME NEW R \in SUBSET Resources, NEW now, CleanExpired(R, now),
             UNCHANGED <<counter, belief>>, SameAnswers
      PROVE  TokenInv'
  BY <1>0, <1>c, DeactivatedTokens, KeepsTokens DEF CleanExpired
<1>s. ASSUME frames' = frames
      PROVE  SameAnswers
  BY <1>0, <1>s DEF SameAnswers, TypeOK
<1>1. ASSUME NEW r \in Resources, NEW h \in Holders, NEW d \in Requests, AcquireCall(r, h, d)
      PROVE  TokenInv'
  <2>1. Clamp(d) \in Nat /\ Enter("acquire", r, h, 0, Clamp(d))
    BY <1>1, ClampType, RequestsAssumption DEF AcquireCall
  <2>2. SameAnswers
    BY <1>0, <2>1, EnterAnswers
  <2> QED BY <1>c, <2>1, <2>2 DEF Enter, callerVars
<1>2. ASSUME NEW r \in Resources, NEW h \in Holders, NEW t \in Issued, NEW e \in Requests,
             RenewCall(r, h, t, e)
      PROVE  TokenInv'
  <2>1. t \in Nat /\ Clamp(e) \in Nat /\ Enter("renew", r, h, t, Clamp(e))
    BY <1>0, <1>2, ClampType, RequestsAssumption DEF RenewCall, Issued, TypeOK
  <2>2. SameAnswers
    BY <1>0, <2>1, EnterAnswers
  <2> QED BY <1>c, <2>1, <2>2 DEF Enter, callerVars
<1>3. ASSUME NEW r \in Resources, NEW h \in Holders, NEW t \in Issued, Release(r, h, t)
      PROVE  TokenInv'
  BY <1>0, <1>s, <1>3, GivesUpBelief, DeactivatedTokens, KeepsTokens DEF Release
<1>4. ASSUME NEW r \in Resources, NEW h \in Holders, NEW t \in Issued, ReleaseRefused(r, h, t)
      PROVE  TokenInv'
  BY <1>0, <1>s, <1>4, GivesUpBelief, KeepsTokens DEF ReleaseRefused, managerVars
<1>5. ASSUME NEW r \in Resources, ForceBreak(r)
      PROVE  TokenInv'
  BY <1>0, <1>s, <1>5, DeactivatedTokens, KeepsTokens DEF ForceBreak
<1>6. ASSUME NEW r \in Resources, Inspect(r)
      PROVE  TokenInv'
  BY <1>c, <1>s, <1>6 DEF Inspect, callerVars
<1>7. CASE ListActive
  BY <1>0, <1>c, <1>s, <1>7 DEF ListActive, callerVars
<1>8. CASE AcquireReenter
  <2>1. PICK r \in Resources : r = Top.resource
    BY <1>0, <1>8, TopFrame DEF AcquireReenter, Deciding, InCall, Top, TypeOK, Frame
  <2>2. SameAnswers
    BY <1>0, <1>8, ReenterAnswers
  <2> QED BY <1>c, <1>8, <2>1, <2>2 DEF AcquireReenter, callerVars
<1>9. CASE AcquireGrant
  BY <1>0, <1>9, GrantTokens
<1>10. CASE RenewExtend
  BY <1>0, <1>10, ExtendTokens
<1>11. CASE AnswerYes
  BY <1>0, <1>11, YesTokens
<1>12. CASE AcquireConflict \/ RenewRefused \/ AnswerNo \/ CallRaises
  BY <1>0, <1>12, QuietAnswers, KeepsTokens DEF managerVars
<1>13. CASE Tick
  BY <1>0, <1>s, <1>13, KeepsTokens DEF Tick, managerVars, callerVars
<1>14. CASE UNCHANGED vars
  BY <1>0, <1>s, <1>14, KeepsTokens DEF vars
<1> QED BY <1>1, <1>2, <1>3, <1>4, <1>5, <1>6, <1>7, <1>8, <1>9, <1>10, <1>11, <1>12, <1>13,
           <1>14 DEF Next, Call, Proceed

\* No holder knows a token above the one on record, and who knows the one on
\* record is the holder on record: storage that keeps the highest token it has
\* seen refuses every other holder.
THEOREM NewestTokenWins == Spec => []NewestTokenOnRecord
<1>1. Spec => []TokenInv
  BY InitTokens, StepTokens, PTL DEF Spec
<1>2. TokenInv => NewestTokenOnRecord
  BY DEF TokenInv
<1> QED BY <1>1, <1>2, PTL

\* Two holders that rely on one resource have different tokens.
THEOREM TokensDistinguish == Spec => []FencingDistinguishes
<1>1. Spec => []TokenInv
  BY InitTokens, StepTokens, PTL DEF Spec
<1>2. TokenInv => FencingDistinguishes
  <2> SUFFICES ASSUME TokenInv, NEW h \in Holders, NEW g \in Holders, NEW r \in Resources,
                      h # g, Live(h, r), belief[h][r].token = belief[g][r].token
               PROVE  FALSE
    BY DEF FencingDistinguishes
  <2>1. belief[h][r].deadline = 0
    BY DEF TokenInv, OneHolderPerToken, NoTokenNoLease
  <2> QED BY <2>1 DEF TokenInv, TypeOK, Live
<1> QED BY <1>1, <1>2, PTL

-------------------------------------------------------------------------------
(* Exclusive leases, as long as nobody clears the manager                      *)

\* A yes that is on its way is one with a lease that stands, that ended early, or
\* that will have expired when it is told.
AnswersBacked ==
  \A i \in 1..Len(frames) :
    LET f == frames[i] IN
    Answers(f) => \/ Stands(f, locks[f.resource])
                  \/ <<f.resource, f.token>> \in early
                  \/ DeadlineOf(f, locks[f.resource]) <= clock

BeliefInv ==
  /\ TimeInv
  /\ TokenInv
  /\ BeliefBacked
  /\ AnswersBacked

\* Beliefs and answers stay backed when none is added, time only advances, and a
\* record that changes was inactive, had expired, ended early, or is nobody's any
\* more.
LEMMA KeepsBacking ==
  ASSUME BeliefInv, clock' \in Nat, clock' >= clock, early \subseteq early', SameAnswers,
         \A h \in Holders, r \in Resources : belief'[h][r] \in {belief[h][r], NoBelief},
         \A r \in Resources : /\ locks'[r].fencing_token = locks[r].fencing_token
                              /\ locks'[r].expires_at = locks[r].expires_at,
         \A r \in Resources :
           \/ locks'[r] = locks[r]
           \/ ~locks[r].active
           \/ Expired(locks[r], clock)
           \/ <<r, locks[r].fencing_token>> \in early'
           \/ /\ ~Pending(r, locks[r].fencing_token)
              /\ \A h \in Holders : locks[r].holder = h =>
                                      belief'[h][r].token # locks[r].fencing_token
  PROVE  BeliefBacked' /\ AnswersBacked'
<1>0. /\ TypeOK /\ clock \in Nat
      /\ \A h \in Holders, r \in Resources :
           belief[h][r].deadline \in Nat /\ locks[r].expires_at \in Nat
  BY TokenTypes DEF BeliefInv, TimeInv, TypeOK
<1>1. BeliefBacked'
  <2> SUFFICES ASSUME NEW h \in Holders, NEW r \in Resources,
                      belief'[h][r].deadline > clock', <<r, belief'[h][r].token>> \notin early'
               PROVE  /\ locks'[r].active
                      /\ locks'[r].holder = h
                      /\ locks'[r].fencing_token = belief'[h][r].token
                      /\ locks'[r].expires_at >= belief'[h][r].deadline
    BY DEF BeliefBacked, Live
  <2>1. belief'[h][r] = belief[h][r]
    BY <1>0 DEF NoBelief
  <2>2. /\ locks[r].active /\ locks[r].holder = h
        /\ locks[r].fencing_token = belief[h][r].token
        /\ locks[r].expires_at >= belief[h][r].deadline
        /\ belief[h][r].deadline > clock
    BY <1>0, <2>1 DEF BeliefInv, BeliefBacked, Live
  <2>3. ~Expired(locks[r], clock)
    BY <1>0, <2>2 DEF Expired
  <2>4. locks'[r] = locks[r]
    BY <2>1, <2>2, <2>3
  <2> QED BY <2>1, <2>2, <2>4
<1>2. AnswersBacked'
  <2> SUFFICES ASSUME NEW i \in 1..Len(frames'), Answers(frames'[i])
               PROVE  \/ Stands(frames'[i], locks'[frames'[i].resource])
                      \/ <<frames'[i].resource, frames'[i].token>> \in early'
                      \/ DeadlineOf(frames'[i], locks'[frames'[i].resource]) <= clock'
    BY DEF AnswersBacked, Answers, Stands, DeadlineOf
  <2>1. i \in 1..Len(frames) /\ frames'[i] = frames[i] /\ Answers(frames[i])
    BY DEF SameAnswers
  <2>2. PICK f \in Frame : f = frames[i] /\ f = frames'[i]
    BY <1>0, <2>1, TokenTypes
  <2>3. f.resource \in Resources /\ DeadlineOf(f, locks[f.resource]) \in Nat
    <3>1. locks[f.resource].expires_at \in Nat /\ f.resource \in Resources
      BY <1>0, TokenTypes DEF Frame
    <3> QED BY <3>1 DEF DeadlineOf, Frame
  <2>4. DeadlineOf(f, locks'[f.resource]) = DeadlineOf(f, locks[f.resource])
    BY <2>2, <2>3 DEF DeadlineOf
  <2>5. CASE <<f.resource, f.token>> \in early \/ DeadlineOf(f, locks[f.resource]) <= clock
    BY <1>0, <2>2, <2>3, <2>4, <2>5
  <2>6. CASE Stands(f, locks[f.resource])
    <3>1. f.final = OnRecord
      <4>1. locks[f.resource].fencing_token \in Nat
        BY <1>0, <2>3, TokenTypes
      <4> QED BY <2>1, <2>2, <2>6, <4>1 DEF BeliefInv, TokenInv, AnswerTokens, Stands
    <3>2. Pending(f.resource, locks[f.resource].fencing_token)
      BY <2>1, <2>2, <2>6 DEF Pending, Stands, Answers
    <3>3. CASE locks'[f.resource] = locks[f.resource]
      BY <2>2, <2>6, <3>3 DEF Stands
    <3>4. CASE Expired(locks[f.resource], clock)
      BY <1>0, <2>2, <2>3, <2>4, <3>1, <3>4 DEF Expired, DeadlineOf
    <3>5. CASE <<f.resource, locks[f.resource].fencing_token>> \in early'
      BY <2>2, <2>6, <3>5 DEF Stands
    <3> QED BY <2>3, <2>6, <3>2, <3>3, <3>4, <3>5 DEF Stands
  <2>7. \/ Stands(f, locks[f.resource])
        \/ <<f.resource, f.token>> \in early
        \/ DeadlineOf(f, locks[f.resource]) <= clock
    BY <2>1, <2>2 DEF BeliefInv, AnswersBacked
  <2> QED BY <2>2, <2>5, <2>6, <2>7
<1> QED BY <1>1, <1>2

\* A cleaned record is unchanged or had expired.
LEMMA CleanedRecords ==
  ASSUME TypeOK, NEW R \in SUBSET Resources, CleanExpired(R, clock)
  PROVE  \A r \in Resources : locks'[r] = locks[r] \/ Expired(locks[r], clock)
BY DEF TypeOK, CleanExpired, Deactivated, Lapsed

\* A grant backs the answer that it is about to give; the record it overwrites
\* backed nobody.
LEMMA GrantBacks ==
  ASSUME BeliefInv, AcquireGrant
  PROVE  BeliefBacked' /\ AnswersBacked'
<1> DEFINE n == Len(frames)
<1>0. TypeOK /\ Top \in Frame /\ InCall /\ counter + 1 \in Nat /\ clock \in Nat
  BY TopFrame DEF BeliefInv, TimeInv, AcquireGrant, NextToken, Deciding, InCall, Top, TypeOK
<1>1. PICK r \in Resources, h \in Holders : r = Top.resource /\ h = Top.holder
  BY <1>0 DEF Frame
<1>2. ~locks[r].active
  BY <1>1, GrantFree DEF BeliefInv
<1>3. /\ \A s \in Resources : s # r => locks'[s] = locks[s]
      /\ locks'[r].active /\ locks'[r].fencing_token = counter + 1
      /\ clock' = clock /\ early' = early /\ belief' = belief
  BY <1>0, <1>1 DEF AcquireGrant, NextToken, callerVars, TypeOK
<1>4. /\ n \in Nat /\ n >= 1 /\ Len(frames') = n
      /\ frames'[n].resource = r /\ frames'[n].token = counter + 1
      /\ \A i \in 1..n - 1 :
           frames'[i] = IF /\ Answers(frames[i])
                           /\ frames[i].resource = r /\ frames[i].final = OnRecord
                        THEN [frames[i] EXCEPT !.final = locks[r].expires_at] ELSE frames[i]
  BY <1>0, <1>1, GrantFrames, AnswerFrame
<1>5. BeliefBacked'
  BY <1>2, <1>3 DEF BeliefInv, BeliefBacked, Live
<1>6. AnswersBacked'
  <2> SUFFICES ASSUME NEW i \in 1..n, Answers(frames'[i])
               PROVE  \/ Stands(frames'[i], locks'[frames'[i].resource])
                      \/ <<frames'[i].resource, frames'[i].token>> \in early
                      \/ DeadlineOf(frames'[i], locks'[frames'[i].resource]) <= clock
    BY <1>3, <1>4 DEF AnswersBacked, Answers, Stands, DeadlineOf
  <2>1. CASE i = n
    BY <1>3, <1>4, <2>1 DEF Stands
  <2>2. CASE i \in 1..n - 1
    <3>1. PICK f \in Frame : f = frames[i] /\ i \in 1..n
      BY <1>0, <1>4, <2>2, TokenTypes
    <3>2. locks[r].expires_at \in Nat /\ f.resource \in Resources
      BY <1>0, <3>1, TokenTypes
    <3>3. CASE Answers(f) /\ f.resource = r /\ f.final = OnRecord
      <4>1. frames'[i] = [f EXCEPT !.final = locks[r].expires_at]
        BY <1>4, <2>2, <3>1, <3>3
      <4>2. /\ frames'[i].resource = r /\ frames'[i].token = f.token
            /\ frames'[i].final = locks[r].expires_at /\ frames'[i].final # OnRecord
        BY <3>2, <3>3, <4>1 DEF Frame, OnRecord
      <4>3. <<r, f.token>> \in early \/ locks[r].expires_at <= clock
        BY <1>2, <3>1, <3>3 DEF BeliefInv, AnswersBacked, Stands, DeadlineOf
      <4> QED BY <4>2, <4>3 DEF DeadlineOf
    <3>4. CASE ~(Answers(f) /\ f.resource = r /\ f.final = OnRecord)
      <4>1. frames'[i] = f /\ Answers(f)
        BY <1>4, <2>2, <3>1, <3>4
      <4>2. \/ Stands(f, locks[f.resource])
            \/ <<f.resource, f.token>> \in early
            \/ DeadlineOf(f, locks[f.resource]) <= clock
        BY <3>1, <4>1 DEF BeliefInv, AnswersBacked
      <4>3. CASE f.resource = r
        BY <1>2, <3>4, <4>1, <4>2, <4>3 DEF Stands, DeadlineOf
      <4>4. CASE f.resource # r
        BY <1>3, <3>2, <4>1, <4>2, <4>4 DEF Stands, DeadlineOf
      <4> QED BY <4>3, <4>4
    <3> QED BY <3>3, <3>4
  <2> QED BY <1>4, <2>1, <2>2
<1> QED BY <1>5, <1>6

\* A renewal moves the deadline of the record on which only its holder relies; an
\* earlier deadline the holder is yet to be told of ends the lease early.
LEMMA ExtendBacks ==
  ASSUME BeliefInv, RenewExtend
  PROVE  BeliefBacked' /\ AnswersBacked'
<1> DEFINE n == Len(frames)
<1>0. TypeOK /\ Top \in Frame /\ InCall
  BY TopFrame DEF BeliefInv, TimeInv, RenewExtend, Deciding, InCall, Top, TypeOK
<1>1. PICK r \in Resources, h \in Holders : r = Top.resource /\ h = Top.holder
  BY <1>0 DEF Frame
<1>2. PICK d \in Nat : d = Top.now + Top.duration
  BY <1>0 DEF Frame
<1>3. /\ locks[r].active /\ locks[r].holder = h /\ locks[r].fencing_token = Top.token
      /\ Top.token \in Nat
  BY <1>0, <1>1 DEF RenewExtend, Holds, OwnedBy, Frame
<1>4. /\ \A s \in Resources : s # r => locks'[s] = locks[s]
      /\ locks'[r].active /\ locks'[r].holder = h /\ locks'[r].fencing_token = Top.token
      /\ locks'[r].expires_at = d
  BY <1>0, <1>1, <1>2, <1>3 DEF RenewExtend, TypeOK, Lock
<1>5. /\ belief' = belief /\ early \subseteq early' /\ clock' = clock /\ clock \in Nat
      /\ CutsShort(belief[h][r], Top.token, d) => <<r, Top.token>> \in early'
  BY <1>0, <1>1, <1>2 DEF RenewExtend, TypeOK
<1>6. /\ n \in Nat /\ n >= 1 /\ Len(frames') = n
      /\ frames'[n].resource = r /\ frames'[n].token = Top.token
      /\ \A i \in 1..n - 1 : frames'[i] = frames[i]
  <2>1. frames' = [frames EXCEPT ![Len(frames)] = AnswersWith(Top.token)]
    BY DEF RenewExtend
  <2>2. /\ n \in Nat /\ n >= 1 /\ Len(frames') = n
        /\ frames'[n] = AnswersWith(Top.token)
        /\ \A i \in 1..n - 1 : frames'[i] = frames[i]
    BY <1>0, <1>3, <2>1, AnswerFrames
  <2>3. AnswersWith(Top.token).resource = r /\ AnswersWith(Top.token).token = Top.token
    BY <1>0, <1>1, <1>3, AnswerFrame
  <2> QED BY <2>2, <2>3
<1>7. BeliefBacked'
  <2> SUFFICES ASSUME NEW g \in Holders, NEW s \in Resources,
                      belief[g][s].deadline > clock, <<s, belief[g][s].token>> \notin early'
               PROVE  /\ locks'[s].active
                      /\ locks'[s].holder = g
                      /\ locks'[s].fencing_token = belief[g][s].token
                      /\ locks'[s].expires_at >= belief[g][s].deadline
    BY <1>5 DEF BeliefBacked, Live
  <2>1. /\ locks[s].active /\ locks[s].holder = g
        /\ locks[s].fencing_token = belief[g][s].token
        /\ locks[s].expires_at >= belief[g][s].deadline
    BY <1>5 DEF BeliefInv, BeliefBacked, Live
  <2>2. CASE s # r
    BY <1>4, <2>1, <2>2
  <2>3. CASE s = r
    <3>1. g = h /\ belief[g][s].token = Top.token
      BY <1>3, <2>1, <2>3
    <3>2. d >= belief[g][s].deadline
      <4>1. belief[g][s].deadline \in Nat
        BY <1>0, TokenTypes
      <4> QED BY <1>5, <2>3, <3>1, <4>1 DEF CutsShort
    <3> QED BY <1>4, <2>3, <3>1, <3>2
  <2> QED BY <2>2, <2>3
<1>8. AnswersBacked'
  <2> SUFFICES ASSUME NEW i \in 1..n, Answers(frames'[i])
               PROVE  \/ Stands(frames'[i], locks'[frames'[i].resource])
                      \/ <<frames'[i].resource, frames'[i].token>> \in early'
                      \/ DeadlineOf(frames'[i], locks'[frames'[i].resource]) <= clock
    BY <1>5, <1>6 DEF AnswersBacked, Answers, Stands, DeadlineOf
  <2>1. CASE i = n
    BY <1>4, <1>6, <2>1 DEF Stands
  <2>2. CASE i \in 1..n - 1
    <3>1. PICK f \in Frame : f = frames[i] /\ f = frames'[i] /\ i \in 1..n
      BY <1>0, <1>6, <2>2, TokenTypes
    <3>2. f.resource \in Resources /\ Answers(f)
      BY <3>1 DEF Frame
    <3>3. \/ Stands(f, locks[f.resource])
          \/ <<f.resource, f.token>> \in early
          \/ DeadlineOf(f, locks[f.resource]) <= clock
      BY <3>1, <3>2 DEF BeliefInv, AnswersBacked
    <3>4. CASE Stands(f, locks[f.resource])
      BY <1>3, <1>4, <3>1, <3>2, <3>4 DEF Stands
    <3>5. CASE f.final = OnRecord /\ f.resource = r
      BY <1>3, <1>4, <3>1, <3>2, <3>5 DEF Stands, BeliefInv, TokenInv, AnswerTokens
    <3>6. CASE ~(f.final = OnRecord /\ f.resource = r)
      BY <1>4, <1>5, <3>1, <3>2, <3>3, <3>4, <3>6 DEF DeadlineOf
    <3> QED BY <3>5, <3>6
  <2> QED BY <1>6, <2>1, <2>2
<1> QED BY <1>7, <1>8

\* A holder is told of a lease that stands, until the deadline on record, or of
\* one that the answer on its way did not keep from ending.
LEMMA YesBacks ==
  ASSUME BeliefInv, AnswerYes
  PROVE  BeliefBacked' /\ AnswersBacked'
<1> DEFINE n == Len(frames)
<1>0. TypeOK /\ Top \in Frame /\ InCall /\ Top = frames[n] /\ n \in 1..n
  BY TopFrame DEF BeliefInv, TimeInv, AnswerYes, InCall, Top, TypeOK
<1>1. PICK r \in Resources, h \in Holders : r = Top.resource /\ h = Top.holder
  BY <1>0 DEF Frame
<1>2. PICK t \in Nat : t = Top.token
  BY <1>0 DEF Frame
<1>3. /\ locks' = locks /\ clock' = clock /\ SameAnswers /\ Answers(Top)
      /\ early' = IF Stands(Top, locks[r]) THEN early \ {<<r, t>>} ELSE early
  BY <1>0, <1>1, <1>2, PopAnswers DEF AnswerYes, managerVars
<1>4. \A g \in Holders, s \in Resources :
        belief'[g][s] = IF g = h /\ s = r THEN [token |-> t, deadline |-> DeadlineOf(Top, locks[r])]
                        ELSE belief[g][s]
  BY <1>0, <1>1, <1>2, ToldBelief DEF AnswerYes
<1>5. Stands(Top, locks[r]) =>
        /\ locks[r].active /\ locks[r].fencing_token = t /\ locks[r].holder = h
        /\ Top.final = OnRecord
  <2>1. locks[r].fencing_token \in Nat
    BY <1>0, TokenTypes
  <2> QED BY <1>0, <1>1, <1>2, <1>3, <2>1 DEF BeliefInv, TokenInv, AnswerTokens, Stands
<1>6. Stands(Top, locks[r]) \/ <<r, t>> \in early \/ DeadlineOf(Top, locks[r]) <= clock
  BY <1>0, <1>1, <1>2, <1>3 DEF BeliefInv, AnswersBacked
<1>7. DeadlineOf(Top, locks[r]) \in Nat /\ locks[r].expires_at \in Nat /\ clock \in Nat
  <2>1. locks[r].expires_at \in Nat
    BY <1>0, TokenTypes
  <2> QED BY <1>0, <1>1, <2>1 DEF DeadlineOf, Frame, TypeOK
<1>8. BeliefBacked'
  <2> SUFFICES ASSUME NEW g \in Holders, NEW s \in Resources,
                      belief'[g][s].deadline > clock, <<s, belief'[g][s].token>> \notin early'
               PROVE  /\ locks[s].active
                      /\ locks[s].holder = g
                      /\ locks[s].fencing_token = belief'[g][s].token
                      /\ locks[s].expires_at >= belief'[g][s].deadline
    BY <1>3 DEF BeliefBacked, Live
  <2>1. CASE g = h /\ s = r
    <3>1. belief'[g][s].token = t /\ belief'[g][s].deadline = DeadlineOf(Top, locks[r])
      BY <1>4, <2>1
    <3>2. Stands(Top, locks[r])
      BY <1>3, <1>6, <1>7, <2>1, <3>1
    <3>3. DeadlineOf(Top, locks[r]) = locks[r].expires_at
      BY <1>1, <1>5, <3>2 DEF DeadlineOf
    <3> QED BY <1>5, <1>7, <2>1, <3>1, <3>2, <3>3
  <2>2. CASE ~(g = h /\ s = r)
    <3>1. belief'[g][s] = belief[g][s]
      BY <1>4, <2>2
    <3>2. <<s, belief[g][s].token>> \notin early
      <4>1. ~(s = r /\ belief[g][s].token = t)
        BY <1>0, <1>1, <1>2, <1>3, <2>2 DEF BeliefInv, TokenInv, OneHolderPerToken
      <4> QED BY <1>3, <2>2, <3>1, <4>1
    <3> QED BY <3>1, <3>2 DEF BeliefInv, BeliefBacked, Live
  <2> QED BY <2>1, <2>2
<1>9. AnswersBacked'
  <2> SUFFICES ASSUME NEW i \in 1..Len(frames'), Answers(frames'[i])
               PROVE  \/ Stands(frames'[i], locks[frames'[i].resource])
                      \/ <<frames'[i].resource, frames'[i].token>> \in early'
                      \/ DeadlineOf(frames'[i], locks[frames'[i].resource]) <= clock
    BY <1>3 DEF AnswersBacked, Answers, Stands, DeadlineOf
  <2>1. i \in 1..n /\ frames'[i] = frames[i]
    BY <1>3 DEF SameAnswers
  <2>2. \/ Stands(frames[i], locks[frames[i].resource])
        \/ <<frames[i].resource, frames[i].token>> \in early
        \/ DeadlineOf(frames[i], locks[frames[i].resource]) <= clock
    BY <2>1 DEF BeliefInv, AnswersBacked
  <2>3. CASE Stands(Top, locks[r]) /\ <<frames[i].resource, frames[i].token>> = <<r, t>>
    BY <1>1, <1>2, <2>1, <2>3 DEF Stands
  <2>4. CASE ~(Stands(Top, locks[r]) /\ <<frames[i].resource, frames[i].token>> = <<r, t>>)
    BY <1>3, <2>1, <2>2, <2>4
  <2> QED BY <2>3, <2>4
<1> QED BY <1>8, <1>9

LEMMA InitBelief == Init => BeliefInv
<1> SUFFICES ASSUME Init PROVE BeliefBacked /\ AnswersBacked
  BY InitTime, InitTokens DEF BeliefInv
<1>1. frames = <<>>
  BY DEF Init
<1> QED BY <1>1 DEF Init, BeliefBacked, AnswersBacked, Live, NoBelief

LEMMA StepBelief == BeliefInv /\ [Next]_vars => BeliefInv'
<1> SUFFICES ASSUME BeliefInv, [Next]_vars PROVE BeliefBacked' /\ AnswersBacked'
  BY StepTime, StepTokens DEF BeliefInv, NextOrClear
<1>0. TypeOK /\ clock \in Nat /\ Resources \in SUBSET Resources
  BY DEF BeliefInv, TimeInv, TypeOK
<1>c. ASSUME NEW R \in SUBSET Resources, CleanExpired(R, clock), UNCHANGED <<clock, belief, early>>,
             SameAnswers
      PROVE  BeliefBacked' /\ AnswersBacked'
  <2>1. \A r \in Resources : /\ locks'[r].fencing_token = locks[r].fencing_token
                             /\ locks'[r].expires_at = locks[r].expires_at
    BY <1>0, <1>c, DeactivatedTokens DEF CleanExpired
  <2> QED BY <1>0, <1>c, <2>1, CleanedRecords, KeepsBacking
<1>s. ASSUME frames' = frames
      PROVE  SameAnswers
  BY <1>0, <1>s DEF SameAnswers, TypeOK
<1>1. ASSUME NEW r \in Resources, NEW h \in Holders, NEW d \in Requests, AcquireCall(r, h, d)
      PROVE  BeliefBacked' /\ AnswersBacked'
  <2>1. Clamp(d) \in Nat /\ Enter("acquire", r, h, 0, Clamp(d))
    BY <1>1, ClampType, RequestsAssumption DEF AcquireCall
  <2>2. SameAnswers
    BY <1>0, <2>1, EnterAnswers
  <2> QED BY <1>c, <2>1, <2>2 DEF Enter, callerVars
<1>2. ASSUME NEW r \in Resources, NEW h \in Holders, NEW t \in Issued, NEW e \in Requests,
             RenewCall(r, h, t, e)
      PROVE  BeliefBacked' /\ AnswersBacked'
  <2>1. t \in Nat /\ Clamp(e) \in Nat /\ Enter("renew", r, h, t, Clamp(e))
    BY <1>0, <1>2, ClampType, RequestsAssumption DEF RenewCall, Issued, TypeOK
  <2>2. SameAnswers
    BY <1>0, <2>1, EnterAnswers
  <2> QED BY <1>c, <2>1, <2>2 DEF Enter, callerVars
<1>3. ASSUME NEW r \in Resources, NEW h \in Holders, NEW t \in Issued, Release(r, h, t)
      PROVE  BeliefBacked' /\ AnswersBacked'
  <2>1. /\ t # 0 /\ clock' = clock /\ early \subseteq early' /\ SameAnswers
        /\ locks[r].fencing_token = t
        /\ Pending(r, t) => <<r, t>> \in early'
    BY <1>0, <1>s, <1>3 DEF Release, Issued, OwnedBy, TypeOK
  <2>2. /\ \A g \in Holders, s \in Resources : belief'[g][s] \in {belief[g][s], NoBelief}
        /\ belief'[h][r].token # t
    BY <1>0, <1>3, <2>1, GivesUpBelief DEF Release
  <2>3. /\ \A s \in Resources : s # r => locks'[s] = locks[s]
        /\ \A s \in Resources : /\ locks'[s].fencing_token = locks[s].fencing_token
                                /\ locks'[s].expires_at = locks[s].expires_at
    BY <1>0, <1>3 DEF Release, Deactivated, TypeOK, Lock
  <2>4. \A g \in Holders : locks[r].holder = g => belief'[g][r].token # locks[r].fencing_token
    BY <1>3, <2>2 DEF Release, OwnedBy
  <2> QED BY <1>0, <2>1, <2>2, <2>3, <2>4, KeepsBacking
<1>4. ASSUME NEW r \in Resources, NEW h \in Holders, NEW t \in Issued, ReleaseRefused(r, h, t)
      PROVE  BeliefBacked' /\ AnswersBacked'
  BY <1>0, <1>s, <1>4, GivesUpBelief, KeepsBacking DEF ReleaseRefused, managerVars
<1>5. ASSUME NEW r \in Resources, ForceBreak(r)
      PROVE  BeliefBacked' /\ AnswersBacked'
  <2>1. /\ \A s \in Resources : s # r => locks'[s] = locks[s]
        /\ \A s \in Resources : /\ locks'[s].fencing_token = locks[s].fencing_token
                                /\ locks'[s].expires_at = locks[s].expires_at
    BY <1>0, <1>5 DEF ForceBreak, Deactivated, TypeOK, Lock
  <2>2. /\ <<r, locks[r].fencing_token>> \in early' /\ early \subseteq early'
        /\ clock' = clock /\ belief' = belief /\ SameAnswers
    BY <1>5, <1>s DEF ForceBreak
  <2> QED BY <1>0, <2>1, <2>2, KeepsBacking
<1>6. ASSUME NEW r \in Resources, Inspect(r)
      PROVE  BeliefBacked' /\ AnswersBacked'
  BY <1>c, <1>s, <1>6 DEF Inspect, callerVars
<1>7. CASE ListActive
  BY <1>0, <1>c, <1>s, <1>7 DEF ListActive, callerVars
<1>8. CASE AcquireReenter
  <2>1. PICK r \in Resources : r = Top.resource
    BY <1>0, <1>8, TopFrame DEF AcquireReenter, Deciding, InCall, Top, TypeOK, Frame
  <2>2. SameAnswers
    BY <1>0, <1>8, ReenterAnswers
  <2> QED BY <1>c, <1>8, <2>1, <2>2 DEF AcquireReenter, callerVars
<1>9. CASE AcquireGrant
  BY <1>9, GrantBacks
<1>10. CASE RenewExtend
  BY <1>10, ExtendBacks
<1>11. CASE AnswerYes
  BY <1>11, YesBacks
<1>12. CASE AcquireConflict \/ RenewRefused \/ AnswerNo \/ CallRaises
  BY <1>0, <1>12, QuietAnswers, KeepsBacking DEF managerVars
<1>13. CASE Tick
  BY <1>0, <1>s, <1>13, KeepsBacking DEF Tick, managerVars, callerVars
<1>14. CASE UNCHANGED vars
  BY <1>0, <1>s, <1>14, KeepsBacking DEF vars
<1> QED BY <1>1, <1>2, <1>3, <1>4, <1>5, <1>6, <1>7, <1>8, <1>9, <1>10, <1>11, <1>12, <1>13,
           <1>14 DEF Next, Call, Proceed

\* A lease that its holder was told of, and that did not end early, is on record
\* until the deadline the holder knows, whatever listeners did between the write
\* of the record and the answer.
THEOREM LeasesAreBacked == Spec => []BeliefBacked
<1>1. Spec => []BeliefInv
  BY InitBelief, StepBelief, PTL DEF Spec
<1>2. BeliefInv => BeliefBacked
  BY DEF BeliefInv
<1> QED BY <1>1, <1>2, PTL

\* Two holders rely on one resource only after one of the two leases ended early:
\* it was broken, released before its holder was told of it, or shortened by a
\* renewal whose answer is still on its way or was lost.
THEOREM LeasesAreExclusive == Spec => []MutualExclusion
<1>1. BeliefBacked => MutualExclusion
  <2> SUFFICES ASSUME BeliefBacked, NEW h \in Holders, NEW g \in Holders, NEW r \in Resources,
                      h # g, Live(h, r), Live(g, r)
               PROVE  early \cap {<<r, belief[h][r].token>>, <<r, belief[g][r].token>>} # {}
    BY DEF MutualExclusion
  <2>1. <<r, belief[h][r].token>> \in early \/ <<r, belief[g][r].token>> \in early
    BY DEF BeliefBacked
  <2> QED BY <2>1
<1> QED BY <1>1, LeasesAreBacked, PTL

-------------------------------------------------------------------------------
(* LeaseManager implements LeaseMutex                                          *)

\* An active record has an owner.
LEMMA ActiveIsOwned ==
  ASSUME TokenInv, NEW r \in Resources, locks[r].active
  PROVE  OwnerOf(r) # Free
BY DEF TokenInv, RecordTokens, OwnerOf, Free

\* Leases that end are one step of End.
LEMMA EndsImplement ==
  ASSUME TokenInv, OnlyEnds, locks' \in [Resources -> Lock], counter' = counter
  PROVE  Mutex!AbstractNext
<1> DEFINE R == {r \in Resources : locks[r].active /\ ~locks'[r].active}
<1>1. \A r \in R : OwnerOf(r) # Free
  BY ActiveIsOwned
<1>2. \A r \in Resources : OwnerOf(r)' = IF r \in R THEN Free ELSE OwnerOf(r)
  BY DEF OnlyEnds, OwnerOf, Free, TokenInv, TypeOK, Lock
<1>3. Mutex!End(R)
  BY <1>1, <1>2 DEF Mutex!End
<1> QED BY <1>3 DEF Mutex!AbstractNext

\* A grant is one step of Grant: the record it overwrites is not active.
LEMMA GrantImplements ==
  ASSUME TimeInv, TokenInv, AcquireGrant
  PROVE  Mutex!AbstractNext
<1>0. TypeOK /\ Top \in Frame
  BY TopFrame DEF TimeInv, AcquireGrant, NextToken, Deciding, InCall, Top, TypeOK
<1>1. PICK r \in Resources, h \in Holders : r = Top.resource /\ h = Top.holder
  BY <1>0 DEF Frame
<1>2. OwnerOf(r) = Free
  BY <1>1, GrantFree DEF OwnerOf
<1>3. \A s \in Resources : OwnerOf(s)' =
        IF s = r THEN [holder |-> h, token |-> counter + 1] ELSE OwnerOf(s)
  BY <1>0, <1>1 DEF AcquireGrant, NextToken, TypeOK, OwnerOf, Free
<1>4. counter' = counter + 1
  BY DEF AcquireGrant, NextToken
<1>5. Mutex!Grant(r, h)
  BY <1>2, <1>3, <1>4 DEF Mutex!Grant
<1> QED BY <1>5 DEF Mutex!AbstractNext

\* A renewal changes neither owner nor token.
LEMMA ExtendImplements ==
  ASSUME TypeOK, RenewExtend
  PROVE  UNCHANGED Mutex!abstractVars
<1>1. \A s \in Resources : OwnerOf(s)' = OwnerOf(s)
  BY DEF RenewExtend, TypeOK, Lock, OwnerOf, Free
<1> QED BY <1>1 DEF Mutex!abstractVars, RenewExtend

LEMMA StepImplements ==
  TimeInv /\ TokenInv /\ [Next]_vars => [Mutex!AbstractNext]_Mutex!abstractVars
<1> SUFFICES ASSUME TimeInv, TokenInv, [Next]_vars
             PROVE  [Mutex!AbstractNext]_Mutex!abstractVars
  OBVIOUS
<1>0. TypeOK /\ clock \in Nat /\ locks' \in [Resources -> Lock]
  BY StepType DEF TimeInv, NextOrClear, TypeOK
<1>c. ASSUME NEW R \in SUBSET Resources, CleanExpired(R, clock), counter' = counter
      PROVE  Mutex!AbstractNext
  BY <1>0, <1>c, CleanOnlyEnds, EndsImplement
<1>1. CASE Call
  <2>1. ASSUME NEW r \in Resources, NEW op, NEW h, NEW t, NEW d, Enter(op, r, h, t, d)
        PROVE  Mutex!AbstractNext
    BY <1>c, <2>1 DEF Enter
  <2>2. ASSUME NEW r \in Resources, locks' = Deactivated({r}), counter' = counter
        PROVE  Mutex!AbstractNext
    BY <1>0, <2>2, DeactivatedOnlyEnds, EndsImplement
  <2>3. ASSUME NEW r \in Resources, Inspect(r)
        PROVE  Mutex!AbstractNext
    BY <1>c, <2>3 DEF Inspect
  <2>4. CASE ListActive
    BY <1>c, <2>4 DEF ListActive
  <2>5. ASSUME UNCHANGED managerVars
        PROVE  Mutex!AbstractNext
    BY <1>0, <2>5, EndsImplement DEF managerVars, OnlyEnds
  <2> QED BY <1>1, <2>1, <2>2, <2>3, <2>4, <2>5
          DEF Call, AcquireCall, RenewCall, Release, ReleaseRefused, ForceBreak
<1>2. CASE AcquireReenter
  <2>1. PICK r \in Resources : r = Top.resource
    BY <1>0, <1>2, TopFrame DEF AcquireReenter, Deciding, InCall, Top, TypeOK, Frame
  <2> QED BY <1>c, <1>2, <2>1 DEF AcquireReenter
<1>3. CASE AcquireGrant
  BY <1>3, GrantImplements
<1>4. CASE RenewExtend
  BY <1>0, <1>4, ExtendImplements
<1>5. ASSUME UNCHANGED <<locks, counter>>
      PROVE  UNCHANGED Mutex!abstractVars
  BY <1>5 DEF Mutex!abstractVars, OwnerOf, Free
<1> QED BY <1>1, <1>2, <1>3, <1>4, <1>5 DEF Next, Proceed, AcquireConflict, RenewRefused,
           AnswerNo, AnswerYes, CallRaises, Tick, managerVars, vars

\* Every behaviour of the manager without clear() is one of the abstract lock:
\* grants go to free resources only, and each carries a new, higher token.
THEOREM ManagerImplementsMutex == Spec => ImplementsMutex
<1>1. Init => Mutex!AbstractInit
  BY DEF Init, Untracked, OwnerOf, Mutex!AbstractInit, Free
<1>2. Init => TimeInv /\ TokenInv
  BY InitTime, InitTokens
<1>3. TimeInv /\ TokenInv /\ [Next]_vars => (TimeInv /\ TokenInv)'
  BY StepTime, StepTokens DEF NextOrClear
<1> QED BY <1>1, <1>2, <1>3, StepImplements, PTL
        DEF Spec, ImplementsMutex, Mutex!AbstractSpec
===============================================================================
