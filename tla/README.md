# TLA+ verification of the Automation Testing service

The repository is a Python service: `APIService` (`src/src/api.py`) checks a token and calls one
of some twenty in-memory engines, which announce what they did on a synchronous event bus. This
directory holds TLA+ modules of the engines that carry real state, TLC configurations that check
them on small instances, and TLAPS proofs that carry every safety property of the passing runs to all values of the constants. `PROJECT.json` maps
every definition to the source lines it models.

Paths below are relative to the repository root as it is found under `src/`: `leases.py` stands
for `src/src/leases.py`.

## 1. Inventory

How the parts interact:

- **Calls.** A handler of `APIService` validates the token, calls one method of one engine, and turns a
  `ValueError` into a status code. Handlers hold no state of their own.
- **Callbacks.** Every engine publishes to the one `EventDispatcher`. `publish` calls the listeners
  *inside* the call of the engine. A listener may call any engine again, or raise; an
  exception leaves `publish` and the engine's method. This is the main source of interleaving in
  the program: it happens in a single thread.
- **Handlers.** `ResilienceManager.execute`, `TaskQueue.process_next`, `SchedulerEngine.trigger_now`
  and `WorkflowEngine` run code of their callers in the middle of their own.
- **Time.** `time.time()` is read at the start of a call and used to its end. The models take it to
  be monotonic.
- **Threads.** Nothing starts one and nothing takes a lock, but `storage.py:44` and `cache.py:21`
  call their classes thread-safe.
- Nothing is persisted and nothing is sent over a network.

| Component | State | Operations | What is hard | What makes it correct |
|---|---|---|---|---|
| `LeaseManager` (`leases.py`) | record per resource, fencing counter, statistics | acquire, renew, release, force_break, inspect, list_active, clear | listeners run in the middle of acquire and renew; listeners that end a lease before its holder is told of it; stale tokens; lost answers | a holder's lease is backed by the record unless it ended early; exclusion; tokens order the owners; every grant ends once |
| `StreamRouterEngine` (`stream_router.py`) | messages, topic index, dead letter queue, subscriptions | publish, subscribe, unsubscribe, poll, acknowledge, nack, replay, clear | purge, nack and replay in any order; repeated calls | map and index agree; dead messages can be replayed, once each; no redelivery of what a group acknowledged |
| `ResilienceManager` (`resilience.py`) | state, counters and last change per circuit | create, execute, trip, reset, look-ups, clear | outcomes of overlapping executions; raising listeners | counters agree with the state; late outcomes leave an open circuit as it is; recovery |
| `EventDispatcher` (`events.py`) | listeners per event, audit log | subscribe, unsubscribe, publish | the list is changed while it is walked; nested publication | subscribers are called in order, once, and not skipped |
| `TaskQueue` (`task_queue.py`) | tasks with status and retries | enqueue, cancel, process_next, process_all, clear | handlers that use the queue; retries | one run at a time, runs bounded by retries, every task ends |
| `TrafficThrottler` (`throttler.py`) | rules, buckets, logs, blacklist | evaluate, register, blacklist, reset, clear | rules replaced while buckets and logs live on; window edges | no more admitted than the rule allows; `retry_after` is honoured |
| items (`api.py`, `storage.py`) | list of items | add, delete, batches, clear | ids made of the count; lock-free read and replace | nothing lost; ids |
| `ContractValidationEngine` (`contracts.py`) | schemas, name index | register, delete, look up, validate, clear | several schemas of one name and version; Python's types, its equality and its regex errors | index leads to live, newest schemas; validation agrees with the declarations |
| `SchedulerEngine` (`scheduler.py`) | jobs, run history, handlers | schedule, pause, resume, trigger_now, cancel, clear | nested triggers; listener raising in the try block | every run is counted and recorded once; a cancelled job stays cancelled |
| `VaultManager` (`vault.py`) | secrets with their versions | store, get, rotate, revoke, clear | storing over a revoked secret, expiry, listeners | versions name who made them; an answer about revocation is true of the entry it shows |
| `AuthService` (`auth.py`) | sessions by token | generate_token, validate_token, user and role look-ups | the look-ups validate first and then read the session; validation deletes expired ones | a token counts until it expires, and not after |
| `AuditLogManager` (`audit.py`) | hash-chained records, last hash | record_event, verify_integrity, clear | records alias the caller's details; listeners record further events | the chain verifies exactly when the trail is what was recorded |
| `WorkflowEngine` (`workflows.py`) | workflows, executions | create, delete, execute, clear | failing steps, raising listeners, clear during an execution | the status sums up the steps; no execution is abandoned half way |
| `NotificationService` (`notifications.py`) | notifications | send, cancel, retry | retry of a cancelled one | ended stays ended |
| `FeatureFlagManager` (`feature_flags.py`) | flags | create, update, toggle, delete, evaluate, clear | an update that is refused half way; listeners that raise after the change; percentages at their ends | a refused call changes no more than a switch; a rollout that grows keeps its users |
| `PolicyEngine` (`policies.py`) | rules | create, delete, evaluate, clear | empty lists, missing keys, any order | the decision follows from the rules as a whole |
| `RateLimiter`, `CacheManager` | time stamps, entries | is_allowed, get, set | window edge; check then delete | limits |
| analytics, metrics, webhooks, plugins, models, utils, config, scripts | samples, counters, registries | | nothing that spans steps | |

The hazards behind the properties are listed, each at its line, in `PROJECT.json`.

## 2. Modules

`X` is a component's specification, `MCX` gives its constants values for TLC, `XProofs` holds theorems
about it.

| Module | Models | State and actions |
|---|---|---|
| `LeaseMutex` | what the lease manager promises | abstract: an owner per resource, a fence; `Grant`, `End` |
| `Leases` | `LeaseManager` | one action per call; acquire and renew clean, decide and answer in three steps, with a stack of frames for the listeners in between |
| `StreamRouter` | `StreamRouterEngine` | one action per call; nack has one action per outcome, so has poll with an ad-hoc subscription |
| `Resilience` | one circuit | execute is `Start` and one of four ends; `Reject` when the circuit is open |
| `TaskQueue` | `TaskQueue` | `Start` runs a handler, `HandlerReturns` and `HandlerRaises` end the innermost one |
| `Throttler` | `TrafficThrottler`, one client | `Admit` and `Refuse` are the two ends of `evaluate` |
| `Traffic` | `StreamRouter`, `Throttler` and `Resilience` | the three modules, one of them per behaviour |
| `EventBus` | `EventDispatcher`, one event name | `Publish` opens a walk, `CallListener` moves it on, listeners act in between |
| `Audit` | `AuditLogManager` | `Record`, `Clear`, `Tamper`; `Valid` is `verify_integrity` |
| `AuditBus` | `EventBus` and `Audit` together | `record_event` records and publishes; listeners record, clear, subscribe, raise |
| `Scheduler` | `SchedulerEngine` | a trigger in progress is a frame: its handler runs, or the listeners of its end do |
| `Workflows` | `WorkflowEngine` | an execution in progress is a frame: starting, at a step, or ending |
| `Automation` | `Scheduler` and `Workflows` on one stack | jobs whose handlers execute workflows, steps that trigger jobs |
| `Auth` | `AuthService` | sessions, tokens found expired, and the clock |
| `Vault` | `VaultManager` | secrets by name, entries as objects |
| `Service` | the vault handlers of `APIService` on `Auth` and `Vault` | a request is checked, changes the vault, publishes, answers; each is a step |
| `ItemStore` | item handlers and `InMemoryStorage` | add and delete in two steps each, per thread |
| `Contracts` | the registry of `ContractValidationEngine` | `Register`, `Delete`, `Clear` |
| `ContractRules` | `validate` | a pure operator `Errors`, applied to one schema and any payloads |
| `Policies` | `PolicyEngine` | `Create`, `Delete`, `Clear`; `Decision` is `evaluate` |
| `Flags` | `FeatureFlagManager` | `Create`, `Update`, `Toggle`, `Delete`, `Clear`; `Active` is `evaluate` |
| `Registries` | the engines that call nobody before their work is done | the five modules above, one of them per behaviour |
| `Lists` | the list comprehension of Python | `Sublist`, the elements of a list at some positions |
| `ListProofs` | | lemmas about lists, stacks and `Sublist` that other proof modules use |

Modelling decisions that need a word:

- **Nesting.** User code (listeners, handlers) runs inside the calls of the engines. Where an engine goes on working
  after user code ran, its call is a *frame* of a stack: user code acts as long as the top frame is one
  that is calling it, and every action of the engine is about the top frame. Where an event is published
  when the work is done and the answer does not depend on what its listeners do, the call is one step, and a listener that raises
  takes the answer away. `list_active` publishes per
  resource; what a listener can do between two of them it can also do between two `inspect`s.
- **Two publications per call.** In `Leases`, acquire and renew publish twice: `lock_expired` between the cleaning of the record and
  the decision (`leases.py:87`, `leases.py:106`), and `lock_acquired`, `lease_renewed` or `lock_conflict` between the decision and the answer
  (`leases.py:119`, `146`, `189`). The listeners of the second are told holder and token, and may release, break, renew or regrant the lease
  that is about to be announced to its holder. A frame whose `op` is `answer` stands for a call at that point. `AnswerYes` tells the holder what
  the call's lease has become by then, as `lock.to_dict()` does: the record, if it is still there, or (`final`) the deadline it had when another grant or
  `clear()` replaced it. `CallRaises` loses the answer.
- **One stack for two engines.** `Automation` instantiates `Scheduler` and `Workflows` with the same variable `stack`. A frame
  carries its `kind`, and each engine's actions are about frames of its own kind.
- **Beliefs.** In `Leases`, `belief` is the answer each holder last got. It is what exclusion is about: the
  manager's own record is exclusive by its type. `early` collects the tokens of leases that ended before
  their holder was told they would, in one of three ways: the lease was broken; a renewal shortened it and its answer is still on its way or was
  lost; a listener released it, in the holder's name, while the answer that grants or renews it was on its way. A holder that releases a lease itself has
  stopped relying on it.
- **Stale tokens.** A holder may present every lease token issued so far, its own or not.
- **The circuit's clock** is the time since the last change, up to the recovery timeout; longer
  waits act alike. `failures` stops at the threshold for the same reason.
- **Throttler.** One client, since clients share only the rules. An unknown rule name falls back
  to the standard rule, then to a bucket of its own. `evaluate` reads the clock once.
  A tick is a hundredth of a second, the unit that `retry_after` is rounded to (`throttler.py:249`, `289`). `round` goes to the nearest hundredth, so for a bucket the model takes
  any wait within half a tick of the exact one (`Rounded`), shorter or longer; for a window times are whole ticks and the rounding changes nothing. A wait rounded down is
  too short, and the client that takes it at its word is refused; `RetryHonoured` speaks of one that comes later than that (`clock > due`), by one hundredth
  or more.
- **Hashes.** SHA-256 is taken to be free of collisions: in `Audit` a hash is the sequence of everything hashed into it,
  in `Auth` a token is its user and the time it was made. In `Flags` the bucket of a user is a constant function, any at all.
- **Auth.** `generate_token` reads the clock twice, so the session may be younger than its token. `MaxSessions` counts the tokens ever
  made. A handler validates twice: once for itself, and once inside `get_user_from_token` (`api.py:772` and the
  other vault handlers); the second time the token may have expired, and the actor is the fallback.
- **Vault entries are objects.** Storing over a revoked secret makes a new entry; who holds the old one goes on reading
  it. `get_secret` publishes and then reads its entry again, which is why `Answer` is a step of its own. Some handlers catch
  `ValueError` around the whole call, so a listener's `ValueError` becomes a refusal of what was done; `Raise` covers both.
- **Registries, Traffic.** The engines in either share no state and never call one another, so a behaviour of all of them is any mix of
  behaviours of each, and what is always true of one is so in the mix. Each behaviour therefore runs one of them, chosen
  at the start (`engine`); the others stay as they were initially. Proofs about them are in one module, and each engine's
  invariant is also proved of its own specification (`EnginesAlone`).
- **List comprehensions** are `Sublist`, a recursive function over positions, where the standard `SelectSeq` would do for TLC: the
  prover does not see the definition of that one.
- **What was admitted** is kept in `Throttler` as totals, `admitted[k][t]` up to the end of tick `t`, so that the admissions of any
  stretch of time are a difference and no sum over it is needed.
- **Policies** keep what the maker of a rule asked for (`asked`), which the engine forgets when it turns an empty list into `*`.
- **Left out:** names of items, message payloads, values of secrets, contexts and parameters of workflows, wording,
  metadata, the checks for empty strings, and counters of `get_stats` that nothing depends on. `Leases` keeps four counters
  of the statistics because `Accounting` is about them, `Scheduler` two because `RunsAreCounted` is.
- **Flags.** `outcome` tells whether the last call was answered, refused by the manager, or abandoned because a listener of `flag_created`, `flag_updated`, ... raised after
  everything had been assigned (`feature_flags.py:75`, `115`). The handlers turn a `ValueError` into 400 either way; the two leave different states behind.
- **Policies** ask for any of the selections in `Askings`, lists that name `*` beside others included.
- **Contract values** are a Python kind and a size; `nan` is a size that compares with nothing. `Equal` is the `==` behind `in`
  (`contracts.py:262`), for which 1, 1.0 and True are one value. `Malformed` is a pattern that `re` cannot compile: a string that meets it makes `validate` raise, after which `errors` is `None`. Schemas
  passed as ready-made `SchemaField` objects, whose type is not checked (`contracts.py:133`), are left out.

## 3. Runs

| Run | Shows | Bounds |
|---|---|---|
| `LeasesExclusion` | `BeliefBacked`, `MutualExclusion`, `NewestTokenOnRecord`, and that `Leases` implements `LeaseMutex` (`ImplementsMutex`) | 1 resource, 2 holders, 3 ticks, 2 grants, 3 calls inside one another, durations below the floor and above the ceiling (1.6 million states) |
| `LeasesAccounting` | `Accounting`, `StaleNowIsSafe`, with `clear()` | 2 resources, 1 holder, 2 ticks, 2 grants, 2 calls inside one another (3.5 million states) |
| `TrafficCalls` | `IndexConsistent`, `DeadLettersWait`, `ReplayedOnce`, `RedeliveredOnlyAfterDeath`, `OverflowOnlyByReplay`; `WindowBound`, `BucketBound`, `RetryHonoured`; `ClosedBelowThreshold`, `OpenIgnoresLateCalls` | 2 messages, topics and groups, retention limit 1, retries 1 (after a replay) and 2, 2 dead-letterings; 4 ticks, 4 rules that replace one another, costs 1 and 2; 3 overlapping calls, thresholds and timeout 2 (0.9 million states) |
| `ResilienceCircuit` | `Recovers` | 3 overlapping calls, thresholds and timeout 2 |
| `TaskQueueRuns` | `RunsOnce`, `RunsMatchRetries`, `EndedIsFinal`, `EveryTaskEnds` | 3 tasks, 2 retries, 2 nested handlers |
| `AuditBusWalk` | `CallsFollowTheList`, `MissesAtMostRemovals`, `ValidIsPrefix` | 3 listeners in a list of 3, 2 nested walks, 2 removals per walk, 2 records with 2 details (1.5 million states) |
| `AutomationCalls` | `RunsAreCounted`, `RunsAreRecorded`, `CancelledIsFinal`, `StatusTellsResults`, `AbandonedBeforeFirstStep` | 1 job with 3 runs, 1 workflow of 3 steps that do and do not stop on failure, 1 execution, 3 calls nested (0.3 million states) |
| `ServiceCalls` | `ActorIsTokenUser`, `AnswerTellsRevocation` | 2 users, 2 tokens that live for 1 tick, 2 ticks, 1 name with 2 entries of 2 versions, 2 nested requests (1.7 million states) |
| `RegistriesCalls` | `SharedIdsPaidFor`, `IndexIsLive`, `IndexIsNewest`, `VerdictIsReference`, `RelaxedAccepts`, `DecisionIsReference`, `RolloutOnlyGrows`, `RefusalTurnsSwitchAtMost` | 7 items; 4 schemas, 2 names, 2 versions, 3 stored at once; all schemas of 2 fields out of 13 definitions with all payloads out of 10 values; 2 policies; percentages -1, 0, 1, 50, 100 and 101 (0.3 million states) |
| `ItemStoreThreads` | **violated**: `NothingLost` with two threads | 4 items |
| `ContractsLostName` | **violated**: `FoundByName` | 2 schemas |
| `AutomationCounts` | **violated**: `RunsCountedOnce` | as `AutomationCalls` |

Why the bounds are enough: each lets every hazard happen at least once with one more actor or step than
it needs. A lease can lapse, be granted to another holder and meet the first one's late call inside
a listener, and so it can be released and regranted by
the listeners of its own grant before its holder is told (2 holders, 3 frames, 2 grants). With the retention limit at 1 the second message
purges the first, and a dead message can be purged, replayed and die again. Three calls let
one trip the circuit, one probe it and one return late. Window and bucket rules differ in
capacity, rate and window, so every replacement of one by another is met within 4 ticks. Three frames let the handler of a job execute a
workflow whose step triggers the job again. A token that lives for one tick can expire between any two steps of a request,
and another user's token then be made. Two records are one to change and one whose hash depends on it, or two to swap; two
rules are one that allows and one that denies, in either order; a third adds no new kind of meeting.

The names of the bounds (`MaxClock`, `MaxTime`, `MaxGrants`, `MaxDepth`, `MaxDeadLetters`, `MaxListeners`, `MaxRemovals`, `MaxRecords`,
`MaxSessions`, `MaxEntries`, `MaxVersions`, `MaxPolicies`, `MaxItems`, `MaxId`) are constants, and they appear in guards only.

Symmetry is used where holders, messages, groups, listeners, users, executions, names or ids are interchangeable, and never in
a run that checks liveness. The `TypeOK` of each module is left to the proofs where there is one.

**Fairness.** `Recovers` assumes that time passes, that callers keep calling and that handlers
return (`WF` of `Tick`, of a `Start` that will succeed, and of `End`, per call); only a caller's request makes an
open circuit look at the clock, so without calls nothing recovers. `healthy` is the environment's
promise that from then on nobody trips or clears the circuit and new handlers succeed; calls that were
running may still fail. `EveryTaskEnds` assumes that `process_all` goes on as long as it finds a
task, which is its loop (`task_queue.py:96`), and that handlers end.

## 4. What the runs found

Three of these are checked as violations. The others were met on the way and are recorded here, with the property
that says what does hold.

- `delete_schema` removes the index entry of its schema's name and version without looking whose id it holds
  (`contracts.py:206`). Deleting the older of two schemas of one name and version makes the
  newer one unreachable by name, against `contracts.py:180`. (`ContractsLostName`)
- `InMemoryStorage` says it is thread-safe (`storage.py:44`); `delete` copies the list and puts
  the copy back (`storage.py:70`), so a concurrent add is lost. (`ItemStoreThreads`)
- A listener of `job_executed` that raises does so inside the try block of `trigger_now` (`scheduler.py:178`): the run is counted
  twice (183) and recorded as failed although its handler returned, where `tests/test_scheduler.py:50` has one run count once. (`AutomationCounts`) `RunsAreCounted`
  says that no run is missing and that only such runs can count twice. A listener of `job_failed` that raises
  leaves `trigger_now` before the record is kept (185); in the model such a run is `forgotten`, which `RunsAreRecorded` allows.
- A listener of `lock_acquired` may release the lease, and even acquire it for another holder, before the first holder is told `acquired=True` (`leases.py:146`):
  two holders then rely on the resource, without a forced break or a lost answer. `BeliefBacked` and `MutualExclusion` name this among the three ways a lease
  ends early, and `FencingDistinguishes` says that the tokens still tell the two apart.
- `retry_after` is rounded to the nearest hundredth (`throttler.py:249`): at three tokens a second a client that lacks one is told 0.33 s, has 0.99 of it then, and
  is refused. `RetryHonoured` holds from one hundredth later on.
- A regular expression that does not compile is accepted in a schema; the first string that is matched against it raises `re.error` out of `validate` (`contracts.py:249`), which is
  not a `ValueError`.
- A listener of the start of a workflow execution that raises leaves the execution RUNNING for ever (`workflows.py:161`).
  `AbandonedBeforeFirstStep` says that this happens before the first step only.
- Records cut off the end of the audit trail pass `verify_integrity` (`audit.py:135`) until another event is recorded, although
  the trail calls itself tamper-evident (`audit.py:2`). `ValidIsPrefix` says what it does find.
- A vault handler validates its token twice. If it expires in between, the change is made all the same, in the name of
  the fallback user. `ActorIsTokenUser` bounds it.
- A secret that expired cannot be read but can be rotated, which does not renew it; storing it anew needs it to be revoked first.
- `update_flag` raises for a percentage out of range after it has changed the switch (`feature_flags.py:103`).
  `RefusalTurnsSwitchAtMost` says that it changed nothing else. When a listener raises, all of the change stands, and the client is
  told 400 all the same if it was a `ValueError` (`api.py:596`).
- A policy with an empty list of roles, actions or resources applies to all of them, and a condition on `None` is met by a context
  without the key. `DecisionIsReference` takes both as meant.
- The latest version of a contract is the last *string* (`contracts.py:190`, comment at 189):
  9.0 beats 10.0.
- An item's id is the number of items plus one (`api.py:204`), where `docs/architecture.md:109` says auto-incremented: after a
  deletion ids repeat. `SharedIdsPaidFor` bounds how many.
- A listener that unsubscribes itself makes `publish` skip the next one (`events.py:46`), where `events.py:37` says
  that all subscribers are reached. `MissesAtMostRemovals` bounds the loss.
- Replaying a purged message exceeds the retention limit (`stream_router.py:289`, comment at 144), and publishing takes
  one message off only. `OverflowOnlyByReplay` bounds it.
- Acknowledging a dead message gives it the status ACKNOWLEDGED (`stream_router.py:227`), so that other groups are given it again while
  its entry stays in the dead letter queue, whence a replay makes it pending for every group. `DeadLettersWait` says that every message of status DEAD_LETTER has an entry that waits, not the converse.
- `clear()` puts the fencing counter back to 1000 (`leases.py:272`), where the docstring at `leases.py:56` calls tokens
  monotonic. The API never calls it; the properties about tokens are stated for the manager without it.
- `retry_notification` is said to retry "a failed or pending notification" (`notifications.py:134`) and takes any, a cancelled one included.
- `allowed_values` is ignored for every type but string and integer (`contracts.py:265`); no document says otherwise, so
  `ContractRules` takes it as it is.

## 5. Proofs

For every value of the constants, under the assumptions named in the modules:

| Module | Theorem | Says |
|---|---|---|
| `LeasesProofs` | `TypeCorrect`, `StaleNow`, `EveryLeaseAccounted` | `TypeOK`, `StaleNowIsSafe`, `Accounting` of `ClearingSpec`, the manager with `clear()` |
| | `LeasesAreBacked`, `LeasesAreExclusive`, `NewestTokenWins`, `TokensDistinguish` | `BeliefBacked`, `MutualExclusion`, `NewestTokenOnRecord`, `FencingDistinguishes` |
| | `ManagerImplementsMutex` | `ImplementsMutex`, the refinement of `LeaseMutex` |
| `TrafficProofs` | `TypeCorrect`, `IndexIsConsistent`, `OverflowIsByReplay`, `DeadLettersCanBeReplayed` | `TypeOK`, `IndexConsistent`, `OverflowOnlyByReplay`, `DeadLettersWait` |
| | `NoReplayTwice`, `RedeliveryIsAfterDeath` | `ReplayedOnce`, `RedeliveredOnlyAfterDeath` |
| | `WindowsAreBounded`, `BucketsAreBounded`, `RetriesAreHonoured` | `WindowBound`, `BucketBound`, `RetryHonoured` |
| | `ClosedIsBelowThreshold`, `LateCallsAreIgnored` | `ClosedBelowThreshold`, `OpenIgnoresLateCalls` |
| | `EnginesAlone` | the same of each engine by itself |
| `TaskQueueProofs` | `TypeCorrect`, `TasksRunOnce`, `RunsAreRetries`, `EndsAreFinal` | `TypeOK`, `RunsOnce`, `RunsMatchRetries`, `EndedIsFinal` |
| `AutomationProofs` | `TypeCorrect`, `NoRunGoesUncounted`, `EveryRunIsRecorded`, `CancellingIsFinal` | `TypeOK`, `RunsAreCounted`, `RunsAreRecorded`, `CancelledIsFinal` |
| | `StatusIsSummary`, `NoneIsAbandonedLater` | `StatusTellsResults`, `AbandonedBeforeFirstStep` |
| | `SchedulerAlone`, `WorkflowsAlone` | the same of each engine by itself |
| `AuditBusProofs` | `TypeCorrect`, `CallsAreInOrder`, `RemovalsBoundMisses`, `IntegrityIsPrefix` | `TypeOK`, `CallsFollowTheList`, `MissesAtMostRemovals`, `ValidIsPrefix` |
| `ServiceProofs` | `TypeCorrect`, `AnswersTellRevocation`, `ActorsAreTokenUsers` | `TypeOK`, `AnswerTellsRevocation`, `ActorIsTokenUser` |
| `RegistriesProofs` | `LookUpsAreLive`, `LookUpsFindTheNewest` | `IndexIsLive`, `IndexIsNewest` |
| | `VerdictsAgree`, `RelaxingKeepsPayloads` | `VerdictIsReference`, `RelaxedAccepts` |
| | `RefusedUpdatesTurnSwitchAtMost`, `GrowingRolloutsKeepUsers` | `RefusalTurnsSwitchAtMost`, `RolloutOnlyGrows` |
| | `DecisionsIgnoreOrder`, `SharedIdsAreRemovals` | `DecisionIsReference`, `SharedIdsPaidFor` |

The assumptions say that bounds are natural numbers, that what stands for "nothing" (`NoHolder`, `NoRecord`, `NoSchema`, `None`, ...) is not
one of the things, that the sets whose members are counted are finite, that durations satisfy `0 < MinDuration <= MaxDuration`, that
thresholds are positive, and that field definitions and values are of the shapes that `contracts.py` makes. TLC evaluates them in every run.

**Leases.** The difficulty is the `now` that a call read before it ran listeners.

1. `TimeInv` adds `FramesOrdered` to the types: frames that are yet to decide are ordered by the time they started, and none is in
   the future or asks for an empty lease. An inner call that grants or extends writes a deadline after its own `now`, which
   is not before the outer one's; so no active record of a frame's resource is expired at the
   frame's `now` (`StaleNowIsSafe`). Neither half is inductive alone.
2. With that, "not held at `now`" means "not active" when acquire writes its record (`GrantFree`). This gives
   `Accounting` (`AccountInv`: no active record is overwritten), and the refinement (`Grant` needs a free resource).
3. `TokenInv` says that records, answers on their way and beliefs carry tokens up to the counter, that a token belongs to one
   holder only, and that who has no token has no deadline. It yields `NewestTokenOnRecord` and
   `FencingDistinguishes`.
4. `BeliefInv` adds to both `BeliefBacked` and `AnswersBacked`: a yes that is on its way is one with the lease on record, with one that ended early, or
   with one that will have expired when it is told. The second makes the first hold when the answer is given; neither is inductive without the other, since a renewal
   that a listener makes changes the record under an answer, and a release puts the lease among those that ended early only if an answer is on its way.
   A grant never replaces a lease that is active (2), so what somebody relies on is ended by a release, a break or its deadline. `MutualExclusion` follows:
   one record cannot back two holders.

**Circuits.** The operators on a circuit (`Checked`, `Succeeded`, `Failed`, and the three `Becomes...`) each keep a circuit sound: well typed,
and below the threshold when closed. Every action is one or two of them, so the invariant is that soundness. `OpenIgnoresLateCalls`
then follows step by step: in an open circuit, `Succeeded` and `Failed` count at most.

**Streams.** `StreamsInv` adds two facts to the properties. `IdsAreUsed`: only ids that were handed out are stored, dead-lettered or
acknowledged, so that what publish makes is new to all maps. `AcksAreKept`: a stored message that never died remembers every acknowledgement; a replay
alone forgets them, and it needs an entry in the dead letter queue. Purging takes the head off an index whose ids are distinct, and a purged
message is not listed, so replaying it may append it (`IndexAppend`, `IndexTail`). `ReplayedOnce` counts: an entry that waits is one
death that was not answered, and replaying it moves it from one side of the sum to the other.

**Limits.** None of the three properties is inductive, as none says what the bucket or the log remembers.

1. `WindowKept` says that the last entries of the log are what was admitted since any tick of the window, which makes the length of the log a bound
   on the admissions. The log may hold more, left by another rule of the name: that only makes it stricter.
2. `BucketKept` is the usual potential: what was admitted since a tick, *and the tokens that are left*, are at most the capacity and the refill since
   then. Charging moves tokens to admissions, a tick adds the rate to both sides, and a new rule starts with nothing admitted.
3. `PromiseKept` follows the refusal through time: for a bucket, the tokens there will be one hundredth after the time promised suffice, which makes up for the half that rounding may take off; for a window, that lacked one place, the
   oldest entry will have left by then. Registering a rule takes the promise back; resets, bans and refusals do not harm it.

**TaskQueue.** `RunsOnce` and `RunsMatchRetries` need `RetriesBounded`: a task that is not `FAILED` has retries left. A handler that
raises is on top of the stack, and by `RunsOnce` on no other level, so taking it off leaves no running task without a handler.

**Scheduler and Workflows.** `Counted` says that a job's counter is the number of its runs whose handler returned and the number of those that failed, the runs that are both
being in both; `RunsAreCounted` is what follows for the runs that ended (`FS_Union`). The invariant relates a frame's stage to its record (`RecordAtStage`, `ExecutionAtStage`), and says that frames
are of different executions. Each engine's invariant allows the other's frames on the stack: pushing and popping those, or changing
their stage, keeps it (`OutsideTriggersInv`, `OutsideExecutionsInv`). The invariant of the composition is then the
conjunction of the two, and a step of one engine is for the other a move of frames that are not its own.

**Listeners and the trail.** `WalkSound` says of every publication in progress, not only of the innermost, that it called what stands before its position as
long as nothing was removed, and that the listeners it skipped, together with how far its position is beyond the end of the list, are at most the removals. A removal
moves one listener up past the position or the walk one further beyond the end; an addition trades the one for the other. For the trail, `TrailInv` says that
every record in it was chained at the place its serial number tells, to the contents recorded before (`RecordSound`), whatever became of its details and
of its place in the list. A hash is then as long as the place of its record, so that in a valid trail every record stands at its own place
(`ValidInPlace`), with the content its hash ends in (`ValidMeansKept`).

**Service.** `EntriesAccounted` says that an entry which is stored no more was revoked or dropped by a clear, and `AnswerFresh` that the last answer tells the entry's
revocation as it is. `TokensAccounted` says that a request's token is known or was found expired, so that the user looked up is the token's or the fallback. The
action property follows from the facts about store, rotate and revoke: each adds one version, of the actor, or none.

**Registries.** `RegistryInv` says that what is stored or indexed was registered, and that no stored schema of an indexed name and version was
registered later than the indexed one; `Register` appends, and only `Delete` clears an entry. For `validate`, `FieldVerdict` shows that the tests made for one field,
in their order, find nothing exactly in the permitted values (`EqualValues` for the allowed ones, unless `validate` raises), and `PayloadVerdict` that this carries over to payloads; `LessPermitsMore` that
asking for less permits more. Steps of the other engines leave the variables alone. The flags need their types only: a refused
call assigned no more than `UntilCheck`, and a bucket below a percentage stays below a greater one.

`Decision` and the reference agree for each request: rules only ever match what was asked of them (`PolicyInv`: an empty list became `*`), so the rules that match with one effect are those that
are about the request with that effect. `SharedIdsPaidFor` rests on `StoreInv`: the numbers up to the length of the list which no item has are at most as many as the
items removed; a pigeonhole argument turns missing numbers into shared ids.

**Only model-checked.** `Recovers` and `EveryTaskEnds`, since the prover does not reason about fairness. `NothingLost`, `FoundByName` and `RunsCountedOnce` are violated and have no proof. That
`Traffic` and `Registries` are fair representatives of all engines running at once is the argument in section 2.

## 6. Plan

Order of the work: the components whose steps interleave first, the ones that are registries last.

1. Done: the modules above; every safety property of the passing runs is proved.
2. Next to prove: the steps behind `EveryTaskEnds` that are not about fairness (a measure of the retries left that every run of a handler decreases), and the same for
   `Recovers`.
3. Next to model: an abstract topic log (messages in, acknowledgements out) that `StreamRouter` implements, and progress
   of poll under fair acknowledgement; `update_item_status` with the read handlers of items.

### Not modelled

- `NotificationService`: each call sets the status of one notification and publishes last, and `send` marks it delivered at once, so no
  operation waits for or depends on another.
- `CacheManager`: constructed and used by nothing. `RateLimiter`: a sliding window like the one in `Throttler`. `MiddlewarePipeline`: calls
  hooks in a row, used by no handler.
- `AnalyticsEngine`, `MetricsCollector`: samples and counters, and statistics of them; no operation depends on what another left.
- `WebhookManager`, `PluginManager`: registries whose operations are independent; deliveries of webhooks are records without I/O.
- Models, utilities, settings, scripts: data classes, string helpers, environment variables, a command line client.
