# crawler-executor in TLA+

TLA+ models of crawler-executor, the TLC runs that check them on small
instances, and TLAPS proofs about the core modules. Paths below are relative to
the repository; `crawler/` stands for `src/crawler/crawler/`.

## 1. The system

crawler-executor is a fleet of Scrapy workers. A control plane (not in this
repository) appends *fetch commands* to a Redis stream; the workers share one
consumer group on it. Each worker takes commands, fetches the page through one
of its local egress addresses, stores the compressed page in an object store,
publishes a `crawl_attempt` fact to Kafka, and only then XACKs the command. What
a worker has read and not acknowledged stays in the group's pending entries list
(PEL), where any worker may claim it after an idle time. That is the only
persistence of the executor: all the rest is process memory, plus a few
expiring Redis keys about the health of addresses and hosts.

### Components

| component | code | state | operations | what makes it correct |
|---|---|---|---|---|
| fetch queue spider | `crawler/spiders/fetch_queue.py` | in-flight requests, delayed buffer, `seen_messages` | loop, drain, request or delay or skip, `parse`, `errback`, signal handler | every command concludes; retry budget; a clean stop |
| Redis Streams consumer | `crawler/queues.py` | `_shutdown`; in Redis: group cursor, PEL, delivery counts | `ensure_group`, `read` (XAUTOCLAIM, then XREADGROUP), `delivery_count`, `ack` | nothing lost, nothing read after the signal |
| local delayed buffer | `crawler/spiders/fetch_queue.py` | commands by eligibility time | `add`, `pop_due`, `is_full` | accepted commands are not dropped |
| content pipeline | `crawler/pipelines.py` | none | `put_object`, publish, XACK | order of the three, each of which can fail |
| publisher, storage | `crawler/publisher.py`, `storage.py` | Kafka, object store | `publish_crawl_attempt`, `put_object` | failures are reported |
| runtime policy provider | `crawler/policy_provider.py`, `runtime_policy.py` | current document, last-known-good document (LKG), mtime | `current`, validation, `decide_policy` | fresh, never worse than the LKG, pauses honoured |
| IP pool, health store, downloader middlewares | `crawler/ip_pool.py`, `health.py`, `middlewares.py` | host-to-address map; in Redis: failure windows, blacklist | selection, `record_success`, `record_failure` | cooldown at the threshold, stickiness, recovery |
| pacer, egress selection | `crawler/politeness.py`, `egress_policy.py`, `egress_identity.py` | pacer state per host and address | `pacer_decision`, `mark_request_started`, `select_from_sticky_pool` | spacing, backoff |
| soft-ban feedback | `crawler/soft_ban_feedback.py`, `fetch_safety_state.py`, `response_signals.py` | counters and cooldowns in Redis | `record_signal` | windows, cooldowns |
| canonical URL, schemas, metrics, settings, other spiders, deploy scripts | | none that matters | | |

Interactions: the spider calls the consumer's `read` in a thread
(`asyncio.to_thread`) and asks the policy provider, the egress selection and the
pacer before it yields a request; Scrapy's engine passes the request through the
downloader middlewares and calls `parse` or `errback` back on the reactor
thread; the items they yield go through the pipeline, also on that thread, which
calls the storage, the publisher and the consumer's `ack`. Workers interact only
through Redis: the stream, and the health keys.

Hard behaviour: a message can be taken over while its first owner still works
on it; the dependencies fail independently and between any two steps; a signal
arrives between any two steps of the loop or of the read thread; a policy file
is replaced between `stat` and `read_text`; several workers increment and test
the same Redis counters call by call. Section "hazards" of `PROJECT.json` lists
them line by line.

## 2. Modules

| module | models |
|---|---|
| `CommandLedger` | the abstract promise: queued, pending, settled; settled only if backed by a fact; a stored fact only with an object |
| `FetchQueue` | spider, consumer, delayed buffer, pipeline, publisher, storage, for any number of workers |
| `FetchQueueProofs`, `DeliveryProofs` | the TLAPS proofs about `FetchQueue` |
| `MCFetchQueue`, `MCRetryBudget` | instances for TLC; the latter adds a history variable that counts failed fetches |
| `IdleClaims` | `FetchQueue` with the idle times of entries and the scan order of XAUTOCLAIM |
| `IdleClaimsProofs` | that it is a `FetchQueue`, and what follows |
| `RuntimePolicy`, `MCRuntimePolicy` | policy provider and decision, with a clock that may be set back |
| `CommandGate`, `MCCommandGate` | what the spider does with the decision: pause, deadline, delay, Scrapy's retries |
| `PolicyProofs` | the TLAPS proofs about these two |
| `IpHealth`, `MCIpHealth` | health store and middlewares, for several workers that share Redis |
| `IpHealthProofs` | the TLAPS proofs about it |
| `SoftBan` | the feedback about soft bans: counters, backoffs, cooldowns, slowdowns in Redis |
| `EgressIdentity` | egress identities of local addresses, the sticky pools of hosts |
| `Politeness`, `MCPoliteness` | pacer and delayed commands with time, and restarts that lose addresses, composed with `SoftBan` and `EgressIdentity` |
| `EgressProofs`, `PolitenessProofs`, `SoftBanProofs` | the TLAPS proofs about these three: the pools; pacing; feedback and delays |

A definition preceded by a "Mutant" comment is a deliberately wrong version of
the one that follows; nothing in a specification uses it. Each property is
violated when one of them replaces the definition it belongs to.

### FetchQueue

*State.* `cursor`, `pel`, `times` are the consumer group (last-delivered-id, PEL,
times-delivered); `facts` and `objects` are Kafka and the object store; the rest
is the memory of a worker: `pc` (where `start()` or the read thread is),
`shutdown`, `claimed` (an XAUTOCLAIM reply under parsing), `entries` (the batch),
`buffer` and `due` (the delayed buffer, and what `pop_due` took out of it),
`flight` (requests in the engine), `pipe` (the item in the pipeline), `seen`.

*Actions.* `Start`, `Crash`, `RequestShutdown`, `EngineStops` are the process;
`LoopTop`, `PopDue`, `DrainNext`, `DrainDone`, `LeaveBatch`, `DiscardInvalid`,
`ConsumeEntry`, `BuildRaises` are `start()` between its awaits and yields (the last
one is a decision that raises and ends the loop); `NothingToClaim`,
`ReclaimPending`, `ParseClaim`, `ReadNew`, `ReadNothing`, `ReadFails` are the read
thread between its Redis calls; `Respond` is `parse` and `errback`; `PutObject`,
`PublishSucceeds`, `PublishFails`, `AckSucceeds`, `AckFails` are the pipeline
between its external calls. The pipeline is synchronous, so loop and callbacks
require `Free(w)`; the read thread and the signal do not.

*Abstraction.* A command is a number and the delivery count it was read with.
Which message parses (`Invalid`, `Unparsable`), how sites answer (`Answers`), what
policy and pacer decide (`Decisions`), and which dependency may fail (`Faults`) are
parameters. Time is nondeterminism: any pending entry may be idle enough, any
prefix of the sorted buffer may be due.

### IdleClaims

Adds `idle`, how long each entry has been pending untouched, and `since`, the time
since a loop's last XAUTOCLAIM. `ReclaimScanned` is `ReclaimPending` of exactly the
first `ReadCount` entries that are idle for `MinIdle`, in stream order, which
become young by it; all other actions are `FetchQueue`'s. `Poison` are entries that
are never settled, since each answer to them is one the schema rejects
(`malformed_status` shows that there are such): they return to the head of the
scan each time they are idle. `IdleAssumption` says what keeps the others alive:
all poisoned entries are scanned before the first of them is idle again. With more
of them (two, `MinIdle` 2, `ReadCount` 1) TLC finds the third entry starved.

### RuntimePolicy

`StatFile` and `ReadFile` are the two system calls of `current()`;
`HandleFailure` is `_handle_failure`; `Decide` is `_policy_decision`; `ReplaceFile`
and `Restart` may come in between. A document is its scope entries and default;
`Accepts` is the validation, `Applies` and `PolicyFor` are `decide_policy`'s match
order and merge. `SetBack` is an adjustment of the wall clock, by which the
provider spaces its checks; `DecisionsAreFresh` allows for just as much delay.

### CommandGate

`Arrive` and `Drain` are `_build_or_delay_request` for a command just read and for
one popped from the delayed buffer, both under the document of that moment; `Skip`,
`StartRequest`, `DelayCommand` and `NoPool` (an `EgressPolicyError`, which ends the
loop) are its outcomes. `Resend` is Scrapy's RetryMiddleware, which asks neither
policy nor deadline: hence `DeadlineBoundsFirstSend` speaks of the *first* send.
`PauseHolds` relates what operators wrote, not what the worker has loaded, to what
starts: `ordered` remembers the document they may count on.

### IpHealth

One host. `Zadd`, `CountFailures`, `Setex` are the Redis calls of
`record_failure`; `SelectForHost`, `UsePreselected`, `RefusePreselected` are
`process_request`; `GoodResponse`, `Captcha`, `Failed` are `process_response` and
`process_exception`. Time advances by `Tick`. `Members` is the zset of failures, of
which zcard is the cardinality. The in-memory fallback of the store
is left out because nothing reads it: the two middlewares build a store each, the
rotation middleware asks its own, and only the health middleware's is written.

### SoftBan and Politeness

*State.* `pairSignals`, `ipSignals`, `hostSignals` are the `signal:*` counters with
their TTLs; `backoff`, `cooldown`, `slowdown` the `host_ip`, `ip` and `host` states;
`recording` the signal `record_signal` works on. `localWait` is `_pacer_states`;
`status`, `dueIn`, `via` say where a command is, when its delay ends and which
identity carries it; hosts are names: `HostOf` is what the spider calls a
command's host (`_command_host`: the hostname), `NetlocOf` what the middlewares call
it (`request_host`: the netloc, with its port), `Refreshed` the netlocs a meta
refresh may lead on to. `addresses` and `candidates` are the local addresses of the
process and the pools made of them. `challenged` and `rest` are history.
`EgressIdentity` has no state: `IdentityOf` is `resolve_egress_identity`, `Before`,
`Rank`, `StickyPool`, `Assignment` are `build_sticky_pool_assignment`.

*Actions.* `RecordHostIp`, `RecordIp`, `RecordHost` are the three parts of
`record_signal`, each with the ways in which one of its Redis calls may fail;
`ForgetBackoff` and `SoftBanTick` are Redis and the clock; `Decide` is
`_build_or_delay_request` under STICKY_POOL with everything readable,
`DecideHalfBlind` the same with one read that fails; `Respond` ends a download
with any `Outcome`, which `SignalOf` classifies and which is filed under one of
`FeedbackHosts`: the rotation middleware sets `egress_host` anew each time the request
passes it (redirects by status are not followed: `handle_httpstatus_all`); `Restart`
resolves the addresses anew, some of which may be gone.

*Abstraction.* Times are what is left of them, in whole units. The hash of a host
and an identity is the constant `Score`. Which patterns a body matches is a
choice. One worker: its identities are its own, but hosts are also
challenged through other workers, which the model leaves out.

## 3. Runs

| run | question | result |
|---|---|---|
| `takeover` | do two workers that claim a command from each other keep it, and its retry budget? | yes |
| `worker` | do the inductive invariant, the refinement of the ledger, the buffer's bound and the shutdown rules hold with every dependency failing anywhere? | yes |
| `liveness` | is every command settled in the end, although XAUTOCLAIM scans from the front and some entries there stay for ever? | yes, under `TimedFairness`, if these are few enough |
| `retry_budget` | do only failed fetches count against `max_retries`? | no: see below |
| `shutdown_drain` | does a stopping worker begin no delayed command? | no |
| `unparsable` | can no message end the loop? | no |
| `malformed_status` | does every message conclude? | no |
| `policy` | fresh decisions under a clock set back, LKG kept and reported, pauses and deadlines honoured by commands that were delayed? | yes |
| `ip_health` | does the threshold lead to a cooldown over all workers, does a host keep its address, does an address recover? | yes, unless requests to it keep being refused |
| `blacklist_refresh` | does a blacklisted address recover by its TTL? | no |
| `port_backoff` | does a site's backoff bear on its next command, whatever port the site has? | no |
| `politeness` | has each backoff, cooldown and slowdown its reason, are starts spaced, are pools sticky when addresses go, is a command put off only for a reason and fetched in the end? | yes |

The runs with the answer "no" each contradict a sentence of the repository's
documents, quoted under "findings" in `PROJECT.json`:

- `KafkaFailuresAreFree` (ADR-0008, spec 007 FR-015): `_should_retry_request`
  compares the *delivery* count, which a failed publish raises as well. The
  history variable `failures` and the constraint `Patient` (no entry is claimed
  that a worker still fetches) show it without any premature takeover.
- `ShutdownStartsNothing` (research of spec 007, section 7):
  `_drain_due_delayed_requests` tests the flag once, before `pop_due`; when the signal
  arrives after that, what `pop_due` returned (in the instance: one item) is still
  built and handed to the engine.
- `BadMessageNeverEndsLoop` (spec 003 FR-013): a `ValueError` of `urlsplit`.
- `EveryMessageConcludes` (ADR-0006): a status such as 999 fails the schema in
  `_publish_attempt` before anything is published, at each delivery.
- `CooldownEnds` (spec 001 FR-003b): the `IgnoreRequest` that refuses a
  preselected, blacklisted address is recorded as a failure of it, which starts
  the cooldown anew.
- `SiteBackoffsAreKept` (spec 005, user story 3): for `http://h:8080/` the feedback
  files the backoff of a pair under `h:8080`, and the spider looks it up under `h`. The
  same goes for slowdowns. So `DelayedForAReason` speaks of the backoffs under the
  name the spider has for the host; `PlainSitesAreKept` (section 4) says that these
  include all that requests to the site's netloc bring about, if its urls have no port
  of their own.

Some things the models bring out that no run refutes, because no document
speaks of them clearly enough, because they lie outside of the models, or because a
glance at the code settles them. A policy file that is not UTF-8 ends the loop with a
`UnicodeDecodeError` that `current()` does not catch (`ReadRaises`), whether there is
a last known good document or not, while effective-policy.md of spec 007 (line 104)
says of a failed load that the worker does not exit. `HOST_SLOWDOWN_FACTOR` is read
twice, by the spider as the factor of every delay and by the feedback as the factor
of a slowdown: set to 3.0, as the deployment does, it triples all delays, and a
slowdown changes nothing (`MarkRequestStarted`). And a failed HGETALL makes a
counter look empty, so that a host may be counted twice against an identity;
`CrossDimensionEvidence` therefore allows one missing challenge per fault.
Scrapy's RetryMiddleware repeats a request after a 5xx or a timeout past its
deadline, past a pause and without the pacer, so that two downloads may start
closer than HOST_IP_MIN_DELAY_MS, which spec 005 (line 75) excludes; `Spacing` and
`DeadlineBoundsFirstSend` speak of the spider's own starts. One failing XREADGROUP
or XACK of the loop ends it, one failing XAUTOCLAIM or publish does not. A scope
entry with `paused: false` overrides a global pause. A policy that asks for the
sticky pool on a worker whose own setting is another one ends the loop (`NoPool`).
The sticky pool never looks at the blacklist of `IpHealth`. Addresses behind one
public address take two slots of a pool with one identity.

### Bounds

- `takeover`: two workers and one command are the smallest takeover; a second
  command adds no interaction, since commands share only the batch and the
  buffer, which `worker` covers. `DeliveryCap` must exceed each `MaxRetries` (an
  assumption of the module), so that saturation hides no exhausted budget.
  `xpending` is not among this run's faults: with it, an unanswered XPENDING cuts
  the budget short by design, as `delivery_count` documents.
- `worker`: two entries, one of them invalid, `ReadCount` 2 and a buffer of 2, so
  that a batch is interrupted half way and the buffer fills; two stops allow a
  signal and a crash, or a crash and a crash during recovery. A decision may raise
  at any popped item or entry.
- `liveness`: two entries, of which the first is never settled and so is always in
  front; `ReadCount` 1, so that a scan hands over one of them only; `MinIdle` 2 and
  `PassTime` 1 are the least that leave room between two scans of the first; a
  buffer of 1, so that reading really stops; a retry budget of 1; one stop.
- `port_backoff`: three commands, as many as it takes to reach the threshold (2) and
  to start once more; no faults.
- `policy`: `Interval` 2 and three replacements: good, bad, good, with a `stat`
  between any two, and the clock set back by 1. One command is held at a time:
  commands meet only through the document. Its deadline is at hand, ahead or
  absent, and a delay may end before, at, or after it.
- `ip_health`: threshold 2 and window 2, reached by two workers together; two
  addresses, so that there is another one; one fault; `MaxPerUnit` 1 keeps time
  from standing still.
- `politeness`: three commands of a host with two identities, in the order of the
  stream, and one of a host that shares one of them: enough for two signals of one
  pair (its threshold), two hosts challenging one identity, two identities
  challenged at one host, and all candidates cooling or backed off at once. Four
  addresses and pools of two, so that a lost address really may move another one;
  three of the addresses share an identity, and one host's pool is this identity
  twice. The second host's command has a port, so that its feedback is filed
  under a third name. No meta refresh is instanced, for the size of the state space;
  the proofs allow any. The interval (2) is longer than the first backoff (1), so that
  each of pacer and backoff may be the later one. One fault: a Redis call, or a restart,
  which may lose the address in `MayGo` (the proof is about any).

### Fairness

`TimedFairness` of `IdleClaims` assumes weak fairness of the process start, the
loop, the read thread and the pipeline (threads and timers run), and strong
fairness of time and of what depends on somebody else, who must not fail or be
unlucky for ever: XREADGROUP, a due item, publish, XACK, an answer to each request
(`download_timeout`; never a good one), and the start of each command (the pacer
does not put one command off for ever: this is `EveryCommandFetched` of
`Politeness`). No fairness is assumed of claims: which entry XAUTOCLAIM hands over
is determined by the idle times and the order of the stream. `LiveSpec` of
`FetchQueue`, which has no time and therefore strong fairness of each claim
instead, serves only the counterexample of `malformed_status`.

None is assumed of signals, crashes or lost replies. `LiveSpec` of `IpHealth`
assumes that time passes, that a begun recording continues, and that a download
ends; that of `Politeness` that time passes and that the reactor thread goes on
with one of the things it has to do, whichever.

Deadlock is checked in every run. Without a bound on stops a finished worker can
be restarted (`EngineStops`, `Start`), as its supervisor does.

## 4. Proofs

`FetchQueueProofs` proves, for every number of workers and entries, every buffer
capacity, retry budget and set of faults:

- `TypeCorrect`: `Spec => []TypeOK`;
- `InductiveInvariant`: `Spec => []IInv`;
- `NoCommandIsLost`: `Spec => []NoLostCommand`;
- `StoredFactsAreBacked`: `Spec => []StoredFactHasObject`;
- `Refinement`: `Spec => ImplementsLedger`.

The assumptions are `ConstantsAssumption` alone: the saturation of the counts
plays no part in these theorems.

*Why a strengthening is needed.* `NoLostCommand` is not inductive: XACK removes
an entry because the pipeline's item has reached stage "ack", so the invariant
must know that an item at that stage has its fact, and that an item at
"publish" with kind "stored" has its object: `PipelineInOrder`. Moreover a fact
must be about a decodable, delivered entry, whichever of batch, buffer, due
items, engine or pipeline the command came through: `HeldWasDelivered`. `IInv` is
the conjunction of these with `TypeOK`; the run `worker` checks it as an
invariant.

*Argument.* `TypeStep` goes through the actions. Then the frame lemmas
(`QueueFrame`, `FactsFrame`, `ObjectsFrame`) say once which few actions change the
group, the facts and the objects, and `ReadsEffect`, `AcksEffect`,
`PublishesEffect` what these do; `NoLostStep` and `StoredStep` only compare those.
`HeldStep` follows a command from hand to hand and uses that `cursor` only grows
(`HeldGrows`); the local buffer's surgery is in `InsertSeq`, `AscendingSeq`,
`PopDueKeeps`. `OrderStep` is the pipeline. `StepRefines` maps reads to `Take`, an
upload to `Store`, a publish to `Publish`, an XACK to `Settle`, or each to a
stutter when it changes nothing (a repeated XACK, a second publish of the same
fact), and all else to a stutter.

`EgressProofs` proves `StickyPools`, for any addresses, identities, scores and pool
size: after any loss of addresses a host keeps the candidates that are left, and
its whole pool if it lost none. The first half is that fewer addresses mean fewer
rivals (`RankShrinks`). For the second, suppose an address newly came in. It has
lost rivals; take the first of these (`FirstOfSome`: the rivals of an address are
a proper subset of those of one ranked behind it, and that order is well-founded
on finite sets). All *its* rivals are left, so it had fewer than `PoolSize`, and
was a candidate that is now lost. `RanksOfCandidates` shows by counting that the
candidates have the ranks 0, 1, ... without a gap, so that `Assignment` is a
sequence of identities of the worker's own addresses.

`PolitenessProofs` proves `StartsAreSpaced` (`Spec => Spacing`) and
`PoolsStaySticky` (`Spec => PoolsAreSticky`) for any hosts, identities, commands,
delays and number of failing Redis calls. `Spacing` is about a history variable
and not inductive. `PacerInv` adds that the local wait of a pair and its rest
since the last start make up the interval; whichever of the spider's reads fail,
what it sees of the wait is not less than the local one (`LocalIsSeen`), so that
it starts only when the local wait is over. That the pair of a start is one of the
model's pairs needs `BestIsOne`: a non-empty set of candidates has a best one.

`DeliveryProofs` goes on with `FetchQueue`, citing `InductiveInvariant`:

- `StopMeansNoRead` (`ShutdownStopsReading`) and `StopAbandonsTheBatch`
  (`ShutdownAbandonsBatch`: an entry leaves the batch of a stopping worker only with
  the whole of it, as the worker leaves the loop or is gone, and with no request, item,
  delay or XACK), step by step from `TypeOK`.
- `PoppedItemsFit` (`Spec => []RequeueFits`). `RoomInv` adds that items are popped
  only during a drain; the drain then only shortens `due`, and what `pop_due` takes
  out leaves as much room as it needs (`AscendingLength`: an ascending choice of
  positions is no longer than their number).
- `BudgetsAreGranted` (`Spec => []BudgetNeverCutShort`) under `CountIsHonest`: XPENDING
  answers, or the number that stands in for its answer exhausts no command's
  budget. Without it the property is false by design (section 3). `BudgetInv` says of
  *everything* a worker holds (batch, buffer, due items, engine, pipeline) that a
  count beyond the budget is backed by the group's own count, or the entry is
  settled; such a claim is stable, since counts only grow while an entry is pending
  (`SpentStays`), so a takeover by another worker cannot invalidate it.

`IdleClaimsProofs`: a step of `TimedSpec` is a step of `Spec` or a stutter
(`IdleClaimsImplementFetchQueue`), so `NoLostCommand`, `ImplementsLedger` and
`BudgetNeverCutShort` carry over to the executor of the run `liveness`, with any idle
time, pace and poisoned entries.

`PolicyProofs` is about `GateSpec`, the provider and the gate on top of it, for any
documents, messages, reload interval, replacements and clock. `PolicyAssumption`
says that the scope entries of a document form a sequence, and that the settings'
document is valid and has none. `PolicyInv` is the provider's invariant:
what is served was accepted or is the settings' (`Serving`); the remembered mtime,
if it is the file's, belongs to the document in force (`Remembered`); the result of
the last check is about the file unless that was replaced since (`LastCheck`); and a
new process is due, however the clock is set back (`Timing`: the age of the last
check and the setback are only ever bounded together). It gives `FlagIsTruthful`,
`PolicyIsKept`, `FreshDecisions`. `GateInv` adds what a held command looks like and
`Ordering`: as long as operators may count on a pausing document, it is in force, is
the last known good one, and no other valid document is on disk. That is what
makes `PausesHold` hold through broken files; `DeadlinesBound` needs that a sent
command has `sends > 0`, `ScopePausesAreHonoured` that the first match in
`ScopeMatchOrder` is the most specific (`MostSpecificApplies`).

`IpHealthProofs` is about any number of workers and addresses.
`ThresholdMeansCooldown` is not inductive, because `Tick` takes from the blacklist
as well as from the window. `HealthInv` says *why* the blacklist lasts: for each
failure in the window its age and what is left of the blacklist make up `Cooldown`
(`Outlived`), which `Tick` preserves and `Setex` establishes; or a worker is still
recording. With `Cooldown >= Window`, the module's assumption on the settings, an
outlived failure means a blacklisted address. `OlderHasNoMore` shows by an
injection that aging adds no member to the zset. Also `HealthTypeOK` and
`HostsKeepTheirAddress` (`StickyMapping`).

`SoftBanProofs` completes `Politeness`, for any hosts, identities, commands,
thresholds, delays, and any number of failing calls and restarts. `SoftBanInv`
relates the counters in Redis to the history: the members of a distinct counter
have challenged (`Witnessed`, `CountersGrounded`), and its count is at most
their number plus one for each failure of Redis, which is why
`CrossDimensionEvidence` allows for these; and a
pair counter without a TTL, or at its threshold with no backoff, is one
Redis failed on (`CountersExpire`, `ThresholdMeansBackoff`). There may be infinitely
many hosts: `challenged` stays finite. `PolitenessInv` adds the spider's types and
the pools. Theorems: `PolitenessTypeOK` (2^n is positive because it is the number
of subsets of 1..n, `PowersOfTwo`), `EvidenceForCooldowns`, `ThresholdBacksOff`,
and `DelaysHaveReasons` (`DelayedForAReason`), which compares what the spider
sees of each candidate with what Redis holds under the spider's name of the host.
`PlainSitesAreKept` (`SiteBackoffsAreKept`, for commands whose netloc is their
hostname) says when that is what the site's own answers brought about; the run
`port_backoff` shows that it cannot do without its assumption.

Every invariant and every action property of a passing run is thereby a
theorem. *Only model-checked* are the liveness properties `EventuallySettled`,
`RecoversUnlessRefused` and `EveryCommandFetched`, since fairness and ENABLED are
out of the prover's reach, and the counterexamples.

## 5. What is not modelled

- Policy and pacer inside `FetchQueue`, which allows each outcome they may have
  (`Decisions`, an exception included); conversely `CommandGate` leaves the choice of
  addresses to `Politeness`, and `Politeness` leaves takeovers, retries and the buffer's
  capacity to `FetchQueue`.
- The ASN soft limit (off by default, and nothing reads it), `mark_success` (nothing
  calls it), the formats of the identity map file, policies that override the
  pacer's delay.
- Scrapy's download slots, where started requests may wait and come together
  again, and the repetitions of its RetryMiddleware outside of `CommandGate`.
- That commands arrive without end: `EveryCommandFetched` is about finitely many.
  Nothing orders delayed commands before newly read ones of the same host.
- Canonical URLs, attempt identifiers, schemas: formatting
  and validation of one value; what control sees of them is a parameter.
- Metrics, health endpoints, settings, deployment, the validation spiders:
  nothing in the control flow reads them.
- `ROUND_ROBIN` selection (a diagnostic mode), discovery of local addresses.

## 6. Plan

1. *Done:* `CommandLedger`, `FetchQueue`, its proofs; `IdleClaims`; `RuntimePolicy`,
   `CommandGate`; `IpHealth`; `SoftBan`, `EgressIdentity`, `Politeness`.
2. Several workers in `SoftBan`: the counters of a host, HGETALL and HINCRBY of two
   workers interleaved; evidence within the window rather than ever.
3. `Politeness` as the refinement of an abstract pacer (a pair is free, busy or
   backed off), so that `FetchQueue`'s `Decisions` can be justified by it.
4. *Done:* proofs of all invariants and action properties of the passing runs.
   To come with 2 and 3: the counters' invariant for interleaved workers, and the
   refinement of the abstract pacer.
