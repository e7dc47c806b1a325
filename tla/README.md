# A verification project for status-monitor

TLA+ modules, TLC runs and TLAPS proofs about the parts of status-monitor that
probe targets, bring the results home and decide who is told about an outage, and
when. Paths below are relative to the
Rust crate (`src/…` of the repository; *engine* is `src/escalation/engine`).

    tlc -workers 2 -config PagingSafety.cfg MCPaging     # one run
    tlapm Paging_proofs.tla                              # one proof module

`PROJECT.json` lists the components, the runs with their properties, the source
lines behind every definition, a mutation of the code for every property, the
hazards the properties are for, the findings and the theorems.

## The system and its parts

status-monitor probes targets from several regions, turns the results into
incidents, pages people through channels and escalation policies, and shows the
incidents on public status pages.

| Part | State it keeps | Operations | Hard behaviour |
|---|---|---|---|
| Incident writer (`src/public_status/incident_writer`) | open incident rows per target | `tick_once`, `process_target`, `decide_multi`, `insert_open`, `close` | operators change the incident between a tick's read and its write; results arrive late, or from some regions only |
| Incident lifecycle (`src/storage/incident_ops`) | incident row, events, updates | `declare`, `acknowledge`, `resolve`, `reopen`, `assign`, `publish` | operators race with the writer and with the engine |
| Escalation engine, episodes and sweep (`engine/episode.rs`, `sweep.rs`, `rules.rs`) | in memory: a lock per incident, signal tasks, one sweep; stored: `incident_notifications`, level, round, timer | `page_with`, `open_episode`, `hold`, `release_one`, `reconcile_one`, `escalate_one`, `renotify_one`, `notify_resolution` | tasks in any order, dropped signals, crashes between writes, stale scans |
| Delivery and retry (`engine/deliver.rs`, `sweep.rs`) | status, attempt, next_attempt_at of a notification row; failure run of a channel | `send_and_mark`, `retry_pending`, `record_channel_health` | a retry racing a send, attempt cap, dead letters |
| Emergency receipts and ack links | receipt, acked_at of a row; generation of an incident | `poll_acks`, `cancel_emergency`, ack page | late acknowledgement of an older episode |
| Escalation policies, on-call schedules | rungs, schedules | editing, `next_step`, `resolve_targets` | policy deleted during a page |
| Scheduler (`src/scheduler`) | registry, heap of due checks, live generation per target | refresh, `apply_diff`, `drain_due`, shutdown | the registry is ahead of the diffs under way, entries of old generations come due, both tasks wait for each other |
| Worker pool (`src/worker`) | permits, targets in flight, circuit breaker per host, semaphore per tenant and host | `dispatch`, `allow`, `acquire`, `record`, `sweep` | checks of before a trip answer after it, eviction races a lookup, a counter is lowered by who never raised it |
| Result pipeline (`src/pipeline`, `AgentResultSink`, `ingest_results`) | channel, buffer, batch ids per replica | push, flush, post, write, mark | lost and late answers, full buffers, restarts, two replicas |
| Interactive checks (`src/ad_hoc_dispatch.rs`, agents) | queue and waiters per region | dispatch, claim, report, abandon | wake-ups lost between look and sleep, late reports, eviction |
| Subscribers (`subscriber_dispatch.rs`, `storage/subscriber*.rs`) | subscriptions, delivery log | list, claim, send, mark, confirm, unsubscribe | two replicas, a crash between send and mark, a subscriber leaving in the middle |
| Heartbeats, silence detection | last beat | beat, nudge | late beats |
| Quotas and plan holds, authentication, OAuth, MCP, background jobs | holds, tokens, codes | hold/release, exchange, confirm, erase | single use of a token, erasure over two stores |
| Notifiers, email, rendering, configuration | none | formatting and provider I/O | - |

The scheduler dispatches probes to the worker pool; the pool's results go through
the batcher to the store, on an agent by way of the control plane's ingest handler.
The writer reads the stored results. The writer and the operators change the
incident row and send a signal
(`signal_incident`, a bounded `try_send`) to the engine; the engine's loop spawns
a task per signal and starts a sweep per tick. All of them meet in Postgres: the
incident row, `incident_notifications` and the configuration tables. The page
lock is the only in-memory synchronisation. One control plane runs
(`docs/kubernetes.md:68`: the replica count is capped at 1, there is no leader
election), so there is one writer tick and one sweep at a time.

What makes each part correct: the writer keeps at most one open incident per
monitor, opens only on evidence and never closes one that is not over; the engine
announces every incident, tells nobody twice, walks the ladder until someone
acknowledges, and clears exactly whom it alarmed; delivery tries each row a
bounded number of times and gives up late and for good; receipts acknowledge only
the episode they were sent for. The scheduler probes each scheduled target once an
interval and nothing else; the pool respects a host's cap and comes back to a host
that recovered; the pipeline stores every result or counts it as dropped; an
interactive check reaches a waiting agent at once; a subscriber gets every update,
and again only when a claim was taken over or a send that arrived was reported as
failed. Where the code falls short of this, Findings says so.

## The modules

| Module | Models | Used by |
|---|---|---|
| `Paging` | engine episodes, sweeps and ladder, with the lifecycle and signals of one incident | `MCPaging`, `Paging_proofs` |
| `IncidentWriter` | the writer's decision and tick, with results, operators and edits, for one monitor | `MCIncidentWriter`, `IncidentWriter_proofs` |
| `Delivery` | a notification row through record, send, mark, retry and dead letter | run directly, `Delivery_proofs` |
| `Timers` | what the scheduler promises: one timer per scheduled target | refined by `Scheduler` |
| `Scheduler` | refresher and driver tasks, registry, heap, the agent's pull | run directly, `Scheduler_proofs` |
| `WorkerPool` | in-flight guard, permits, circuit breaker, host throttle and sweep, for one host | `MCWorkerPool`, `WorkerPool_proofs` |
| `Ingest` | result channel, batcher, agent sink, ingest handler of two replicas, store | run directly, `Ingest_proofs` |
| `AdHoc` | interactive checks of one region: queue, waiters, long-polls, reports | run directly, `AdHoc_proofs` |
| `Subscribers` | fan-out of an incident's updates by replicas of the dispatcher | run directly, `Subscribers_proofs` |
| `MCPaging`, `MCIncidentWriter`, `MCWorkerPool` | values of the constants for TLC | the runs |
| the eight `*_proofs` modules | the theorems and their proofs | TLAPS |

The modules meet where one component calls another, and each side leaves the other
free. `Drain` of `Scheduler` is `Dispatch` of `WorkerPool`; `Finish` there is
`Produce` of `Ingest`; what `Ingest` stores is what `Probe` and `Late` of
`IncidentWriter` report; `insert_open` and `close` of `IncidentWriter` are `Open` and
`Resolve` of `Paging`; a row appended by `PageChannel` of `Paging` is a `Page` of
`Delivery`. In `Paging` an incident may open and resolve at any moment, in `Delivery`
a page of any reason may be recorded whatever the incident's state, in `WorkerPool` any
target may be dispatched at any time, in `Ingest` results come at any time. A module
thus allows more than the component before it does, within the bounds it names: the
numbers of signals, results, changes and faults are the model's. The modules are not
composed, so nothing is shown of properties that span two of them.

### Paging

One incident of one monitor. Every table the engine reads and its lock are keyed
by incident, so other incidents matter only through how many opens the flap damper
counts and whether the signal channel is full; both are nondeterministic choices.

| Variable | In the code |
|---|---|
| `inc` | the incident row: state, policy binding, level, round, whether `next_escalation_at` is set; `gen` counts its reopened events, `old` says that it started longer ago than `reconcile_window_secs` |
| `rows` | `incident_notifications`, the index standing for `created_at`; markers (damped, maintenance, released, unreachable) are rows whose channel is not a real one |
| `sigs` | the signals sent and not yet handled, in the channel or as spawned tasks waiting for the lock; the code bounds the channel and not the tasks, so `SignalCap` is the model's bound |
| `lock`, `pc`, `job` | the page lock of the incident, and the program counter and locals of each signal task and of the sweep |
| `target`, `on` | paused, plan-held, in maintenance, policy exists; the switch of each channel ("on" and "back" are both enabled, and tell a channel that was never off from one that was) |
| `left` | what the bounds still allow |

`page_with` is split where another task can interleave: taking the lock with the
reads that follow it, the decision of `open_episode`, the hold marker, the choice
of the route, one step per channel of `page_channels`, and the write after it
(`begin_escalation` or the unreachable marker). `escalate_one` takes no lock, as
in the code; `renotify_one` takes it and re-reads. A scan and the work on its
result are two actions, so the result may be stale. The scans of a sweep run in a
fixed order, but any of them may come back empty because its row is not old
enough, so from "idle" the next scan to find the incident may be any of them.
`Fault` ends one task anywhere, `Restart` all of them with lock and signals. The
reconcile scan is bounded on both sides; its lower bound (the grace) is one more age a
row may not have yet, its upper bound is `old`: an incident that nobody paged within
the window is never found again (the test
`reconcile_leaves_an_incident_older_than_its_window_alone` asks for that). Deleting a
policy is soft: the incident keeps its binding and a later `get` finds nothing.

Time is only order: a scan that asks for an age may find its row due or not.
One handler stands for all signal tasks: tasks exclude each other by the lock from
their first read to their last write, so one task is inside at a time and the
others are the waiting signals in `sigs`, which are taken in any order.

### IncidentWriter

One monitor. Time is counted in check intervals: `results[t][r]` is what region
`r` reported at time `t`, "none" if nothing. The decision is written as sets:
`trailing_bad_run` is the failures since the last success, `down` the regions
whose run is long enough, `required` the quorum over the regions that reported in
the window, `triggered_at` when the quorum was completed, `recoveries` where
sustained good runs began. `TickRead` is `tick_once` up to the decision,
`TickApply` the one write that follows; operators and late results come between.
The open incidents and the results are two queries, but what happens between
them could as well have happened before the first or after the second, so they are
one step. `Probe`, `Late`, `Declare`, `Resolve`, `Reopen` and `Edit` are the
environment. The cap on results per tick and the choice between raw results and
rolled-up tiers are left out: they change how much of the window is seen, not the
rule. Severity, error samples and visibility at opening are data no property
tells apart.

### Delivery

One channel of one incident; `jobs[0]` is a page on a signal's task and `jobs[i]`
the sweep's retry of row `i`. A job is read, send, health, mark; `mark` overwrites
status and attempt whatever they are, as `mark_notification` does. `next` is
`next_attempt_at`: NULL, in the future, or past. `history` counts the sends of each row
and those that no longer fitted the incident, which the code does not store. A page is
recorded and sent whatever the incident's state is by then, because `page_with` and
`page_channels` do not look again; only a retry asks `reason_is_stale`. The incident
and the channel
are read in one step of `RetryOne`, because only the channel's state and then the
incident's decide, and the send that follows is a step of its own. The mail about a
failing channel, the page budget of a sweep and its concurrency limit are not
modelled: they delay a retry to a later sweep, which the model allows anyway.

### Scheduler and Timers

`refresher`, `chan` and `driver` are the two tasks and the channel between them;
`registry` is the shared map, `live` and `heap` the driver's locals. A listing and
its merge are two steps. A heap entry is due or not; which grid point it is due at
(`next_tick`, `stagger_offset`) is arithmetic on instants and left out. Generations
are counted, so tombstones of removed and edited targets stay in the heap as in the
code. `ListOk`, `ListRejected` and `ListFailed` are the answers to the agent's pull; a
listing that fails without a cached list is no step. `Timers` has one timer per
target and no heap; the mapping reads `running` and `due` off the entry of the live
generation, and `beat`, which flips with each probe, is the same on both sides.

### WorkerPool

One host. `tasks` has a record per permit; `sem` is the semaphore a task cloned out
of the map, numbered by insertion, and `caps` the one the map holds now. `allow` and
`record` are chains of atomic operations, and each load, compare-and-exchange and
store is a step: `todo` holds the stores of `trip_open`, `close` or
`try_transition_to_half_open` that a task has still to make. The steps are sequentially
consistent; the reorderings a weaker memory order would add are left out. Counters are
`u32` and wrap at `CounterRange`. A drop in `dispatch` changes nothing and is no step.
Checks without a host key (RDAP) skip the throttle and are left out.

### Ingest

`post` is the attempt of the sink, `requests` what is on its way to or worked on by a
replica, `awaited` whether the attempt still listens. The handler is split at its
write: before it (duplicate, too many rows, the query for the region's targets, the
filter), the write, the mark. A query may fail, and a write may fail and have landed.
`eligible` is what a handler would keep of the results now: targets move between
regions and the cutoff for clocks that run fast moves with every attempt, so
`Requalify` changes the answer for any of the `Doubtful` results at any time. A block is
the rows kept, stamped with the replica's snapshot of retentions (`ttl`), which is the
default until it is first loaded, is read again at intervals, and is lost in a restart.
The store drops a block it has seen, which is what the comment at `app.rs:138` relies
on; it remembers a thousand blocks, and the model assumes that a retry does not come
later than that. A batch larger than the handler takes fails without any fault until
the sink gives up. Flow runs riding along are left out.

### AdHoc

What happens under the queue's mutex is one step, and so is a call of tokio's
`Notify`. A claim looks, then sleeps, then is woken, and may be dropped in each of
these; a woken claim that is dropped passes its wake-up on. A report is one step up
to `complete`, and the store after it another. `past` records what was evicted or
expired, and whether the last claim left checks behind.

### Subscribers

`log` is the delivery table, `tick` the locals of each replica's tick. List, each
claim, each send and each mark are steps; sends start when all claims are made, as in
`tick_incidents`. A send has two outcomes that need not agree: whether the notice
arrived, and whether the sender was told so (a webhook may answer late or not with
2xx after it took the notice). `history` counts the arrivals and what excuses another
one. A claim for a subscription deleted since the list fails on its foreign key and
ends the tick with the claims before it still queued. Ages are flags. The list's LIMIT
is left out: oldest come first and what is listed can be claimed, so it only delays.

## The runs

| Run | Checks | Instance | Distinct states |
|---|---|---|---|
| `paging_safety` | `TypeOK`, `OnePagePerEpisode`, `AllClearAnswersAPage`, `TimerOnlyTriggered`, `RungsInOrder`, `HoldReleasedOnce` | one bound channel and two rungs, flap holds, dropped signals, one fault, one reopen, a deleted policy or a switched channel | 3.4 M |
| `paging_live` | `LadderWalked`, `LostOpenRecovered`, `HeldIsPaged`, `ResolvedSignalClears` | two rungs, two rounds, dropped signals, one fault or restart, holds, a window that starts and ends, a reminder | 138 k |
| `writer` | `TypeOK`, `OneOpenPerOrigin`, `EvidenceBacked`, `ResolvedStaysResolved`, `OutageOpens`, `RecoveryCloses` | two regions, two confirmations, four rounds, "any" and an oversized "count" policy, one silent and one late report, two operator actions, one failed tick | 914 k |
| `delivery` | `TypeOK`, `SendsBounded`, `GivesUpLate`, `StaleSendsBounded`, `EverySettled` | three attempts, one row, two operator actions, two channel edits, two faults | 565 k |
| `scheduler` | `TypeOK`, `OneLiveEntry`, `KeepsTime` (refinement), `Converges`, `Stops` | an agent with two targets, three changes, one failed listing, a channel of one | 353 k |
| `pool` | `TypeOK`, `HostCapHeld`, `OneProbePerTarget`, `RecoversOrWedges` | four monitors, two throttle keys of one permit, two permits, two failures to trip and three successes to close, three flips of the host | 872 k |
| `ingest` | `TypeOK`, `AckedIsStored`, `StoredBounded`, `EveryResultSettles` | four results, channel of one, buffer of three, batches of two, two replicas with two retention snapshots, one fault, one change of what is kept | 508 k |
| `adhoc` | `TypeOK`, `NoSleepOverWork`, `CheckNowLands` | an agent and the local executor, one check of each kind, a queue of two, one fault | 197 k |
| `subscribers` | `TypeOK`, `DuplicatesExplained`, `EveryUpdateSettles` | two subscribers, two replicas, two attempts, one edit, one fault | 1.0 M |

Three further runs each show one statement of a document or comment that the code
does not keep; see Findings. `CHECK_DEADLOCK FALSE` everywhere: an incident that is
resolved and announced, a row that is settled, a scheduler that was shut down, or a
system whose bounds are used up is where the model rests.

What the properties say:

- `OnePagePerEpisode`: between two opening pages of one channel there is an
  all-clear. It needs the lock (a signal task and reconcile read the same empty
  log) and the row written before the send (a fault after it).
- `AllClearAnswersAPage`: an all-clear or reminder goes to a channel that was told
  and not cleared since, for repeated resolves, reopens and resolves that overtake
  opens.
- `TimerOnlyTriggered`: the writes after a long page do not re-arm what was
  acknowledged or resolved meanwhile. `HoldReleasedOnce`: a release that reaches
  nobody does not repeat.
- `RungsInOrder`: a rung is left behind only when every channel of it that was never
  switched off has been paged. It is not said per episode, because that is false: a
  walk that claimed a rung before a resolve and a reopen pages the next one in the new
  episode and records it there (see Findings).
- `LostOpenRecovered`, `HeldIsPaged`, `LadderWalked`, `ResolvedSignalClears`: what
  must happen in the end, with the failures named in the instance. A lost open is
  found only while the incident is within the reconcile window. `LadderWalked` asks
  for the last rung in every round, the repeats included. The ladder and
  the all-clears are promised as long as no failure hit the task that owes them: the
  crash run shows what a failure does to the ladder.
- `OneOpenPerOrigin`, `ResolvedStaysResolved`: a tick writes from a stale read and
  neither doubles an incident nor overwrites an operator's resolution.
- `EvidenceBacked`: every incident of the writer starts at a failure of a region that
  then failed as often as the monitor asks (not necessarily in a row: a late success
  may fall in between). `OutageOpens`, `RecoveryCloses`: a lasting outage is
  opened and a lasting recovery closed under every policy, whatever operators did
  before.
- `SendsBounded`: a row is sent at most 2·cap − 1 times, and once more per failure,
  though a slow first send can roll the attempt back. `GivesUpLate`: a page to a
  channel that stayed on is dead-lettered only after cap − 1 sends at least (a
  restart may swallow one). `EverySettled`: every recorded page ends sent,
  suppressed or dead-lettered, also after restarts. `StaleSendsBounded`: a notice
  that no longer fits the incident leaves once from the page, which does not check,
  and then at most once per change of the incident, from the retry that was past its
  check at the change.
- `OneLiveEntry`, `KeepsTime`: old heap entries neither double nor swallow a probe,
  and while the scheduler runs each scheduled target is probed again and again.
  `Converges`: registry and schedule come to agree with the configuration, and a
  revoked agent stops probing. `Stops`: the shutdown ends both tasks.
- `HostCapHeld`: eviction never hands out a second semaphore while the first is in
  use. `OneProbePerTarget`: the guard lives exactly as long as its task.
  `RecoversOrWedges`: when the host answers for good the breaker closes for good or
  stays half-open with every admission spent and nobody left to give one back; it
  never trips again and again. That the second outcome happens is a defect (see
  Findings); that there is no third is what the run shows.
- `AckedIsStored`: what the agent forgets as delivered was written or refused.
  `StoredBounded`: under one retention stamp a result is stored at most once per
  flush it took part in, and once more per flush for each change of what the handlers
  keep. `EveryResultSettles`: nothing disappears uncounted before the shutdown.
- `NoSleepOverWork`: no claim sleeps over a queued check. `CheckNowLands`: a
  check-now is stored also when nobody waits for it any more.
- `DuplicatesExplained`: every further arrival of an update goes with an orphaned claim
  that was taken over or an earlier arrival that was reported as an error.
  `EveryUpdateSettles`: every update owed is sent or out of attempts.

### Bounds

Two channels let one be paged and the other not. One reopen gives two episodes; the
rules compare an episode only with the one before it. One fault is enough for a lone
crash between any two writes. The writer's four rounds with two confirmations and a
window of four hold a whole outage or a whole recovery and a mixed run, and two
operator actions are what it takes to resolve an incident and reopen it beside a
tick's insert. Delivery's cap of three separates the first, a middle and the last
attempt; one row suffices because rows share only the page's task and the channel's
failure run, which no rule of a row reads. A cap of one would leave a row queued for
ever after a crash, since the scan asks for an attempt below the cap. Two targets and
three changes let a target be added, removed and added again beside another one; a
diff channel of one makes the refresher wait. Two permits and two keys let two tasks
interleave within the breaker's calls, and a throttled probe or an evicted semaphore
sit beside a running one; two failures to trip and two admissions are the smallest
that count, and three successes to close are more than the admissions. Six values
stand for the width of the breaker's counter: a wrap below zero then lands above the
admissions, as it does with 32 bits. A buffer of three with batches of two overflows
during a failed flush and then exceeds what one request may carry. One lost answer is
what a second flush of a stored batch takes, and two snapshots or one change of what
is kept turn a retry of it into another block. One agent and the local executor are
two claimers, enough for a wake-up to go to the wrong one. Two replicas and one fault
in `Subscribers` cover a crash between any two steps and one takeover. Every invariant
of the runs is also a theorem (see The proofs), so for the invariants the bounds limit
only what TLC sees; for the liveness properties they are what the claim rests on.

### Fairness

`Paging`: a spawned task gets the lock in the end (tokio's mutex is FIFO) and goes
on; the sweep finishes what it began; a row that keeps matching a scan is old
enough at some tick, so the scans are strongly fair (another scan may come first
in between). `IncidentWriter`: the ticker fires for ever and a tick ends.
`Delivery`: the sweep runs for ever, requests time out, store calls return and
backoffs pass. `Scheduler`: both tasks are polled and time passes; the entry of the
live generation comes due. `WorkerPool`: the scheduler goes on dispatching some
target, which is strong fairness because the pool is full in between; tasks go on,
checks time out, the cooldown passes. `Ingest`: the batcher's task is polled, its
timer ticks, attempts end, a request that arrived is worked on, and attempts that fail
again and again are given up (the backoff's `max_elapsed_time`; a batch over the
request limit fails for ever without any fault), which is strong fairness because an
attempt is under way in between. `AdHoc`: requests and
claimers are running tasks, checks end and a hold ends. `Subscribers`: every replica
keeps ticking and sends end; an abandoned claim grows old. Nothing is assumed of
operators, results, faults or edits: they may happen or not.

## Findings

Each is a run that TLC must find violated; `PROJECT.json` quotes the lines.

1. `paging_reopen_quiet`: with recovery announcements off no all-clear row ends the
   paging episode, so a reopened incident reads as a duplicate and pages nobody.
2. `paging_crash_before_arm`: a crash after the first rung's row and before
   `begin_escalation` leaves the ladder unarmed; reconcile skips incidents with rows.
3. `writer_silent_region`: a down region that falls silent shrinks the quorum, and
   the window slides past the start of an incident, so the good run of a region
   that was never down passes for a recovery and closes it.

Also seen while modelling, reachable in the modules and not given a run of their own:

- Paging: an acknowledgement after the claim of a rung does not stop that rung
  (`sweep.rs:270`); a hold that comes due while the monitor is paused is consumed
  without a page and stays so after the monitor is resumed (`episode.rs:183`); a
  dropped Reopened signal is never reconciled; an Opened signal handled after the
  resolve pages, and no all-clear follows; a `begin_escalation` of the old episode can
  bind and arm a reopened incident past its first rung, and a rung claimed before a
  resolve and a reopen is paged and recorded in the new episode, ahead of the rungs
  below it; reconcile may page from a scan that is stale by then; an unpaged incident
  that grew older than the reconcile window is never paged (`engine/tests.rs:1263`
  wants it so).
- Delivery: a page's own send is not checked for staleness, only a retry's is, so an
  Opened notice leaves after the resolve; the retry scan takes a queued row whose
  first send is still running, so a channel is paged twice although nothing failed
  (`incident_ops/pg.rs:1131`); a retry's staleness check precedes its send; a
  delivered page can be dead-lettered when a slow send overwrites its mark; a row can
  be sent more often than `max_attempts`.
- Worker pool: the breaker can stay half-open for good, refusing every check of a host
  that answers (`docs/troubleshooting.md:24` says to wait for it "to enter half-open
  and probe"). Three ways lead there: `trip_open` stores Open before it resets the
  admissions (`circuit_breaker.rs:155-161`), so an admission granted in between is
  forgotten and its return wraps the counter; a check of before the trip that succeeds
  in the half-open state returns an admission it never took (`fetch_sub`, line 136);
  and a half-open probe that is throttled keeps its admission. Eviction of a closed
  breaker forgets its failure count; a throttled check does take a worker slot and
  writes no degraded result (`docs/architecture.md:143` says otherwise).
- Ingest: after a lost answer and an exhausted retry the batcher flushes a larger
  buffer under a new batch id, and the rows of the first are stored twice; a retry of
  one flush is stored twice, too, when the replica that takes it stamps another
  retention (a boot, a plan change) or keeps other rows (an assignment or the skew
  cutoff moved), because the blocks then differ and ClickHouse does not see a
  duplicate; a buffer grown past `INGEST_MAX_BATCH` is refused at every flush until
  its retries are used up and all of it is dropped, counted; a failed flush at
  shutdown drops the buffer uncounted.
- Interactive checks: an agent drops the rest of a claimed batch after one failed
  report; a check-now is answered before it is stored; a queued check does not expire;
  a burst larger than the claim limit may leave one check asleep until the next claim.
- Subscribers: a crash between send and mark, or a batch slower than ten minutes,
  sends twice (`subscriber_dispatch.rs:3` says a crash never does), and so does a
  webhook that took the notice and answered late or not with 2xx; an unsubscribe
  between list and claim fails the whole tick and delays what it had claimed.

## The proofs

TLAPS checks them from nothing in about ten minutes. Every invariant of every
passing run is stated by a theorem, and so are the action property
`ResolvedStaysResolved` and the safety part of the refinement of `Timers`. The
constants are arbitrary within one named assumption per module: `PagingAssumption`,
`WriterAssumption`, `DeliveryAssumption`, `SchedulerAssumption`, `PoolAssumption`,
`IngestAssumption`, `AdHocAssumption` and `SubscribersAssumption`. They say that
bounds are naturals (capacities, caps and thresholds positive), markers are not
channels, policies have a known kind, request kinds are disjoint, the buffer holds a
batch (`max_buffer` is a multiple of `batch_size`) and the breaker's counter holds
more than the admissions (an `AtomicU32`). They ask nothing the code does not
guarantee. Each inductive invariant was checked by TLC before it was proved.

`Paging_proofs`: `TypeCorrect`, `TimerSafe`, `OnePageSafe`, `AllClearSafe`, `HoldSafe`,
`RungsSafe`.
`TimerOnlyTriggered` is inductive with the types. The log properties are not: they
need to know what a task in the middle of a page is about to write. The inductive
invariant adds `LockHeld` (a process between the first read and the last write of
`page_with` holds the lock, so nobody else is there), `ReasonsFit` (which reasons
are under way at which point, and that held alerts are opens), and `Pending` (no
channel still to be paged for an open has been paged in this episode; every
channel still to be cleared or reminded was told and not cleared). `escalate_one`
writes without the lock, so the proof shows that an escalated row can disturb none
of the three. Lemmas say what appending a row does to `Cleared` and `Told`; one
lemma per group of actions follows, with one step per action.

`HoldSafe` needs that a release marker is written for an open hold only.
`ReleaseInv` says that from the scan that found a hold to the marker (`Releasing`) some
hold of the log is newer than every release marker (`HoldOpen`): the sweep alone writes
that marker, and rows others append in between keep the hold where it was.

`RungsSafe` has no hypothesis: reopens, channel edits and empty rungs are all in it.
`RungInv` adds to `IInv` that the rung of the incident, the rung a walk claimed and the
one below a rung under way were paged on every channel that was never switched off
(`Reached`), and that whoever of a rung under way is no longer to be paged was paged
(`Begun`). `PagedKept` carries both over every step: the log only grows, and a channel
that was switched off and on again never counts as always on.

`IncidentWriter_proofs`: `TypeCorrect`, `OneOpenSafe`, `EvidenceSafe`,
`ResolvedSafe`. The invariant adds `PlanBacked` (a tick about to open has its
evidence, one about to close read an incident of the writer) and
`DeclarationsKept`. The weight is in the decision: `LeastNat` and `GreatestNat`
give the `CHOOSE`s of the rule a value, `TriggerIsDown` shows that the trigger is
the first failure of a region whose run is long enough, whatever the quorum,
`DecisionSound` concludes that an "open" has its evidence, and `EvidenceKept` that
later and late results never take it away.

`Delivery_proofs`: `TypeCorrect`, `SendsSafe`, `GivesUpSafe`, `StaleSafe`. None of the
three counts is inductive: each row needs a budget for what is still to come. `IInv`
adds `JobsFit` (a page works on a first attempt, a retry on a later attempt of its own
row) and per row `SendBudget` (sends made, plus what the row's attempt and the retry
under way still allow, plus what the page under way may cause: its send and, when its
mark takes the row back to attempt one, all the retries again; each lost mark is paid
for by the failure that lost it), `StaleBudget` (late sends made, plus the page's send
under way and a retry's under way of a notice that does not fit, against one and one
per change of the incident) and, while the channel has stayed on, `Earned` (an attempt
that was reached was sent, but for one). The arithmetic of a step is stated once over
integers (`RetryFits`, `PageFits`, `FaultFits`, `LateSteps`, `PaidSteps`); one lemma
per action then says which of these moves it makes.

`Scheduler_proofs`: `TypeCorrect`, `OneLiveSafe`, `ImplementsTimers`. The invariant
says that generations grow, that a generation of a target has at most one heap entry,
and that the current one of a scheduled target has one. With it `TimerOf` is a function
of that one entry, and `ImplementsTimers` goes through the actions: applying a diff
starts, restarts or stops the timers it names, draining the live entry is the probe of
its timer, and draining a tombstone, the refresher, edits and failed listings are
stutters. This is `Spec => TM!Spec`; the fairness of `Timers` stays with TLC.

`WorkerPool_proofs`: `TypeCorrect`, `HostCapSafe`, `ProbeSafe`. The invariant adds
`TasksOK`: a task between `semaphore_for` and the end of its check holds the semaphore
the map holds now, because the sweep evicts only what nobody has cloned. So all
holders of a key share one semaphore and their number is its count. `ProbeSafe` is
inductive with the types. The breaker's atomic operations are actions of their own, and
the types cover what each leaves half done.

`Ingest_proofs`: `TypeCorrect`, `AckedSafe`, `StoredSafe`. `AckedIsStored` depends on
answers that may belong to an attempt given up long ago. `Delivered` says that at most
one request is waited for (`Waiting`), that every request with the id of the flush
under way carries its buffer (`SameBody`), that a handler past its write has stored
what it kept and refused the rest (`Handled`), and that an "ok", or an id remembered by
any replica, is true of that buffer (`Truthful`). For `StoredBounded`, `Counted(V)` says
that with some set `V` of filters, at most one more than the changes of what the
handlers keep, a result has a set of bodies, at most one per flush it took part in, such
that every stored block with the result in it is one of these bodies under one of these
filters (`FewFlushes`), and that it is stored once per block and stamp
(`CopiesCounted`). So the copies under one stamp are at most bodies times filters.

`AdHoc_proofs`: `TypeCorrect`, `NoLostWakeup`. `Alert` strengthens `NoSleepOverWork` to
the claim that has looked and is about to sleep: while the queue holds a check there
is a permit, a dispatch about to notify, or a claim that will look, unless the last
claim left checks behind. That no result is stored twice needs `OnePlace` (a check is
once in the queue or once in one batch) and `NotYet` (what has a place is not stored).

`Subscribers_proofs`: `TypeCorrect`, `NoSilentDuplicates`. Both are budgets per
delivery: jobs at work against faults and the claim held (`JobsBounded`), attempts
counted plus jobs that may still count one (`AttemptsBounded`), arrivals plus jobs not
arrived plus the claim that may still be made without an excuse, against one and what
excuses another arrival: takeovers, and arrivals reported as errors
(`ArrivalsBounded`). The last is why a row purged from the log must be too
old to be listed again.

Only model-checked: the liveness properties (`LadderWalked`, `LostOpenRecovered`,
`HeldIsPaged`, `ResolvedSignalClears`, `OutageOpens`, `RecoveryCloses`, `EverySettled`,
`RecoversOrWedges`, `Converges`, `Stops`, `EveryResultSettles`, `CheckNowLands`,
`EveryUpdateSettles`) and the fairness of `Timers` in `KeepsTime`: fairness and ENABLED
are outside the prover. The three runs that show a violation are counterexamples and
have nothing to prove.

## Not modelled

On-call calendars, check executors, notifiers, email, rendering, the REST and web
layers, the marketing site and configuration are arithmetic on calendars, I/O and
formatting without shared state; they are most of the repository's lines. Emergency
receipts, heartbeats, silence detection, plan holds, invitations and sessions, OAuth,
MCP confirmations and the background jobs have state and are not modelled yet. Inside
the modelled parts: the mail about a failing channel, flow runs, RDAP slots and single
flight, maintenance announcements to subscribers (the same code shape as updates),
the minting of confirmation tokens, and memory orders weaker than the
interleaving of the breaker's atomics.

## Plan

Done: nine modules, model-checked; every invariant of the runs proved, with the step
simulation of `Timers` by `Scheduler`.

1. Proofs: what liveness needs of safety, stated as invariants worth having on their
   own (a claimed ladder keeps its timer armed, an attempt given up is counted).
2. `EmergencyAck`: receipts, polling, cancelling and generation pinning.
3. Plan holds, OAuth code exchange and refresh rotation, heartbeats, erasure.
