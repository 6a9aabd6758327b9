# Formal models of the ISP management platform

TLA+ modules, TLC configurations and TLAPS proofs for the parts of the
platform whose correctness depends on the order in which threads, requests,
worker processes and failures take their turns. Paths below are relative to
`src/isp_management-main/`.

    tlc -config OLTConnectionPool.cfg MCOLTConnectionPool.tla     # a run
    tlapm OLTConnectionPoolProofs.tla                             # the proofs (*Proofs.tla)

## 1. The system

A FastAPI application (`main.py`, `backend_core/main.py`) over SQLAlchemy
sessions, a Redis cache and Celery, in one package per business module. A
request goes through the API gateway (rate limit, circuit breaker, version,
transformers) to a router, which calls a service; the service works on rows in
its request's session and commits one to several times. `uvicorn` starts one
worker process by default (`Dockerfile:28`), and every deployment with
more shares only the database and Redis between them. Many
`modules/X/services.py` and `models.py` files are shadowed by a package of the
same name. Where the package holds the implementation, the models follow it;
where it is an empty stub (as in `modules/service_activation`, whose
`services/__init__.py` has only `pass` in its methods) they follow the file with
the logic, which the tests describe.

### Inventory

| component | state it keeps | operations | interacts with | what is hard | what makes it correct |
|---|---|---|---|---|---|
| **OLT connection pool** `modules/network_management/olt/connection_pool.py` | list of items (adapter, in_use, last_used), lock, cleanup timer | get_connection, release_connection, close_all_connections, `_cleanup_idle_connections` | vendor adapters and their SSH client; callers' threads; the timer's thread | threads, a callback that re-arms itself, connections that die while idle, a full pool, errors halfway through a hand-out | a connection has one user, no slot is lost, the limit holds, the cleanup closes only idle connections and never stops, a call always returns |
| **API gateway circuit breaker** `backend_core/api_gateway/circuit_breaker.py`, `gateway.py` | per path: state, failure count, failure time; in Redis and in each process | check_circuit, record_success, record_failure | Redis, the gateway's middleware, other workers | several Redis accesses per operation, Redis outages, restarts, requests that finish long after they were let in | an open circuit refuses until recovery_time has passed and never refuses for ever; a closed one has forgotten old failures |
| **Service activation workflow** `modules/service_activation/` | activation row, step rows, what the handlers did to RADIUS, NAS and billing | create, start, update, delete; execute, retry, roll back | handlers in `integration.py`, notifications, the database | commits between steps, crashes, two starts of one activation, failing rollbacks | what a final status claims is what is really provisioned |
| **Business intelligence reports** `modules/business_intelligence` | templates, schedules, executions and outputs; tasks in the event loop | execute, schedule, generate, deliver, cancel, delete | data sources, generators, file storage, database | two commits per scheduled execution, tasks that die with their worker, status written by a task and by a cancellation | a completed report is whole; a worker executes a due occurrence once; an execution ends |
| **Configuration management** `modules/config_management` | configurations, history, groups, Elasticsearch copy, cache | create, update, delete, bulk, sync | Elasticsearch, encryption, Celery | a row loaded before others commit, one commit that sets value, environment and is_active, rows for one environment and for all | one active row per key and environment; every value traceable; nothing deleted comes back |
| **RADIUS** `modules/radius/services.py` | profiles, accounting rows, NAS devices, CoA logs | authenticate, start, interim, stop; CoA requests, disconnect; delete_nas_device | NAS devices, database | reports that are late, repeated or overlap; two commits per CoA; 32-bit counters | a closed session stays closed; a session over its cap is disconnected; an ended one closes |
| API gateway rate limiter `rate_limiter.py` | counters per client and path in Redis | is_rate_limited, configure | Redis, middleware | `incr` and `expire` are two calls | at most the limit per period, and no client blocked for ever |
| API gateway router, versioning, transformers | configuration only | rewriting of requests and responses | middleware | – | – |
| OLT adapters, SSH client `olt/adapters`, `olt/utils` | SSH session, `_connected` | connect, disconnect, commands | pool, device | dead sessions | modelled only as the pool sees it |
| Billing `modules/billing/services` | invoices, payments, refunds, credit notes, subscriptions | process_payment, create_refund, apply_credit_to_invoice, subscription cycles | payment gateway, database | double submissions, money taken but not recorded, balances read and written without a lock | an invoice reads PAID exactly when it was paid; a credit is not spent twice |
| Field services `modules/field_services/services` | stock of the depot and of technicians, ledger; jobs, routes | assignment, usage, adjustment; job status | database | lost updates, ledger in a commit of its own | stock is conserved and explained by the ledger |
| UNMS client `modules/unms` | token, refresh token, response cache | request, login, refresh, retry | external UNMS server | retries of requests that were carried out, refresh that loses its token | a call is not carried out twice; the client can always log in again |
| Authentication `backend_core/auth_service.py`, `modules/auth` | failed attempts, lock, sessions, token blacklist | login, refresh, logout, MFA | Redis, database | concurrent failures | an account is locked after the configured failures |
| Network `modules/network` | IP pools and allocations, devices, firmware tasks | allocate, release; task status | database | two allocations at once, illegal task transitions | an address has one owner |
| CRM ticketing `modules/crm_ticketing` | tickets, SLAs | assignment, SLA default, escalation | notifications | several commits per operation | at most one default SLA |
| Monitoring `modules/monitoring` | checks, outages, alerts, metrics | checks, alert lifecycle, collection | Elasticsearch, devices | polling, flapping | an outage is opened and closed once |
| Tariff, reseller `modules/tariff`, `modules/reseller` | plans, usage counters, commissions | tariff change, usage, cycles | RADIUS, database | counters | usage is not lost |
| Communications, integrations | messages, webhooks | send, retry, deliver | external services | retries | a message is delivered, and not twice |
| Database and cache access `backend_core/database.py`, `cache.py` | sessions | – | all | – | – |

Not considered: the front end, Docker and Alembic files, scripts, the chatbot,
the file manager and the customer CRUD modules. They keep records through
single commits or are I/O and presentation.

`PROJECT.json` lists the hazards of these components at their lines, with the
property that covers each or the reason why none does yet.

### Plan

1. **Core (done).** `OLTConnectionPool` with its abstract specification
   `LeasePool` and proofs; `CircuitBreaker`; `ActivationWorkflow`.
2. **Shared rows (done).** `ReportExecutions`, `ConfigurationStore`,
   `RadiusSessions`: requests, tasks and workers that load rows, wait, and write
   them back; `AuditedKey`, the abstract specification of the configuration
   store; proofs about the store and the sessions.
3. **Proofs (done for all modelled components).** Every safety invariant and
   action property of the passing runs is stated by a theorem (section 4). No
   module uses a RECURSIVE operator.
4. **Further components.** The rate limiter, login lockout and sessions
   (`modules/auth/services.py`), address allocation and firmware tasks of the
   network module, the UNMS client's retry and token refresh,
   `delete_activation`.

## 2. What is modelled

### `OLTConnectionPool` – get_connection, release, close, cleanup

| model | code |
|---|---|
| `pool` | `self.pool`: adapter, `in_use`, and instead of `last_used` whether it is more than `max_idle_time` ago (`aged`) |
| `link` | `_connected` of the SSH client and whether the device answers: `closed`, `open`, `silent` |
| `pc`, `held` | where a thread is in get_connection; the adapter it was given |
| `timer` | the `threading.Timer` and its callback: armed, fired, sweeping, swept, none |
| `GetIdle`, `GetReconnect`, `GetReplace`, `GetReplaceFails` | lines 133-153: the first idle item answers; is reconnected; gets a new adapter; fails and is released |
| `GetNew`, `GetNewFails`, `GetFull` | lines 155-167 |
| `Retry`, `TimeOut` | lines 169-176, with no lock held |
| `ReleaseConnection`, `CloseAll` | lines 178-204 |
| `TimerFires`, `SweepBegin`, `SweepItem`, `SweepEnd`, `Rearm` | lines 79-107 |

A section under `self.lock` is one action, since nothing else of the pool can run in
it; the sweep is a loop and holds the lock while `timer = "sweeping"`.
`is_connected` and `connect` have the outcomes of `huawei_adapter.py` and
`ssh_client.py`: `connect()` returns True at once when `_connected` is set,
turns an OLTConnectionError into False and lets an OLTCommandError through.
`cancel()` does not stop a callback that has started. Only the identity of an
adapter matters, so an adapter nobody refers to any more stands for any new
object; with one adapter more than items and holders together a new one can
always be made.

`LeasePool` is what any such pool promises: exclusive leases, at most
`MaxConnections` resources, a leased resource leaves only at a shutdown.

### `CircuitBreaker` – one path of the gateway

State, count and failure time exist in Redis and in every worker. A read prefers
Redis, then the worker's own copy; a write goes to both (`Store`), and an
unreachable Redis is skipped silently. The breaker's methods are synchronous:
in one worker they exclude each other (`Idle`), between workers every Redis
access is a step. Requests are suspended while the application answers
(`serving`) and while the response is transformed (`responding`); the middleware
records a success between the two, and a failure for an exception in either. The
request transformer runs before that try block (`gateway.py:147`), and it raises for an API path
that has no transformation of its own (`request_transformer.py:67`): a request
that was let in, a probe of a half-open circuit too, may leave without a record
(`Leave`), as it does when it is cancelled. A 5xx response without an
exception is a success to the breaker, as in the code. Time is a tick; ages stop
at `RecoveryTime + 1` and counts at `Threshold`, beyond which the code does not
tell them apart. `Restart` loses a worker's copy and its requests; a worker that
starts while Redis is away never uses it (`client`, `backend_core/cache.py:28-39`).

### `ActivationWorkflow` – one activation

Every commit, query and handler call is an action. `effect[s]` counts how often
step `s` is in place outside: it goes up when a handler returns True and down
when a rollback handler does; a handler that fails has done nothing. The
prerequisite and payment checks set flags that the engine does not read again,
so they are no branch; the branch that fails an activation before its steps is
unreachable, and `depends_on_step_id` is never set by create_activation.
`Crash` is a process that dies or a commit that raises, which nothing catches.
`UpdateActivation` is update_activation, which writes any status it is given.

The engine is modelled over rows that stay readable after a commit, as with
the sessions the tests use. As written, `database.py:27` leaves
`expire_on_commit` at its default, and reading an attribute after a commit
would raise under an AsyncSession; and `models.py` declares a column named
`metadata`, which SQLAlchemy reserves.

### `ReportExecutions` – one template

| model | code |
|---|---|
| `template`, `schedule`, `execution` | the rows of `report_templates`, `scheduled_reports`, `report_executions` with its outputs |
| `task` | where the task started with `asyncio.create_task` is |
| `todo`, `serving` | a worker's caller of the scheduling service: the schedules it read as due, and the execution that execute_scheduled_report created and has not rescheduled |
| `ExecuteReport`, `ReadDue`, `CreateScheduled`, `SkipScheduled`, `UpdateNext` | execute_report, get_due_scheduled_reports, execute_scheduled_report with its two commits |
| `Start`, `RenderFails`, `SizeFails`, `Save`, `Deliver`, `DeliverFails`, `RowGone` | `_generate_report` and `_deliver_scheduled_report` |
| `ReadCancelable`, `Cancel` | cancel_report_execution |
| `CreateSchedule`, `Reschedule`, `SetActive`, `DeleteSchedule`, `DeleteTemplate` | the scheduling service, delete_report_template with its cascades |

The services are synchronous between two awaits, so inside a worker only a
task that waits for data or a generator lets others run (`Free`); another
worker runs at any time. Time is counted in days and a frequency is a period of days
whose start is the next execution. `due`, `at` and `rescheduled` record where an execution came from
and belong to the properties. `CommitFails` is a commit that raises in a
task: the handler goes on with the same session, which refuses every query
until it is rolled back, so the row keeps its status.

The service is modelled with its collaborators in place. As written it does not
start: `get_db_session` is missing from `backend_core/database.py`, the
constructor calls `FileService()` without its required argument, and
`tasks.py` imports names that do not exist. The check for due schedules in that file
(lines 58-84) is not modelled: it cannot run, no entry of the beat schedule
starts it, and it would call execute_report without awaiting it, so that no execution
is made, and then move the schedule on. The two methods that fit together,
get_due_scheduled_reports and execute_scheduled_report, are modelled with a
caller that passes what the first returns to the second (`Scheduler`, external). Nothing
is assumed of when it runs, and nothing is claimed of whether a due schedule is ever served.
With two such callers an occurrence may be executed twice, or skipped when the
second commit of one is late; no property denies that.

### `ConfigurationStore` – one key in all its environments

| model | code |
|---|---|
| `rows` | `configurations`: value, environment, is_active, version of each row of the key |
| `history` | `configuration_history`: which row, value and version |
| `pc`, `req` | the request a worker process is serving: the row its session loaded, and what it is to set |
| `Found` | get_configuration: an active row of the environment or of ALL, whichever comes first |
| `Create`, `Insert` | create_configuration: its check, and its commit |
| `Update`, `CommitUpdate` | update_configuration, which sets any of value, environment and is_active at once |
| `Delete`, `Deactivate` | delete_configuration |
| `Abort` | refused by the validation, the database fails, or the worker dies before the commit |

The routes are coroutines that call the service without waiting, so a process serves one
of these requests at a time, and requests interleave only between worker
processes. `Written` is what an UPDATE of an SQLAlchemy session does: it sets the
columns whose value differs from the loaded one. So an update that sets `is_active` to
true, which the row it loaded had, does not bring back a row that was deleted meanwhile. `Unique` is
the constraint of the table as declared, which covers inactive rows too (on
PostgreSQL; on SQLite it would replace the other row), and `Init` includes a key
that was created and deleted before. A row can be born inactive. Columns that
no modelled code compares (description, category, the flags for
encryption and Elasticsearch, times) are left out.

`AuditedKey` is what any audited store of one key promises: an environment has at
most one live entry; an entry is born live or dead, may change and move, may die in the
same step as it changes, and never comes back; and when it takes a value, the trail
has that value for it and gains no other. The mapping takes the rows' values
and environments for `entry`, the active rows for `live` and the pairs of row
and value in the history for `trail`; it forgets versions. A change may reach a
dead entry, because an update that loaded the row before its deletion commits
after it. The trail does not trace environments: when an update that moves a row overlaps
one that sets its value, no single entry of the history has both.

### `RadiusSessions` – one subscriber, one NAS device

| model | code |
|---|---|
| `session`, `used` | the sessions on the NAS and what they have used; only the NAS knows them |
| `rows` | `radius_accounting`: usage, and `open` for `stop_time` null |
| `device`, `log` | the `nas_devices` row, `radius_coa_logs` |
| `pc`, `job` | a request's thread and the row its session loaded |
| `Authenticate` | authenticate_user, where it accepts |
| `TakeStart`/`Insert`, `TakeInterim`/`CommitInterim`/`CheckCap`, `TakeStop`/`CommitStop` | start, update and stop_accounting_session, up to the check and at the commit |
| `RequestCoa`, `LogCoa`, `CoaResult` | disconnect_user, disconnect_user_session, the CoA loop of update_radius_profile; send_coa_request with its two commits |
| `CheckNasUnused`, `DeleteNas` | delete_nas_device |

The NAS may send a report late, again, or out of order, and repeats a stop
until it is answered. A value above `MaxInteger` makes the commit fail (the column is an
INTEGER). The CoA packet itself is simulated in the code, always with success,
and what a NAS does with it is outside. A log's type `capped` is a disconnect with the
cause Data-Cap-Exceeded. `Crash` is also a handler whose second commit of a CoA request
raises, and the commit in its except branch too (`services.py:1165`, 1184-1188): the
log stays pending, the worker lives on without the request. Sessions whose start names no NAS and the
contents of the profile are not modelled.

## 3. What the runs show

| run | configuration | instance | shows |
|---|---|---|---|
| `pool` | `OLTConnectionPool.cfg` | 3 threads, 2 connections, 4 adapters | `ExclusiveLease`, `NoLeakedSlot`, `PoolBounded`, `NoForeignDisconnect`, and that the pool implements `LeasePool` |
| `pool_liveness` | `OLTConnectionPoolLive.cfg` | 2 threads, 1 connection | every get_connection returns or raises even if nobody releases (`GetReturns`); idle connections are reaped until the pool is closed (`IdleReaped`) |
| `pool_stale` | `OLTConnectionPoolStale.cfg` | 2 threads, 1 connection | **violated**: get_connection can return an adapter that is not connected |
| `breaker` | `CircuitBreaker.cfg` | 3 requests, 1 worker, threshold 2, one Redis outage | `OpenHasStamp`, `BlockedWhileOpen`, `BelowThreshold`, and `Recovers`: with the service healthy again the circuit closes for good, whatever late failures arrive and however many probes leave unrecorded |
| `breaker_workers` | `CircuitBreakerShared.cfg` | 2 requests, 2 workers, one restart | `OpenHasStamp` and `Recovers` when workers interleave between Redis accesses and one of them dies |
| `breaker_outage` | `CircuitBreakerOutage.cfg` | 1 request, an outage and a restart | **violated**: OPEN without a time blocks the path for ever |
| `activation` | `ActivationWorkflow.cfg` | 1 run, 3 steps, 1 retry, a crash, a status set by hand | final statuses are truthful (`CompletedIsProvisioned`, `NothingLeftBehind`), rollback undoes what was applied, backwards and once (`UndoesOnlyApplied`, `RollsBackInReverse`), a run ends (`Settles`) |
| `activation_twice` | `ActivationWorkflowTwice.cfg` | 2 runs, 2 steps | **violated**: two starts of one activation leave COMPLETED over undone steps |
| `activation_half_created` | `ActivationWorkflowHalfCreated.cfg` | 1 run, nothing dies | **violated**: an activation started before its steps are committed is COMPLETED without them |

| `reports` | `ReportExecutions.cfg` | 2 workers, 1 schedule, 2 executions, 3 days, a crash or failed commit | `CompleteIsWhole`, `OncePerWorker`; executions end (`Settles`) |
| `configuration` | `ConfigurationStore.cfg` | 2 workers, 4 requests, 2 environments, 3 rows | `OneActive`, `ValueInHistory`, and that table and history implement `AuditedKey` |
| `radius` | `RadiusSessions.cfg` | 2 sessions, 2 handlers, 1 CoA request, a dead handler | `ClosedForGood`, `PendingIsInFlight`; a session over its cap is sent a disconnect (`CapIsEnforced`), and an ended one closes (`EndedSessionCloses`) |

`TypeOK` is checked in the largest run of each module.

### Bounds

- Pool: three threads and two connections have every case: two holders and one
  thread that waits; an idle item behind a used one; a pool that was closed
  under its holders and filled again. Four adapters are two in the pool, at most
  three held of which some are in the pool, and room for a new one.
  The liveness run has one connection, so that the pool is full for one thread
  while another holds it. For all other sizes the safety properties are proved.
- Breaker: with a threshold of 2, counting and opening differ; a third request
  is the laggard whose failure arrives after the circuit was opened or closed
  by the others. `MaxOutages` and `MaxRestarts` bound how often, not when. `RecoveryTime`
  is 1 where elapsed time matters and 0 in the run with two workers.
  `OpenHasStamp` (for Redis), `BlockedWhileOpen` and `BelowThreshold` speak of a
  Redis that has missed no write, and the last two of one worker:
  with two, a worker that read OPEN before another's probe failed sets
  HALF_OPEN too early.
- Workflow: three steps have a first, a middle and a last one to fail;
  one retry is enough to retry, and to run out. `Regular` keeps two hazards
  out of the invariants: a status written by hand, and steps committed after
  the start; the second has a run of its own.

- Reports: one schedule and one execution on request fill two rows, so a
  scheduled task, a requested one and a repeated occurrence meet two workers.
  One fault is enough, since a second crash only repeats the first.
- Configuration: four requests are a create, an update, a deletion and another create
  or update, and overlap in pairs; three rows are a deleted one and one for each
  environment, and two environments are ALL and another. Two values tell a lost value from a
  kept one. For all other sizes the properties are proved.
- RADIUS: `Cap = 0`, `MaxInteger = 1` and `MaxUsage = 2` are the three classes of
  usage the code tells apart: within the cap, over it, too large for the column. A
  session's usage grows once, and a dead handler is not replaced, to keep the
  instance small. The log has room for one CoA request; `CapIsEnforced` excuses a log that is full,
  unless what fills it is a disconnect for a session that used nothing above the cap, so
  one sent for the wrong session does not stand for the right one. Lowering the cap of a profile while sessions are open is not modelled. Two sessions with
  `Limit = 1` are both live when both logged in before either start was stored.

### Fairness

- Pool: a thread in get_connection keeps running and eventually takes the lock
  (strong fairness of `Attempt`; an RLock is not fair, but its sections are
  short and every round sleeps half a second), and the clock that it compares with
  `connection_timeout` moves on (strong fairness of `TimeOut`). The timer
  thread runs. Nothing is assumed of those who hold connections.
- Breaker: requests keep reaching every worker, the event loop keeps running their
  coroutines, time passes, and Redis is brought back. Of the requests that a
  worker lets in again and again, some get past the request transformer, no
  particular one: any number of probes may leave without a record first. On a path
  without a transformation of its own none gets past it; nothing is recorded there
  and the circuit stays closed. The application may stay
  unhealthy; `Recovers` is conditional on its staying healthy.
- Workflow: a run that has begun goes on and its handlers return. No one is
  assumed to start, update or restart anything.

- Reports: a ready task gets its turn between other coroutines (strong fairness of
  `Step`: an event loop takes its callbacks first in, first out), and
  execute_scheduled_report is not suspended between its two commits. Callers, users,
  deletions and time are free.
- Configuration: none; its properties are safety properties.
- RADIUS: handlers run to their end, and a NAS repeats a stop until it is taken
  (strong fairness of `TakeStop`: a server that takes requests in order
  answers one that keeps being sent).

## 4. What is proved

`OLTConnectionPoolProofs`, for every set of threads and adapters and every
`MaxConnections`, from `PoolAssumption` (the limit is a positive number,
`NoAdapter` is not an adapter):

- `TypeCorrect`: `Spec => []TypeOK`.
- `Safety`: `Spec => []Safe`, where `Safe` is the conjunction of
  `ExclusiveLease`, `NoLeakedSlot`, `PoolBounded` and `SeekersHoldNothing` (a
  thread in get_connection holds nothing). None is inductive alone: an idle item may be
  handed out because nobody holds its adapter (`NoLeakedSlot`); writing one
  item leaves the others right because adapters in the pool differ
  (`PoolBounded`); a release frees an adapter because only one thread has it
  (`ExclusiveLease`); and a hand-out overwrites no earlier one
  (`SeekersHoldNothing`).
- `LeasesAreExclusive`, `SlotsAreNotLeaked`, `PoolIsBounded`: its parts.
- `PoolImplementsLeases`: `Spec => ImplementsLeasePool`. Each action is a
  `Grant`, `Return`, `Maintain`, `Shutdown` or a stutter under the mapping
  `lease <- held`, `slots <- Pooled`.
- `NothingClosedInUse`: `Spec => NoForeignDisconnect`. What get_connection or the
  sweep closes belongs to an item that is not in use, which nobody holds
  (`NoLeakedSlot`), or is an adapter just made; two items never share one
  (`PoolBounded`).

The lemmas say what writing, adding and removing an item does to the list
(`ItemWritten`, `ItemRemoved`, `PooledAfterWrite`, `AdaptersBounded`), and then
take the actions one at a time (`HandOutIdleSafe`, `GiveUpSafe`, `GetNewSafe`, ...).

`ConfigurationStoreProofs`, for every set of workers, every non-empty set of values, every
set of environments with `ALL` and all bounds (`StoreAssumption`; `MaxOps` is positive):

- `Soundness`: `Spec => []Sound`. `OneActive` is kept by the constraint, but
  `ValueInHistory` is not inductive: a commit writes only the columns that
  differ from what the request loaded, so an update to the loaded value writes
  none, and its entry in the history must be there already. `Sound` therefore
  adds `LoadedInHistory` (the value loaded is in the history), `RequestsHoldRows`
  (what was loaded is still there, and was active, so that no commit can
  make a deleted row active) and, for the types, `VersionsCounted` (no version
  runs ahead of the requests).
- `TypeCorrect`, `AtMostOneActive`, `EveryValueTraced`: its consequences.
- `StoreIsAudited`: `Spec => ImplementsAuditedKey`. The three commits write a row that
  `Fits` (`InsertCommits`, `UpdateCommits`, `DeactivateCommits`), and a commit
  of a row that fits is a `Birth`, a `Change`, or refused (`CommitRefines`); every
  other step is a stutter.

`RadiusSessionsProofs`, for every set of sessions and handlers and all bounds
(`RadiusAssumption`; there is at least one session):

- `Soundness`: `Spec => []Sound`: the types, `PendingIsInFlight` and
  `LoadedIsThere` (a usage or stop report loaded a row that is still there).
  `CoaResult` ends the log of its handler; a handler works on one log at a time,
  so any other pending log has another handler, which did not move.
- `TypeCorrect`, `PendingLogsAreInFlight`: its consequences.
- `StoppedStaysClosed`: `Spec => ClosedForGood`, from `KeepsClosed`, which each
  step that writes a row satisfies: an insert needs that there is no row, and a
  report writes `stop_time` only to set it.

`CircuitBreakerProofs`, for every set of requests, every positive threshold,
every recovery time and all bounds (`BreakerAssumption`). For any number of
workers, restarts and Redis outages:

- `Soundness`: `Spec => []Sound`. `OpenHasStamp` is not inductive: it is
  record_failure that stores the time before the state, so `Sound` adds
  `StampedFirst` (a request past that write has a time in its worker's copy
  and, unless Redis missed a write, in Redis), `Placed` (a request has a worker) and `Intact`
  (Redis is up, and every worker uses it, until its first outage). Nothing ever takes a stored time away
  but the loss of a whole copy, and a restart ends the requests that relied on it.
- `TypeCorrect`, `OpenStamped`: its consequences.

For one worker (`OneWorker`), which may be restarted:

- `SingleSoundness`: `Spec => []Single`. `Exclusive` says that the breaker
  methods of a worker exclude each other; the others speak of a Redis that missed no
  write. `Mirrored`: Redis has what the worker has, so that reading Redis is
  reading the circuit. `KnowsCircuit`: what a method read still holds while it
  runs. `Counted`: a closed circuit with too many failures on record is
  about to be opened or about to forget them.
- `OpenBlocks`: `Spec => BlockedWhileOpen`. With two workers it fails: one that
  read OPEN before another's probe failed sets HALF_OPEN too early.
- `FailuresCounted`: `Spec => [](restarts = 0 => BelowThreshold)`. After a
  restart it fails: a worker that dies between storing the count and storing
  "open" leaves a closed circuit with a full count.

`ActivationWorkflowProofs`, for every number of steps, retries, crashes and
updates by hand (`WorkflowAssumption`):

- `TypeCorrect`: `Spec => []TypeOK`, for any number of runs; `Typed` adds where a
  run can be before the steps exist and how it starts.
- `Soundness`: `Spec /\ []OneAtATime => []Sound`. The status says what is in
  place (`StatusOfEffect`) because of where the run is: it has executed the
  steps before the current one and none after it (`InOrder`), it reaches its
  last commit with all in place, and a rollback has in place what it has yet to
  undo or failed to undo (`Undoing`, with every earlier completed step). What
  `Latest` chooses exists because a finite set of steps has a last one
  (`LatestIsLast`).
- `CompletedProvisioned`, `NothingLeft`, `OnlyAppliedUndone`,
  `RolledBackInReverse`: its consequences.

`OneAtATime` says that no two runs are under way at once. It is a hypothesis, since
the service does not ensure it: `activation_twice` shows `CompletedIsProvisioned`
violated without it. It is true of every behaviour with one run, as in
`activation`; with more of them the theorems cover restarts after a crash or an end.

`ReportExecutionsProofs`, for every set of workers and schedules, every finite
non-empty set of frequencies and all bounds (`ReportsAssumption`; the
frequencies are an enumeration, `models/report.py:42`):

- `Soundness`: `Spec => []Sound`. `OncePerWorker` is about executions of the
  past; that no new one repeats them takes `TodoIsNew` (what a worker has read as
  due it has not executed before), `ServesLatest` (the row a worker is serving is its
  latest, and its schedule is not moved on yet), `MovedPast` (a schedule that was
  moved on is past the occurrence; `NextAfterIsLater`) and, for these, `Numbered`
  (ids are given in order), `WasCreated` and `HasFrequency`.
- `TypeCorrect`, `CompleteReportsWhole`, `ExecutedOncePerWorker`: its consequences.

Only model-checked: the liveness properties `GetReturns` and `IdleReaped` (pool),
`Recovers` (breaker), `Settles` (workflow, reports),
`CapIsEnforced` and `EndedSessionCloses` (RADIUS).
They hold under fairness, and TLAPS does not prove ENABLED. The
properties of the runs that end with a violation are false, and so not proved.

## 5. Findings

Each is a run that TLC ends with a counterexample, quoted in `PROJECT.json`:

1. get_connection ignores what `connect()` returns for a stale connection and hands
   the adapter out ("Ensure the connection is still valid",
   `modules/network_management/olt/connection_pool.py:136`).
2. record_failure's two writes, one of which Redis misses, block a path for ever
   (`backend_core/api_gateway/circuit_breaker.py:163`).
3. start_activation can run one activation twice
   (`modules/service_activation/services.py:249`).
4. An activation that is started between the two commits of its creation completes without any step
   (`modules/service_activation/services.py:121`).

## 6. What is not modelled

Of the modelled parts: commands and parsing of the OLT adapters; `configure`
and the metrics of the breaker, and the success counter, which only the metrics read;
`delete_activation`, the event log, notifications and what
the handlers do inside; data sources, downloads, access logs and the content of reports, and e-mail
delivery, which is a TODO; configuration groups, bulk updates, validation,
encryption, and the cache, which every request builds anew; RADIUS attributes,
policies and statistics.

Of the system, some code has no behaviour to be faithful to, because it fails
when it is called:

- Billing and the field inventory: the services set and read columns the models do not
  declare.
- Monitoring: the outage services call methods that are not defined.
- CRM ticketing: the `Customer` relationship names a class that does not exist, so the
  mappers cannot be configured, and the services call a logging method that does not exist.
- Tariff: a dict is passed where send_coa_request needs a request object, usage
  is queried by a column the model lacks, and its tasks import from an empty package.
- Integrations: the task decorator is not imported and the handlers are TODO stubs.
- The Elasticsearch copy of configurations: the single-key routes build the service
  without it; the periodic task and the sync route pass no client
  (`modules/config_management/tasks.py:33`), so they fail and roll back whenever there is a
  row to copy. With a client it would not work either: the mapping declares `value` an
  object (`services/elasticsearch_service.py:53`), the documents have strings and scalars
  (lines 128-131, 265), and rows that are refused are flagged as synced (line 287).
- Cleaning up the configuration history: the task raises a NameError, and the service's
  `cleanup_old_history` is called by a test only. So no entry is ever removed.

The rate limiter, `modules/auth`, the network module and the UNMS client can be
modelled and are next. Together the models cover the parts whose state is
shared between threads, tasks and processes; most of the 130 000 lines are
schemas, endpoints, reports and CRUD services without such a state.
