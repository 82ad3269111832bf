# Verification of bittensor-prometheus-proxy

TLA+ models of the parts of the proxy that are hard to test, the TLC runs that
check them on small instances, and TLAPS proofs for every size. Paths are
relative to the repository root; `core/` stands for `app/src/project/core/`,
`settings.py` and `celery.py` for those of `app/src/project/`.

| Module | What it is |
|---|---|
| `ValidatorSync` | the periodic task that copies validator lists from the chain into the table, under its Redis lock |
| `Registry` | abstract: what the table promises to its readers; `ValidatorSync` implements it |
| `BatchLedger` | abstract: what a sender and the owner of the store may rely on; `Delivery` implements it |
| `Delivery` | a batch's way from the sender through both proxies to the store, with retries |
| `Telemetry` | what the proxies do to headers and bodies, and what the central one lets through |
| `TaskQueues` | Celery's Redis lists, the dead-letter hook, `move_tasks` and `flush_queue` |
| `TaskLedger` | abstract: what the queues promise about a task; `TaskQueues` implements it |
| `FailureAlarm` | when a failed synchronisation is logged as an error |
| `SiteIdentity` | the hotkey on site: the label Prometheus is configured with and the wallet the workers sign with |
| `Settings` | the start-up checks of `settings.py` |
| `Backups` | dump, delivery and rotation of `bin/backup-db.sh` |
| `MetricsExport` | counters of many processes in files, and the scrape that adds them up |
| `Operations` | the last five side by side, for one run |
| `...Proofs` | theorems about the modules they are named after; `OperationsProofs` has those about `SiteIdentity` and `Settings` too |
| `MC...` | symmetry sets, payloads and environments for TLC |

How they meet: beat puts `fetch_validators` into the queue (`TaskQueues`), a
worker runs it (`ValidatorSync`), its failures are logged (`FailureAlarm`) and
its result is the registry that `Delivery` and `Telemetry` ask. The label and
the signer of `SiteIdentity` are what `Telemetry` compares; the counters of
`Delivery` are what `MetricsExport` keeps. `Settings` decides whether a process
of either role exists at all.

## Inventory of the system

| Component | State | Operations | Interacts with | Hard because |
|---|---|---|---|---|
| Validator synchronisation (`core/tasks.py`) | lock and last-success keys in Redis, rows in PostgreSQL, locals of the run | `fetch_validators`, `_fetch_validators` | Celery, Redis, Pylon, table | hard kills skip `finally`; a table read twice and written twice without a transaction; operators write in between |
| Celery scheduling (`settings.py`, `celery.py`, entrypoint) | queues | beat, delivery, late acknowledgement, time limit | task | a run may be killed, lost, delivered again, or started while another runs |
| Validator table (`core/models.py`, `debug_add_validator`) | rows (hotkey, netuid, active, debug) | insert by hand | task, inbound views | unique constraint hit by a run that did not see the row |
| Outbound and inbound views, session (`core/views/`, `core/proxy_outbound.py`) | one request per worker | post, retry, answer | sender, each other, store | POSTs are retried though the first may have been done; late answers; in combined mode the pool calls itself |
| Inbound authentication (`core/proxy_auth.py`) | none | `validate_bittensor_request` | table | order of checks; registry changes under way |
| Payload handling (`core/views/`) | none | tag, validate, decompress | collector, store | first and last occurrences; headers that describe a body that has changed |
| Ingest counters and export (`core/metrics.py`, clean-up hooks) | counters in memory, one file per process and container | `inc`, fork, exit, restart, `metrics_view` | inbound metrics view, gunicorn, Celery, Prometheus | counted before forwarded; files outlive processes, process ids return; a scrape reads file by file |
| Contacts (`core/contact/`) | none | `get_validator_hotkeys`, `push_traces` | Pylon, Tempo | fail or time out |
| Queues (`celery.py`, `core/tasks.py`, commands) | Redis lists, unacknowledged messages | delivery, failure hook, `move_tasks`, `flush_queue` | workers, operators | moved one by one from a snapshot, while workers and other operators take and move |
| Failure alarm (`core/tasks.py`) | last-success entries with a time-to-live | `_log_failure`, `cache.set` | task, Redis, Sentry | age, expiry and loss of an entry; the cache may be down when it is asked |
| Wallet (`settings.py`), on-site Prometheus (`app/bittensor_prometheus/`) | key file, cached wallet, configured label | first use, start, restart | each other, central proxy | two caches of one file |
| Settings (`settings.py`) | environment, `.env` | start-up validation | everything | seventeen variables, several notions of `set` |
| Backups (`bin/`) | `.backups` | dump, mail or upload, rotate | PostgreSQL, mail server, bucket | partial dumps, failures between the steps, slices at the boundary |

What makes each correct is listed with its properties below; `PROJECT.json` has
the full list of components, including those not modelled, and the hazards with
their lines.

## Validator synchronisation: `ValidatorSync`, `Registry`

**State.** `pc[w]` is where worker `w` is in the task: `start` (before
`cache.add`), `fetch` (first loop, at subnet `pos[w]`), `next`, `debug`, `rows`,
`create`, `update`, `mark` (second loop, one step per query, write or cache
call), `release` (`finally`). `answer`, `debugSeen`, `rowsSeen`, `flagged` are
the run's local variables. `known`, `active` and `debug` are the table. The
lock is `lockTTL`; `lockHolder`, which the code has not got, remembers who
added the key so that properties can ask. `served` is history as well.

**Actions.** One per call that another process can get in front of.
`CreateConflicts` is the `IntegrityError` of `bulk_create`; `Raise` is an
exception of any other call inside `try`; `FetchFails` is the one the task
catches. `HardKill` is the pool's time limit: it ends the run without
`finally`, and the message counts as done. `WorkerLost` puts the message back
(`reject_on_worker_lost`). `Release` deletes the key whoever added it, as the
code does: that it is always the run's own is a property, not a guard.

**Time.** Time is counted in units; `budget[w]` and `lockTTL` count down
together in `Tick`. The hard kill may come up to `KillSlack` units late, and
`KillSlack < LockMargin` is assumed: the code's 60 seconds on top of the task
limit are there for it. The theorems hold for any values; without the
assumption the lock can expire under a running task.

**Abstractions.** `BITTENSOR_NETUIDS` has no duplicates, and subnets are visited
in its order. A hotkey is a model value. Query caching is left out: the
`CACHEOPS` key (`settings.py:264`) is `project.core.Validator`, while Django's
label of the application is `core`, so no profile applies and queries go to the
database. If the key is corrected, the inbound check reads through a cache and
the model has to be extended with it.

| Run | Property | What it says |
|---|---|---|
| `sync_table` | `DebugRowsStayActive` | operators' rows are never put out |
| | `RunsKnowTheTable` | what a run read is still true when it writes, apart from what operators and itself added |
| | `MarkedMeansSettled` | success is recorded only when the rows agree with the answer |
| | `RefinesRegistry` | every step is a step of `Registry` or none: nobody is let in but on the latest answer or an operator's word, nobody vouched for is put out, a failed fetch changes nothing |
| `sync_live` | `OneSyncAtATime` | the comment `must outlive the hard kill`: neither expiry nor another run's `finally` takes the lock from a run, so there is one run at a time |
| | `EventuallyAdmitted`, `EventuallyExpelled` | the table catches up with a chain that has settled |
| `sync_independence` | `SubnetsIndependent` (violated) | finding 1 |

**Bounds.** `sync_table` is about data: two hotkeys and two subnets, so that
one can be listed and the other not, and a failure of one subnet can spoil the
other; one failure is enough to leave a table half way. `sync_live` needs a
left-over lock and a failed retry: two failures, two workers (holder and
successor). Its task limit is one unit and the kill is punctual: that the lock
holds for any number of workers and any late kill is a theorem. Symmetry is used
in safety runs only.

**Fairness.** Weak fairness of `Beat` (the schedule), `Tick` (time passes),
of some idle worker taking a message, and of each live worker going on with its
run. No failure and no operator is forced to act.

## Request delivery: `Delivery`, `BatchLedger`

**State.** `sitePc[h]`, `site[h]`: an outbound worker with its request, the
number of tries and whether its client still waits. `centralPc[c]`,
`central[c]`: an inbound worker and who called it. `abandoned[b]`: calls in the
backlog whose caller has gone. `sender[b]` is what the sender knows of batch
`b`; `copies[b]` and `counted[b]` are the store and the counters.

**Actions.** `PostCentral`, `SiteTryFails`, `SiteStarves`, `SiteAnswers` are the
outbound view and its session; `Accept`, `Admit`, `Refuse`, `Store...`,
`CentralTryFails`, `Reply` the inbound one. `Finish` is the retry policy: the
session tries again after a timeout or a broken connection whatever the method
(`allowed_methods=False`), and after a 429 or 503 with `Retry-After`, whose
header the inbound view passes on so that both sessions heed it; an answer that
breaks off in the middle, and any other status, is final. `Hang` is what a
client's leaving does to the other side: nothing. Workers are single-threaded
(`GUNICORN_THREADS` defaults to 1); in combined mode the two constants are the
same set. gunicorn's worker timeout (30 s by default) is shorter than four
tries of 15 s, hence `SiteKilled` and `CentralKilled` at any point.

| Run | Property | What it says |
|---|---|---|
| `delivery_safe` | `AcceptedMeansStored` | a 2xx to the sender means the store has the batch |
| | `TransientNeverDrops` | no failure on the way makes the sender drop a batch: 4xx only from registry or store |
| | `AnswersMatchCalls` | late answers go nowhere; an answer belongs to the call it answers |
| | `RetriesBounded` | calls are at most tries times sends, copies at most tries times calls |
| | `KeepsLedger` | every step is a step of `BatchLedger` or none: an answer is heard by a sender that waits for that send, once, and ends the matter only if it is true; what is settled stays settled |
| `delivery_live` | `EventuallySettled` | once failures stop, each batch is accepted or refused |
| `delivery_combined` | `NoRequestHangs` | when every worker waits for a worker of its own pool, the timeout resolves it |
| `delivery_counters` | `CountedWasIngested` (violated) | finding 2 |

A 4xx after an earlier try of the same send was stored and its answer lost is
possible (the registry changed in between): the sender then drops a batch the
store has. `TransientNeverDrops` does not exclude it.

**Bounds.** `MaxTries` is 4 in the code and 2 in the runs: one retry. Two
batches and two workers a side let a late call of one batch meet a call of the
other. Three failures are enough for a timeout on each side and a change of
the registry; four sends for a retry after each. A sender that has used up its
sends stops, so deadlock is not checked in these runs.

**Fairness.** Weak for each worker's own steps. Strong for the sender sending
what is left and for a call in the backlog being taken up: both need a worker
that comes free again and again, and the backlog is a queue. In `sync_live`
as here failures are bounded by `MaxFaults`, which is what `once failures stop`
means.

## Headers and payloads: `Telemetry`

One request at a time, from a collector to the outbound view or from anybody to
the inbound view, in the deployment the constants describe. `Upsert` is
`_upsert_string_attr` (first occurrence), `Attributed` and `Labelled` are the
two validations (first occurrence for traces, last for metrics), `Decompress`
and `Parses` the body's conversions, `AuthStatus` the checks of
`validate_bittensor_request` in their order with their statuses.
`RegistryChange` may come between signing and checking.

| Run | Property | What it says |
|---|---|---|
| `telemetry` | `OwnTelemetryPasses` | what the outbound view signs the inbound view lets through, whatever attributes were there |
| | `NothingElseChanges` | tagging adds the owner: no item comes or goes, every pair stays in its place, and none of another key is rewritten, dropped or added |
| | `CodingIsHonest` | the headers describe the body on every hop |
| | `StoredIsVouchedFor` | stored bytes are the signed bytes, of a hotkey active at that moment in the supported subnet it claims |
| | `StoredNamesItsOwner` | no stored item is without the authenticated hotkey |
| `telemetry_hops` | `HopByHopStays` (violated) | finding 3 |

**Bounds.** Two hotkeys and two netuids, one of them unsupported; from the
collector, lists of up to two pairs of all kinds and a longer one, on one and
two items: enough for keys missing, doubled, wrong, blank and in either order,
on the first or the second item. What is posted at the inbound views by others
has fewer bodies, all combinations of identity headers and signatures.

**Abstractions.** Content codings are one layer (`gzip`, `snappy` or none); the
decimal text of a netuid stands for the netuid; the signature is a pair of
signer and body. The signature covers the body only, while
`docs/configuration.md` speaks of the signed netuid header: the model follows
the code. Wallet errors, which end in a 500, are left out.

## Queues: `TaskQueues`, `TaskLedger`

**State.** `queue[q]` are the Redis lists of the three queues of
`settings.py:286`, left end first: kombu pushes on the left and pops on the
right, `move_tasks` pushes on the right. `stage[w]` and `hand[w]` are a worker
and its unacknowledged message, `step[o]`, `route[o]`, `todo[o]` an operator's
command and the snapshot it works from. `finished`, `flushed`, `forsaken` are
history: what has become of tasks.

**Actions.** `Take`, `Succeed`, `Fail`, `AckFailed` are late acknowledgement with
the failure hook in between; `FailUnhooked` is a task without the annotation.
`HookFails` and `HardKill` lose a task for good, and `WorkerLost` puts a message
back to the queue it was published to, which for one moved out of `dead_letter`
is `dead_letter`. `ReadAll`, `PushNext`, `RemoveNext` are the calls of
`celery.move_tasks`: its pipeline is never given a command, so each is on its
own. Both commands count before they act (`Command`); `Delete` takes what is
there by then.

| Run | Property | What it says |
|---|---|---|
| `queues_safe` | `MovesLoseNothing` | an unsettled task has one message more than there are commands about to remove one, whoever moves, flushes or dies |
| | `RefinesLedger` | a task waits until it is finished or given up by name, as `TaskLedger` says |
| `queues_live` | `MovesCopyNothing` | without crashes, one operator emptying `dead_letter` never queues a task twice |
| | `EventuallyRests` | every task ends up run, given up, or in `dead_letter` |

`MovesCopyNothing` is deliberately narrow. With a second operator, or a move out
of a queue that workers serve, TLC shows a task queued twice: the snapshot is
moved whoever took the task meanwhile. The program promises no more, and its one
task is idempotent.

**Bounds.** `queues_safe`: two operators with one command each, moves in both
directions and from `dead_letter` to itself, two tasks (with and without hook),
three messages, one fault. Two operators over the same list already interleave
all their calls. `queues_live`: one operator with two commands, two workers, one
fault, four messages.

**Fairness.** Weak for each worker's ordinary steps (`Work`) and for a command
that has been started (`Goes`). Nobody is made to submit, to order, to fail.

## Failure alarm: `FailureAlarm`

`Fetch` and `Store` are the two loops of `_fetch_validators`, here with the cache
and the clock in place of the table. `entry[n]` is the cache's entry, `success[n]`
the truth. `LastSuccess` is what the cache returns, and `FailureLevel` is
`_log_failure`. `BITTENSOR_NETUIDS` is a list that may repeat a subnet, as the
setting may. `Threshold < TTL` is assumed (2 hours and 7 days).

| Property (run `operations`) | What it says |
|---|---|
| `AlarmMatchesOutage` | an overdue subnet's failure is logged as an error, also after the entry expired or was lost; an early one is not, unless the cache lost the entry |
| `DoneAccountsForAll` | a run that ends well has stored or logged every subnet |
| `LoudUntilSuccess` | after an error, no failure is played down to routine before the next success |

## The hotkey on site: `SiteIdentity`

Two programs read the key file: `read_wallet_and_substitute_config.py` when
Prometheus starts (twice: `GetWallet` and then the hotkey in
`ReadAndSubstituteConfig`), and each gunicorn worker at its first request
(`BITTENSOR_WALLET`, kept by `functools.cache`, and `Hotkey`, kept by the wallet).
The central proxy accepts a batch only if label and signer agree. `fresh` is
history: what has started since the file last changed.

| Property (run `operations`) | What it says |
|---|---|
| `SteadyIsNeverForbidden` | a batch posted after Prometheus and its worker have restarted is not refused for its label, whatever was left over |
| `NeverFailsOnceRead` | a worker that has read its hotkey never fails because of the file |

Before those restarts batches are refused, and nothing in the program makes a
process notice that the key has changed.

## Start-up: `Settings`

`settings.py` from top to bottom, one action for each part that can refuse.
A variable is absent, empty, usable or, if it is one of the three that the file
reads as numbers, unparsable (`junk`: of a text, a malformed URL say, the file
asks only whether it is set); the operators
`IsNone`, `IsTrue`, `IsOn`, `Raises`, `Lacks` are the ways the file asks.
`Sourced` is `read_env`, which only fills what is absent; `FILL` is
`ENV_FILL_MISSING_VALUES`.

| Property (run `operations`) | What it says |
|---|---|
| `StartedMeansEquipped` | a process that has started has everything the role table of `docs/configuration.md` asks for its roles |
| `CompleteStarts` | a process given all its roles need, and nothing unparsable, is not refused; the image build starts without secrets |

Redis host and port are passed together or not at all in `CompleteStarts`, as the
code's message says. `django-environ` turns an empty string whose default is
`None` into `None`: an empty wallet name is refused.

## Backups: `Backups`

`dir` is `.backups`, oldest change first. A run of `backup-db.sh` dumps
(`StartBackup`, `WriteDump`, `Dumped`), mails (`Mail`), and rotates (`List`,
`Remove`, `Rotated`); `BackupFails` ends it anywhere and leaves what is there.
`Old` is Python's `files[:-file_count]`: for 0 it is empty, for a negative count
it is the `-file_count` oldest files. `Usable` is what `urlsplit` makes of the
credentials. `last`, `found` (what the latest rotation found) and `alone` are
history for the properties.

| Property (run `operations`) | What it says |
|---|---|
| `NewestBackupStays` | while runs do not overlap and none was told to keep a negative number, the latest complete dump stays, whatever fails later |
| `RemovesOnlyOnceDelivered` | a run that removes files has delivered its own dump |
| `SuccessMeansRotated` | while runs do not overlap, a successful run has left its dump (unless told to keep a negative number), and the oldest of the files it found have gone: all but *n* for *n* > 0, none for 0, the \|*n*\| oldest for *n* < 0 |

Overlapping runs break the first and the last (one rotates the other's unfinished
dump away): `alone` in them says so. Cron starts one run a day. A negative number
makes a run remove the oldest files, its own if there are no others: `Sane` in the
first, and the condition in the last, say so. For 0 the last states what the code
does, which is not what is promised of it (see *Noticed while reading*).

## Counters: `MetricsExport`

`content[f]` is the count in a file, `value[p]` and `owner[p]` a process' memory
of it and whose file that memory mirrors. `Boot` is a container's first process,
`Fork` a child (inheriting under `preload_app`, or fresh), `Exit` the end of one
with its hook, `Kill` the end of all without. Process ids are few, so they come
back. `Cleanup` is what `prometheus-cleanup.sh` and `mark_process_dead` delete:
files of live gauges, of which the program has none.

| Property (run `operations`) | What it says |
|---|---|
| `NoIncrementLost` | every file holds exactly the increments of the processes of its name |
| `ScrapeIsCurrent` | a scrape during counting yields, of every file of every container, a value between its beginning and now: exported sums never fall |

**The run `operations`.** The five components share no variable and no action, so
`Operations` lets one of them move in each behaviour (`moving`): the run is the
sum of five runs, not their product. Nothing is lost by it: theorem `EachAlone`
says that its behaviours are behaviours of each component. Bounds: two workers, two keys, three
changes of the key file; two subnets, one of them listed twice, time up to 5 with
a threshold of 2 and a time-to-live of 4, so that entries expire after the alarm;
three backup runs of which two may overlap, without rotation or keeping -1, 0, 1 or
2 files; two containers, two process ids, two starts and three increments in all, so
that a file which holds a count already is counted up again after a restart and by a
process id that has come back. In the environments of `Settings` each variable the
role checks read is usable or missing in one way (absent or empty), a number also
unparsable, in every combination; likewise the base settings, for a process of
either role and of none; each with three `.env` files. The other way of
missing is left to theorems `StartedEquipped` and `CompleteIsStarted`, which hold for
every environment. Backup runs and process ids are symmetric. `TypesOK` is the
conjunction of the five type invariants.

## Findings

1. `README.md:18` and `docs/configuration.md:27` say that subnets are
   synchronised independently. An operator's insert that hits `bulk_create`
   (`core/tasks.py:94`) ends the run for the subnets after it too, although
   their lists were fetched. Later runs settle them (`sync_live`).
2. The counters' help (`core/metrics.py:26` and `34`) says `ingested`; they are
   raised before the batch is forwarded (`core/views/prometheus.py:110-111`).
3. The comment on `HEADERS_TO_STRIP` (`core/proxy_outbound.py:31-32`) says that
   hop-by-hop headers never cross a proxy; the metrics views forward them
   (`core/views/prometheus.py:58` and `120`).

Noticed while reading, without a run of their own:

- `core/tasks.py:26` says a task is put into the dead-letter queue when it
  fails; one killed at the time limit, or whose hook cannot publish, is not
  (`HardKill`, `HookFails`).
- `core/tasks.py:45` logs `has never succeeded` also when the entry has expired or
  was lost.
- `README.md:172` calls the command `flush_tasks`; it is `flush_queue`.
- `README.md:230` calls the variable `BACKUP_B2_BUCKET_NAME`; the scripts read
  `BACKUP_B2_BUCKET`. `README.md:224` says that backups are put in `.backups`
  and additionally stored offsite; with a bucket there is no local copy.
- `README.md:220` speaks of the most recent backups; a partial dump left by a
  failure counts as one of them, and pushes an older, whole one out at the next
  successful run.
- `backup-db.sh:30` prints `keeping 0 last ones` for a 0, and `README.md:220`
  promises to keep only the number set; `files[:-0]` (`rotate-local-backups.py:18`)
  is empty, so every file stays and the directory grows. `SuccessMeansRotated`
  states what happens.
- `rotate-local-backups.py:10` says `Keep all but N most recent files`; it keeps
  the N most recent.
- `backup-file-to-b2.sh:15` lacks the `=` of an assignment, so the script fails
  when it is given a file; `backup-db.sh` gives it its standard input.
- A central process starts without `CELERY_BROKER_URL`; Celery then uses its
  default broker (`broker = "default"` in `Settings`).
- The queue-length gauges (`core/metrics.py:54-61`) are computed when read; the
  multiprocess export reads files, in which such a gauge has never been written.

## What is proved

For any sets of workers, hotkeys, batches, tasks, operators, processes and backup
runs, environments, any number of subnets, tries, sends, moves and failures, from
the named assumptions of the modules only. Every safety invariant, action property
and refinement that a run checks is stated by one of these theorems:

| Theorem | Statement |
|---|---|
| `ValidatorSyncProofs!TypeCorrect` | `Spec => []TypeOK` |
| `LockOutlivesRun` | `Spec => []CriticalOwnsLock`: the lock belongs to the run inside it and outlives it |
| `MutualExclusion` | `Spec => []OneSyncAtATime` |
| `RunsKnow` | `Spec => []RunsKnowTheTable` |
| `DebugRowsSafe` | `Spec => []DebugRowsStayActive` |
| `SuccessMeansSettled` | `Spec => []MarkedMeansSettled` |
| `ValidatorSyncProofs!Refinement` | `Spec => RefinesRegistry` |
| `DeliveryProofs!TypeCorrect` | `Spec => []TypeOK` |
| `AnswersMatch` | `Spec => []AnswersMatchCalls` |
| `AcceptedIsStored` | `Spec => []AcceptedMeansStored` |
| `DroppedWasRefused` | `Spec => []TransientNeverDrops` |
| `RetriesAreBounded` | `Spec => []RetriesBounded` |
| `DeliveryProofs!Refinement` | `Spec => KeepsLedger` |
| `TaskQueuesProofs!TaskQueuesTypes` | `Spec => []TypeOK` |
| `NothingLost` | `Spec => []MovesLoseNothing` |
| `QueuesKeepLedger` | `Spec => RefinesLedger` |
| `OneEmptierCopiesNothing` | `OneEmptier` implies `Spec => []MovesCopyNothing` |
| `TelemetryProofs!TelemetryTypes`, `OwnPasses`, `CodingHonest` | `TypeOK`, `OwnTelemetryPasses`, `CodingIsHonest` |
| `TelemetryProofs!NothingElse` | `NothingElseChanges` |
| `TelemetryProofs!StoredVouched`, `StoredNamed` | `StoredIsVouchedFor`, `StoredNamesItsOwner` |
| `FailureAlarmProofs!AlarmIsRight`, `AlarmCoversAll`, `AlarmStaysLoud` | `AlarmMatchesOutage`, `DoneAccountsForAll`, `LoudUntilSuccess` |
| `OperationsProofs!SiteIsSteady`, `SiteKeepsSigning` | `SteadyIsNeverForbidden`, `NeverFailsOnceRead` |
| `OperationsProofs!StartedEquipped`, `CompleteIsStarted` | `StartedMeansEquipped`, `CompleteStarts` |
| `OperationsProofs!EachAlone`, `OperationsTypes` | a behaviour of `Operations` is one of each component; `Spec => []TypesOK` |
| `MetricsExportProofs!MetricsLoseNothing`, `MetricsAreCurrent` | `NoIncrementLost`, `ScrapeIsCurrent` |
| `BackupsProofs!BackupsKeepNewest`, `BackupsDeliverFirst`, `BackupsRotate` | `NewestBackupStays`, `RemovesOnlyOnceDelivered`, `SuccessMeansRotated` |
| `AlarmInductive`, `SiteInductive`, `SettingsInductive`, `MetricsInductive`, `BackupsInductive` | the invariants those rest on |

*Synchronisation.* The argument has three layers, each using those before it.
`TypeInv` adds to the types that a run past its first step has a valid
position. `CriticalOwnsLock` is inductive on top of it: a run enters with a
lock that exceeds its budget by more than the kill may be late, both count down
together, and nobody else can add a key that is there; mutual exclusion follows,
because one key has one holder. `TableInv` joins the three table properties:
`MarkedMeansSettled` is not inductive alone, since what a run writes is right
only because of what it still knows, which in turn holds only because no other
run writes the table meanwhile. The refinement follows step by step: fetching
is `Answer`, the two bulk writes are `Settle`, an operator's insert is
`DebugAdd`, all else stutters.

*Delivery.* `TypeInv` adds that a worker about to post has a try left.
`AnswersMatchCalls` is inductive: a call begins with a worker that waits, and
whoever stops waiting is forgotten by the workers that serve it. `StatusInv`
says of every status on its way back that it is justified (a 2xx by a copy in
the store, a 4xx by a refusal), which is stable because the store forgets
nothing; `Reply` needs `AnswersMatchCalls` to know that the status is about the
receiver's own batch.

`RetryInv` keeps the books behind `RetriesBounded`. A send brings `MaxTries` posts
to the central proxy; each is still to be made or waits (`CallsLeft`), waits
without a caller (`abandoned`), is being checked (`Unchecked`) or is counted, and
the sum never exceeds what the sends have paid for. In the same way a counted call
pays for its posts to the store (`PostsLeft`). The three are sets of pairs of worker
and try, so that a killed worker, a timeout or an answer only takes elements away.
The bound itself follows by dropping everything that is not yet counted or stored.

The refinement needs one thing more, `SendersWait`: whoever a worker is going to
answer waits, and for no other worker. It holds because a sender that times out
leaves its worker without a client before it sends again. With it every
answer is `Hear`; `StatusInv` makes it a true one, and `RetryInv` (in the next
state) turns `Admit` into `LetThrough` and what the store takes into `Store`.

*Queues.* `MovesLoseNothing` counts. The lemmas say how each list operation changes
the number of a task's messages; every action then changes both sides of the
inequality by what it pushes, removes or gives up. A removal takes at most one
message and ends one `Removing`, so the surplus survives. The refinement
follows from the same counts: a task stops waiting only where it is settled.

`MovesCopyNothing` has a hypothesis, `OneEmptier`: there is one operator, whose
moves lead from `dead_letter` to queues that workers serve. The run `queues_live` is
such an instance, and without the hypothesis the property is false (see above).
`CopyInv` says, as long as nobody has failed, that what is left of the snapshot
still lies in `dead_letter`, where no worker takes it, with one message of each
task; that messages due to run exceed one per unsettled task only by the one
between a push and its removal follows for each list operation by the same counts.

*Headers and payloads.* The invariant says that a request on its way is the image
of the one the outbound view got. The lemmas are about lists of any length:
`UpsertFacts` (afterwards the first occurrence of the key has the value, other
keys are where they were) gives `TagFacts`, that every resource passes the
inbound check, and that every item of the result `Extends` the item it was made
from, which is `NothingElseChanges`; `FirstOccurs` and `LastOccurs` (from `Least`, by the well-foundedness
of finite subsets) give that either check finds the hotkey in the item.
`SignaturesAssumption` says that no marker for a bad header is a signature.

*Alarm.* `EntryIsSuccess` ties the entry to the last success unless it was lost;
`ErrorsLast` says that a subnet reported as an error would be reported as one
now, which is why it stays loud; `NoneDropped`
follows the subnets through `todo`, `fetched` and `handled`.

*Hotkey.* `FreshLabel`, `FreshSigners` and `SteadyBatches` say that everything read
since the file last changed agrees with it.

*Start-up.* `SettingsInv` says part by part what the file has made of the environment
(`DatabaseMade`, `RedisMade`, `DirectionMade`) and what it has passed over
(`CentralChecked`, `OnSiteChecked`); only `ReadEnv` changes the environment, and
nothing has been made before it. `StartedMeansEquipped` then compares the five ways of
asking whether a variable is set with the role table. `SettingsAssumption` says
which variables can be unparsable.

*The five together.* `EachAlone` is why theorems about a component hold in
`Operations`: a step of one leaves the variables of the others alone, and the initial
states are initial states of each.

*Counters.* `Mirrors` says that memory which mirrors a process' own file agrees
with it; without it an increment could write an old value back. A forked
memory mirrors the master's file, and `Inc` turns to its own first.
`ScrapeInv` holds file by file.

*Backups.* `AloneInv` says of the one active run that its dump is the newest file
and, unless its number is negative, not among those due. `Rotating` says of the
rotation in progress that the files due are the oldest of those left, that these
are the newest of those found, and that what has gone and what is due are together
what the number asks for; `OldFacts` establishes the last from the slice.

**Model-checked only.** Liveness (`EventuallyAdmitted`, `EventuallyExpelled`,
`EventuallySettled`, `NoRequestHangs`, `EventuallyRests`) and with it the choice of
fairness: the prover has neither fairness nor `ENABLED`.
The modules have no recursive operators.

## Not modelled

The library code around the program (Celery, kombu, urllib3, gunicorn, Django,
`prometheus_client`, the bittensor and Pylon clients) appears only in what it
does to the modelled state. The generated protobuf code, `core/email.py` (which
nothing calls), the admin, health checks, entry points, logging and development
tooling (`noxfile.py`) hold no protocol of their own. Migrations run once, before
the program. The restore scripts are run by hand on one file. The query cache is
configured under a name that matches no model, so it caches nothing. The
queue-length gauges and the business metrics are one library call each.

## Plan

Done: all modules above and their proofs. What would come next:

1. `Delivery` and `Telemetry` composed: a batch's headers and body on every try.
2. The query cache, should its key be corrected to `core.validator`: the check of
   `validate_bittensor_request` would then read a copy up to 15 minutes old.
