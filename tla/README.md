# Verification of the realtime data platform

TLA+ models of the parts of this repository that have behaviour of their own,
TLC configurations that check them on small instances, and proofs that TLAPS
checks for every instance. Paths are relative to `src/`.

## The system

```
 data-generator --> Redpanda topics --> simulate_consumer ---> feature store
   |  sqlite file       |                freshness_probe          ^
   v                    +--> Pinot real-time tables --------------+
 (restarts)             |                                         |
                        +--> raw_ingestion (Spark) --> Iceberg    |
                                                        |         |
                                       dbt features <---+         |
                                          |                       |
                                          +--> pinot-load --> Pinot upsert table
 provision_catalog, provision_pinot, clean.py set all of this up and tear it down
```

| component | state it keeps | operations | talks to |
|---|---|---|---|
| data generator (`images/data-generator`) | sqlite file; in memory an id list and an id counter per table, the event being written, the producer's buffer, the seed position | one method per event type, commit, produce, delivery report, signal handler, start | Kafka topics; the file outlives the process |
| load generator (`images/simulation/simulate_consumer.py`) | `stop_event`, a bounded queue with its unfinished count, the consumer's position, the state of 20 workers | poll, put, get, request, signal | Kafka, feature store |
| raw ingestion (`images/spark-jobs/raw_ingestion.py`) | checkpoints of ten queries, a temporary view per query session, ten Iceberg tables | start query, plan a batch, merge, commit, fail, restart | Kafka, registry, Iceberg |
| freshness probe (`images/simulation/freshness_probe.py`) | the event published, the times of its requests | publish, flush, post, response, timeout, signal | Kafka, feature store |
| batch features (`images/dbt`) | feature tables | windows over payments, row for inference | Iceberg |
| pinot load (`images/pinot-load/extract.py`) | the rows read and not yet produced | extract, produce | Iceberg, Kafka, Pinot |
| feature store (`images/feature_store`) | one task per feature of a request | one feature, a feature set | Pinot |
| provision catalog (`images/provisioner/provision_catalog.py`) | catalog, namespaces, tables, roles, a principal and its credential in Polaris; a Kubernetes secret | create, delete, refresh | Polaris, Kubernetes; Spark and Trino use the result |
| provision pinot (`images/provisioner/provision_pinot.py`) | schemas and tables in Pinot, collected exceptions | delete what is obsolete, upsert the rest | Pinot |
| clean (`clean.py`) | none | delete topics, schemas, tables, objects, checkpoints | Kafka, registry, Polaris, object store |

What is hard in each, and what makes it correct:

* **data generator**. A row is committed before its event is produced; the
  signal handler runs between any two instructions; the process can be killed
  anywhere; counters and lists are derived from the file again at a start;
  the producer's buffer is bounded and lost with the process; the limits on
  accounts and cards are enforced by a retry that recurses. It is correct when
  the file stays sound, when events speak only of committed rows, when no
  stored entity's id is announced twice, when readers see an event at most
  once, and when uses of one card always name one account and customer.
* **load generator**. Threads that share a queue and read the stop flag only at
  the top of their loops; a blocking `put` and a timed `get`; exceptions that
  end a thread. It is correct when no polled record is lost or taken twice,
  when a request that raises harms nothing, and when a signal ends the program.
* **raw ingestion**. A batch planned and not committed runs again after a
  failure; one failing query ends the driver, which nothing restarts; checkpoints
  are deleted and tables dropped by hand, also under a running driver; ten
  queries use one view name. It is correct when every event is in the table of
  its topic, once, while there is a driver.
* **freshness probe**. Deliveries that are not acknowledged, lost, repeated or
  late, requests that time out, an assertion on the count. It is correct when
  what it reports bounds the real delay and when its assertion fails only after
  a fault.
* **batch features and pinot load**. Windows that overlap, a timeline between
  two midnights, a choice of one row per key, runs of dbt that overlap and put
  older tables back, overlapping loads into an upsert table. Correct when no window that is over is missed, and when Pinot never
  returns to an older window and has the computed rows at last.
* **feature store**. The number of rows a query returns, the concurrent tasks of
  a set, one of them failing, tables that read on meanwhile. Correct when a set
  answers about the entities asked for and with nothing older than the request,
  and when no query is ambiguous.
* **provision catalog**. Twenty requests of which any can fail, some without
  anyone looking; a pod that starts again from the first; writers that are not
  told to stop. Correct when what is done is complete, the stored credential is
  the principal's, nothing slips in while the catalog is emptied, and the attempts suffice.
* **provision pinot**. Exceptions that abort an attempt and others that are
  collected; a bounded number of attempts; requests from the feature store that go on. Correct when a job that
  is done has left what its configuration says.
* **clean**. Deletions under running jobs: see raw ingestion.

`PROJECT.json` lists under `hazards` what of this is hard to test, at its line.

## Modules

| module | about |
|---|---|
| `DataGenerator` | the data generator, complete: state, every event type, commit, produce, delivery, signal, kill, restart |
| `AtMostOnceLog` | what the generator promises to the readers of its topics (abstract), and without a loss what the load generator promises to the feature store |
| `IngestedTable` | what raw ingestion promises to the readers of its tables (abstract) |
| `SimulateConsumer` | the load generator |
| `RawIngestion` | the driver, its queries, checkpoints and merges, and what `clean.py` deletes under it |
| `BatchFeatures` | both dbt models as operators and as steps, the load job, Pinot's upsert table |
| `ProvisionPinot` | the Pinot provisioner |
| `FeatureStore` | requests to the feature store, composed with `ProvisionPinot` and with the tables' reading of their topics |
| `FreshnessProbe` | the probe, with broker, Pinot and store |
| `ProvisionCatalog` | the catalog provisioner, its pod, and the writers |
| `DataGeneratorProofs`, `DataGeneratorLimitsProofs`, `SimulateConsumerProofs`, `RawIngestionProofs`, `BatchFeaturesProofs`, `FeatureStoreProofs`, `FreshnessProbeProofs`, `ProvisionCatalogProofs` | theorems, and the refinements of the two abstract modules |
| `MC...` | constants for TLC; `FreshnessProbe` needs none |

Definitions named in a comment `Mutant:` are variations of the definition that
follows, each a plausible bug of that code; no specification uses them. A
property is listed with the variation that breaks it in `PROJECT.json`, which
also maps every definition to its source lines.

### DataGenerator

One process. `status` is whether it runs; `stage` is the place of `main()` with
the current event: `choose` (about to call a generator method), `execute` (row
built, SQL not yet run), `commit` (SQL run, transaction open), `publish`
(committed, produce not yet called). A row holds its id, the ids it refers to
(`ref`), the time of its creation (`at`) and a stamp for all its other columns
(`data`). `db` and `kafka` survive the process, `volatile` does not.

| code | model |
|---|---|
| `BaseDatabase.__init__`, `_load_ids` | `Boot` |
| `_generate_id`, `_insert`, `_update`, `con.commit()` | `Create`, `Execute`, `Commit` |
| `get_random`, `get_random(except_for)`, `get_item` | `Random`, `RandomExcept`, `GetItem` |
| the method of each event type | the action with the topic's name |
| the recursive retry of `account_opened` and `card_issued` | drawn among `AccountHolders`, `CardAccounts`; `Retries` and `RecursionError` when a retry can draw an entity at its limit again |
| `process_event`, `BufferError` | `Produce`, `BufferError` |
| `delivery_callback` with and without an error | `DeliveryFails`, `Deliver` |
| `handle_shutdown`, `Persistence.close` | `SigTerm`, `ShutdownDone` (which commits an open transaction) |
| a kill | `Crash` (sqlite rolls the open transaction back) |

On an empty list the generator raises `EmptyDatabaseException`, `main()` logs it
and draws again: no change of state, so no step. When `get_item` does not find
one row its `ValueError` is not caught and would end the process; `FileSound`
says that this cannot be.

### SimulateConsumer

`consumer` and `worker` are program counters; a step goes from one access of
shared state to the next. `Put` is disabled while the queue is full, as
`Queue.put` without a timeout blocks. `GetEmpty` is the timeout of `get`. `Poll`
of a record in `BadRecords` ends the Kafka thread, as the deserialiser's
exception does. The answer of the feature store changes only counters of the
metrics, so `Request` is the pause, both requests, the exception handlers and
`task_done`. `requested` has the records whose first request was made; when that
raises, the second is skipped, which no property is about. Workers are equal; two are enough for any order between two of them.

### RawIngestion

An event is a pair of topic and offset, its id a value of `log`. `planned` and
`committed` are what a checkpoint records; Spark writes the first before it runs
a batch and the second after it. `CreateView`, `Merge` and `CommitBatch` are the
steps at which a query or the driver can fail. Iceberg's `MERGE` is one atomic
step, which matches the batch against the table as it was. Nothing starts the
driver: the SparkApplication has no restart policy, and `StartDriver` is somebody
applying it, at first and after a failure (`README.md` at the root says how).
`LoseCheckpoints` is the deletion of the checkpoints that
`images/spark-jobs/README.md` describes and `clean.py` performs, of all topics
and whether the driver is up or not. A running query goes on from what it has in
memory and writes its next batches to an empty directory: `checkpoint[t]` is then
"last", a batch without the one before it, from which Spark starts no query
(`StartRefused`). `DropTable` is what `clean.py` and a refresh of the catalog
do under a running query: its checkpoint stays, `MergeFails` ends the query and
then the driver, and `StartQuery` creates the table when there is a driver again. `lost` is a history
variable: up to which offset rows went with a dropped table and will not be read
again. Spark, Kafka and Iceberg are external: only what the job relies on is
modelled. Topics have one partition.

`IngestedTable` says what of this the readers of a table see: published ids, rows,
the acknowledged offset, what was lost. `IngestsOnce` maps the variables `log`,
`table`, `committed` and `lost` to it; views, plans, the driver and every
failure are hidden.

### BatchFeatures

`bounds`, `timeline`, `payment_6h` and `payment_6h_inference` are the two dbt
models as operators on sets of payments; a row keeps the payments it counts
instead of their sum. A run of dbt has four steps (`DbtRun`): for each of its two
models it computes the rows from the table it reads as that is when its query
starts (`ComputeFeatures`, `ComputeInference`), and puts them in place when the
query is done (`ReplaceFeatures`, `ReplaceInference`). `computed[r]` is what a run
has between the two. `kube/dbt/cronjob.yaml` does not forbid runs to overlap, so
`Runs` interleave: one that read earlier may put an older table back, and
`features` and `inference` lose rows until the next run. `DbtFails` drops what a
run has computed; that is also what becomes of a run whose temporary table another
one has taken. A table is replaced in one step; dbt renames the old one away
first, and a query or a load job that reads in between fails and runs again.
`Extract` reads the whole inference table into `todo[l]`, `Produce` sends
one of its rows (or loses it, which `delivery_report` only logs), and `Killed`
drops the rest. `topic[c]` has the rows with the key of card `c` that Pinot has
not read: rows of one key keep their order, rows of different keys need not.
`Upsert` is Pinot's comparison on `window_start`, which orders rows as
`window_end` does.

`TypeOK` takes a card and a window for the key of `payment_6h`, and a card for
that of `payment_6h_inference`, as the `GROUP BY` and the `PARTITION BY` do. The
data tests say otherwise: `payment_6h.yml:10-12` and
`payment_6h_inference.yml:10-12` declare `window_start` alone unique, which is false
as soon as two cards have a payment in one window. Nobody notices, since the
image runs `dbt run` (`images/dbt/Dockerfile:13`), which executes no data test;
`dbt build` or `dbt test` would fail. The tests, not the models, are wrong: the
window alone could only be unique for a single card.

### ProvisionPinot and FeatureStore

`ProvisionPinot` has one action per request of the job, in the order of its
loops: `pc` is the loop, `todo` what is left of it. A request that raises may
have been served or not. The deletion of a table is outside the `try`, so its
exception ends the attempt; the others are collected in `failed`, and `End`
raises them together. `Init` is anything an earlier deployment may have left,
with some attempts used up. `attempts` counts the pod's starts up to the job's
default `backoffLimit`; after the last (`Exhausted`) nothing starts it again.

`FeatureStore` extends it: the clock moves (`Tick`), tables read their topics as
soon as they exist (`Ingest`), and requests (`Ask`, `Respond`, `Answer`) come at
any time. A record is its place in its topic, which has its key and its time,
and `rows` are the records a table holds: all it has read, or for the table with an
`upsertConfig` one per primary key, which a record with an older `window_start`
does not replace. `Matches` is the `WHERE` of a feature's query in
`feature_config/config.yaml`: account and card for the batch feature, the card and
the last six hours for the withdrawals. `Rows` are the rows of the answer, one per
record, or one per group for the withdrawals, whose sum and count are the records
it is made of. `status` is the state of each task of a request, `Raises` what the
`TaskGroup` does when one raises. `seen` is a history variable: what each query
would have found when the request came. That a card has one account is assumed
(`CardAssumption`), and is what `DataGenerator` guarantees (`CardDeterminesGroup`);
nothing is assumed of how often or in which order a topic gets the keys. All
clocks are one: a skew between the producers' and Pinot's clock only widens or
narrows the window.

### FreshnessProbe

Time is counted from `event_creation_ns`, which a check sets together with the
ids. `event` and `copies` are the producer and the topic: the producer is not
idempotent, so an event whose acknowledgement is lost is sent again. `flush`
returns when the event is acknowledged or lost or after its timeout. `Continue`
is both `continue` branches with the `finally` clause. `visible_at` and
`last_zero` are history variables for the property.

### ProvisionCatalog

One action per request of the job, named as its function; `Goes` lets a request
be served and the job fail all the same, `Refused` is `raise_for_status`,
`Unheeded` a refusal that nobody looks at (`delete_principal`, `create_catalog`,
`create_namespace`). `unheeded` remembers these, since nothing can be promised
after them. `attempts` counts the pod's starts up to the job's `backoffLimit`. The
writers hold a session with a credential; they have access while that is the
principal's and `Chain`, everything between principal and grant, exists. They take
the secret when they start (`StartWriter`): Trino from an init container, Spark
when its driver starts. Nothing restarts either of them after a refresh.

## What TLC checks

| run | question and answer |
|---|---|
| `gen_all` | all ten event types, kills, SIGTERM, a broker that does not answer, a full buffer, exhausted limits. `FileSound` (ids are unique, references resolve, lists and counters agree with the file), `EventsAreDurable`, `LimitsRespected`, `CardDeterminesGroup`, `EventIdsUnique`, `RowsSurvive` and the refinement `AtMostOnce` hold |
| `gen_fault_free` | nothing goes wrong. `LoginIdsUnique`: logins, which are not stored, do not share ids; `EveryEventArrives` |
| `gen_joins` | violated: a SIGTERM after the commit and before `produce` leaves an entity that later events refer to and that no reader ever learns of |
| `sim_all` | two workers, the Kafka thread, a record that does not deserialise, and the signal. `NothingLost`, `HandedOutInOrder`; without a signal each record is requested; after one the workers stop, and the Kafka thread stops or hangs in `put` |
| `sim_hang` | violated: after the signal the program need not end, since `put` waits for a queue that nobody empties |
| `raw_all` | two topics, failures at any step, checkpoints deleted and tables dropped, also under the driver. `NoEventTwice`, `CommittedIsWritten`, the refinement `IngestsOnce` (which includes that a table has events of its own topic only) hold; `EveryEventWritten`: once a driver stays up, every event gets there |
| `raw_upsert` | violated: two events with one id in one batch both become rows, so a merge that only inserts is not an upsert. It matters for `customer_details_updated`, whose id is the customer's |
| `catalog_all` | all modes, two deployments, two failures. `CredentialsStored`, `DoneAsAsked`, `NothingSlipsIn` hold; `DeploymentEnds`: the attempts suffice for one failure, not for two |
| `store_all` | any earlier deployment, two attempts and one failure, tables at their own pace, a window that moves, requests at any time, also with another card's account. `DoneAsConfigured`, `FailuresAreIsolated`, `AnswerAboutAsked`, `NeverAmbiguous`, `AnswerIsCurrent` hold; `FoundAtLast`, unless the attempts were used up |
| `batch_all` | payments in any order, two runs of dbt and two load jobs that overlap. `EveryWindowCounts`, `NeverBackInTime`, `PinotCatchesUp` hold |
| `batch_latest` | violated: the row chosen "containing only the latest values" is that of the first window of a card, since `row_number()` orders ascending; however many payments follow, it never moves forward |
| `probe_all` | an event that may be lost, repeated or late, a store that errs, is slow or silent. `ObservedIsBound`, `NoFalseAlarm` hold; `EveryCheckEnds` unless its event was lost: then the probe polls for ever |

### Bounds, and why they are enough

* `gen_all`: `MaxClock = 6`, the number of events ever drawn. The four seed
  events come first, so there are two free draws, or a restart with seeds again
  and fewer. Limits of two accounts per customer and two cards per account let
  a customer have several cards and reach both limits. `QueueLimit = 2` makes
  the buffer overflow. `Terminating` stands for the bound: the program itself
  does not stop there.
* `gen_fault_free`: `MaxClock = 7` and a buffer that cannot fill, the assumption
  under which every event arrives; three event types, among them the update and
  the one that stores nothing.
* `gen_joins`: one event type after the seeds is enough for the counterexample.
* `sim_all`: a queue of two and two workers, six records: one more than queue,
  workers and the Kafka thread can hold. The sixth does not deserialise.
  `sim_hang` needs no bad record.
* `raw_all`: two topics, two events each with ids that may repeat, two failures,
  so that a batch can fail, run again and fail again, run after its checkpoint is
  gone, or leave a checkpoint of which only the last batch is there.
* `catalog_all`: the job's namespace and the two that the writers use, one table;
  seven attempts, Kubernetes' default `backoffLimit` of six and the first. Two deployments give every pair of modes.
* `store_all`: the two tables of the set and an obsolete one; two windows of a
  card in the wrong order, and two withdrawals of it of which one leaves the
  window when the other is made (`Window = 1`, one `Tick`). One failure, and up to
  two attempts: fewer than the seven of the default, which makes the last one
  reachable; how many there are does not matter to an attempt.
* `batch_all`: a day of eight ticks, a window of four that ends every two; three
  payments of a card, two of them in one first window, on its bound and off it,
  and one in the last window of the day. One card: no step relates two of them but
  the key of a row, which `BatchTypes` proves for any cards. One loss or kill: each is
  mended by the next run. The proofs cover all other grids and numbers of runs.
* `probe_all`: `MaxTime = 6` is twice the request's timeout; a clock that
  stops there counts as past every timeout. Two failures.

### Fairness

* `DataGenerator`: weak fairness of `Boot` (the orchestrator restarts the pod),
  `Main` (no step of the loop waits; `time.sleep` ends), `ShutdownDone`
  (`flush` has a timeout) and delivery (the producer retries). It is used only
  by `gen_fault_free`, where the broker is assumed to answer.
* `SimulateConsumer`: weak fairness of each thread. `poll`, `get` and the HTTP
  requests have timeouts, so each step ends. `put` has none: when the queue is
  full the action is disabled, and fairness says nothing. No fairness of the signal.
* `RawIngestion`: weak fairness of what a driver that is up does, and of each
  query's trigger. None of failures, of publishing, or of `StartDriver`:
  `EveryEventWritten` is about behaviours in which somebody has applied the job and
  it stays up.
* `BatchFeatures`: weak fairness of each run of dbt and of the load jobs, which
  both cron jobs start again every five minutes, and of Pinot's reading. None of
  ingestion or failures.
* `FeatureStore`: weak fairness of the job (its pod is restarted within the
  attempts), of reading, and of the tasks, which have a timeout. None of the
  clock.
* `FreshnessProbe`: weak fairness of the clock, of broker and Pinot, of the
  probe (`flush` and requests have timeouts) and of its restart. Strong fairness
  of a good answer and of the probe reading it: a request is sent again and
  again, and of these some are answered in time. A store that never answers is
  outside the property, and failures are bounded.
* `ProvisionCatalog`: weak fairness of the job's steps and pod starts. None of the
  writers: neither of what they create nor of their restarts.

Deadlock is checked except in `sim_all` and `sim_hang`, whose program may stop,
and in `catalog_all`, where a job that is done is followed by nothing.

## What is proved

For every value of the constants that satisfies the assumptions of the module
that declares them, and for `Spec` without fairness:

| module | theorem | result |
|---|---|---|
| `DataGeneratorProofs` | `TypeCorrect` | `TypeOK` |
| | `FileIsSound` | `FileSound` |
| | `PublishedIsDurable` | what an event speaks of is committed before the event is produced |
| | `NoIdReused` | no two published events of a stored entity have one id |
| | `CardGroups` | uses of one card name one account and customer |
| | `CommittedRowsSurvive` | a step never loses or alters a committed row, except a customer's own columns |
| | `Refinement` | the generator implements `AtMostOnceLog` |
| | `LoginsUniqueWhileRunning` | `LoginIdsUnique`, if the process is not interrupted |
| | `JoinsPossibleWithoutLoss` | `JoinsPossible`, the property `gen_joins` violates, if no drawn event is lost |
| `DataGeneratorLimitsProofs` | `LimitsHold` | the limits on accounts and cards |
| `SimulateConsumerProofs` | `SimTypes`, `EveryRecordKept`, `InOrder` | `TypeOK`, `NothingLost`, `HandedOutInOrder` |
| | `SimRefinement` | the load generator implements the log without losses: each polled record is requested once, never dropped |
| `RawIngestionProofs` | `RawTypes`, `InsertedOnce`, `OwnTable`, `CommitFollowsMerge` | `TypeOK`, `NoEventTwice`, `OwnEventsOnly`, `CommittedIsWritten` |
| | `IngestionRefinement` | `IngestsOnce`: the queries implement `IngestedTable` |
| | `UpsertsDistinctIds` | where no two events of a topic share an id, a table has one row per id: what `raw_upsert` refutes in general |
| `BatchFeaturesProofs` | `BatchTypes` | `TypeOK` |
| | `WindowsAdvance` | `NeverBackInTime` |
| | `NoWindowMissed` | `EveryWindowCounts` |
| | `OldestWindowForInference` | `FirstWindowOnly`: dbt chooses the first window after a card's earliest payment |
| | `InferenceIsStuck` | `StuckAtFirstWindow`, if a card's payments are written in the order of their times |
| `FeatureStoreProofs` | `StoreTypes`, `OneRowPerEntity`, `SetAboutAsked`, `AnswersAreCurrent`, `DeploymentIsComplete`, `OthersAreProvisioned` | `TypeOK`, `NeverAmbiguous`, `AnswerAboutAsked`, `AnswerIsCurrent`, `DoneAsConfigured`, `FailuresAreIsolated` |
| | `FoundBatchFeatureStays` | `BatchFeatureStaysFound`: what a query found is found by every later one |
| `FreshnessProbeProofs` | `ProbeTypes`, `ReportIsUpperBound`, `AssertionHolds` | `TypeOK`, `ObservedIsBound`, `NoFalseAlarm` |
| `ProvisionCatalogProofs` | `CatalogTypes`, `WritersAreOut`, `SecretWorks`, `JobDoesAsAsked` | `TypeOK`, `NothingSlipsIn`, `CredentialsStored`, `DoneAsAsked` |
| | `SecretGivesAccess` | `SecretOpens`: a writer started with the secret a refresh leaves has access |
| | `OtherStepsAreServed` | `RefusedForNamespacesOnly`: without a failure only a catalog with further namespaces refuses a job |

None of the safety properties is inductive alone. Each module has an inductive
invariant, one lemma that `Init` has it, one per group of actions that they keep
it, and a theorem or lemma `...Invariance` that combines them.

**DataGenerator**, `IInv`: `IdsBounded` (ids are between 1 and the number of
events drawn; without it `max(ids)` at a start means nothing), `CurrentFits`
(what is known of the event in hand at each stage: its references are stored;
before the commit its id is new to the table, after it the row is there and no
published event has the id), `CacheCoherent` (a running process never has a
counter below an id of the file; it is why an id is not used again after a
restart), `DownIsEmpty`, `CardUsesMatch` (a use of a card agrees with the card's
row, which never changes) and `EventsNumbered` (events differ in the time they
were drawn, by which the refinement names them). `MaxIdIsUpperBound` shows by
well-founded induction that `MaxId` of a bounded set of ids bounds it.
`StepRefines` maps a draw to `Accept`, a delivery to `Append`, an exit or a
failed delivery to `Lose`, and every other step to a stutter.
Two of its theorems have a hypothesis on the behaviour, since a fault breaks what
they state. `Uninterrupted` says that a process once started is not stopped;
`NothingLost` that none ends with an event in hand and no delivery fails.
Neither is a fault-free run: with the first the broker may lose events, with the
second the process may be killed or stopped between two events and start
again. Every behaviour of `gen_fault_free` satisfies both. Under the first
`LoginsNumbered` is inductive, the counter is past every login in flight; under
the second `RowsAnnounced`, a committed row has its event in flight and what a
published event mentions was published before or with it (`PublishingSteps`: only
a produce publishes).
`LimitInv` adds that tables are finite and that the entity an uncommitted row
belongs to has a place left: the count is read when the event is drawn, and
only one event is in hand until its row is committed or dropped.

**SimulateConsumer**, `SimInv`: `OneTaker`, no record is with two workers or with
one after it was requested. The count in `NothingLost` needs it, with the
cardinalities of finite sets of the library. `SimRefinement` follows where a
record waits (`Moves`): a poll adds one to the places, a request takes it from
them, and any other step, the signal included, leaves the set of them as it is.
A record that does not deserialise stays accepted and unanswered for ever, which
the log without losses allows: it promises order and uniqueness, not progress.

**RawIngestion**, `RawInv`: `Placed`, views and tables have published events of
their topic only; `Merged`, a query that has its view has all of the planned
batch in it and one that has merged has it in the table.
`CommittedIsWritten` follows when the batch is committed. The refinement also
needs `FreshView`, which `IngestedTable` demands of an insertion and `RawInv`
does not know: a view has no event that was committed before, so that no merge
brings back what went with a dropped table. A merge is mapped to `Insert`, a commit
to `Acknowledge`, a query that starts without a checkpoint to `Rewind`, a dropped table to `Drop`, every
other step, all failures among them, to a stutter.

**BatchFeatures**, `BatchInv`: `Shapes` (what is on its way are rows, each in the
topic of its card), `RowsFit` (every row, wherever it is, counts payments of its
card in its window) and `KeysUnique` (of the tables and of what runs are about to
put in their place). `NoWindowMissed` is arithmetic: `GridOps` and
`NextOnGrid` about multiples of a step, `Earliest` and `Latest` about finite sets
of payments, `TimelineIs`: the timeline is the multiples of the step between a
day before the first payment's midnight and a day after the last one's. It
assumes that step and window fit the day (`GridAssumption`), as five minutes and
six hours do, and finitely many payments.
`OldestWindowForInference` and `InferenceIsStuck` say how far the finding of
`batch_latest` goes: the row for inference is never of a later window than the
first. `FirstWindowChosen` proves it of the operators, for any source. For what
Pinot shows it takes the hypothesis `PaymentsInOrder`, that the payments of a card
are written in the order of their times, as they are while producer and ingestion
keep their order, since an older payment written late moves the first window back and
Pinot keeps the newer one. `InOrderInv` is inductive under it: the features, and
those any run is about to put in place, come from payments that have the earliest
of each of their cards (`FromEarliest`), however old they are, and every row
chosen, in a run, table, load job, topic or Pinot (`IsChosen`), is of the first
window.

**FeatureStore**, `StoreInv`: `Progress` says for each loop of the provisioner
what the ones before it have achieved or collected an exception for; tables read
only while they exist; the row of a task is one its query gave. That no query is
ambiguous rests on `OneRow`: for the batch feature, the upsert table holds one
record of each key it has read, the newest, in whatever order its topic has them
(`Held`, kept by `IngestHolds`); for the withdrawals, the records of a card have
one account (`OneCard`, from `CardAssumption`) and so are one group.
`FindsWhatWasSeen` carries an answer: from the request on, a table of the
set still holds each record the query would have found then, or one of its key
that is not older, since the provisioner takes no configured table away
(`TablesStay`) and reading only adds or replaces by what is newer
(`ReadKeepsTypes`, `IngestHolds`). So the row of a task has them too, unless they
left the window, and an answer put together from queries at different times is
as of its request or later. `BatchFeatureStaysFound` is stated for the feature
that has no window.

**FreshnessProbe**, `ProbeInv`: `ZeroIsEarlier`, an answer that counts nothing
was asked for before the event was visible; `CopiesCost`, a copy more than one
has cost a failure.

**ProvisionCatalog**, `CatalogInv`: `Deleting` and `Creating` say for each step
what is gone or there by then (whatever earlier attempts did), `Renewed` that a
refresh has a new principal with a stored credential. `NothingSlipsIn` follows
from the order: the writers' role is taken away before anything is listed.
`SecretGivesAccess` adds `Numbered`, a principal has a credential;
`OtherStepsAreServed` adds `Cleared`, a namespace is deleted when all that was
listed in it is gone. `DeploymentEnds` rests on the latter beside fairness.

Some results are stated by theorems only and are no property of a run:
`OwnEventsOnly` (part of `IngestsOnce`), `FirstWindowOnly`,
`StuckAtFirstWindow`, `RequestedOnce`, `BatchFeatureStaysFound`, `SecretOpens` and `RefusedForNamespacesOnly`. Those without a hypothesis
and the inductive invariants named above also hold in TLC on the bounds of their
module's runs.

Only model-checked: the liveness properties (`EveryEventArrives`,
`AllStopOrPutHangs`, `EveryRecordRequested`, `EveryEventWritten`,
`DeploymentEnds`, `FoundAtLast`, `PinotCatchesUp`,
`EveryCheckEnds`), since fairness and `ENABLED` are out of the prover's reach.
Every safety property of a passing run is stated by a theorem;
`LoginIdsUnique` under the hypothesis that it needs. No model uses a recursive
operator.

## What the code does that no run states

The models allow it, no run refutes a claim about it, so it is neither a property
nor a finding:

* When every account is at its limit, `card_issued` calls itself until
  `RecursionError` ends the process (action `RecursionError`); a fresh generator
  has one account, so this comes soon if no other is opened.
* The retry of `get_random` forgets `except_for`, so a transfer can go from an
  account to itself (`RandomExcept`).
* Login attempts take ids from the device counter and are not stored: after a
  restart ids are given out again, and the merge on `id` drops the second login.
* A merge that only inserts ignores later `customer_details_updated` events of
  a customer in other batches, the other side of `raw_upsert`.
* One record that does not deserialise ends the Kafka thread of the load
  generator, and its workers live on idle.
* The probe's logged lower bound is the time of the previous response, also when
  that was an error or a timeout, after which the event may have been visible;
  the metric gets the upper bound only.
* Nothing restarts the Spark driver: after the first query that fails, nothing is
  written until somebody deletes the SparkApplication and applies it again.
* When `clean.py` deletes the checkpoints under a running driver, the next start
  is refused (`StartRefused`) until they are deleted once more; when it is down,
  they are read from the beginning, which the merge makes harmless.
* In create mode, a pod killed between `create_principal` and the storing of its
  credential leaves the writers without a secret for good: the next attempt finds
  the principal and returns (`provision_catalog.py:289-291`). Only a refresh mends it.
* After a refresh Trino and the Spark driver keep the old credential until
  somebody restarts them; the delete mode leaves the Kubernetes secret.
* When two runs of dbt overlap, the older may take rows and payments away from the
  features until the next run.
* The data tests of both dbt models declare `window_start` unique, which it is not;
  they are never run (see `BatchFeatures`).
* When the provisioner of Pinot has failed seven times, tables stay missing or as
  they were until somebody applies the job again.
* A `PinotQueryError` is not caught in a feature's endpoint: a 500.
* `delete_data` of `clean.py` builds a prefix that still has the bucket's name,
  so it deletes no objects; what remains of it is the dropped table.

## Not modelled

* In the generator: the values of columns other than keys and creation time,
  the waits at a start (schema registry, topics) which precede the first event
  and keep no state, and the weights with which event types are drawn (any
  order is allowed).
* In raw ingestion: the start-up wait; what it can raise is `DriverFails`.
* In batch features: the sums and averages of amounts.
* In the feature store: the features outside the set `transactions_6h`
  (`payment_6h`, `customer_payment_6h`, `login_attempted_6h`), which are queries
  of the same shape, sums and other columns than keys and times, and the metrics.
* In the freshness probe: the customer event it publishes first, which the
  feature asked for does not read, and the lower bound, which is only logged.
* In provision catalog: `create_table`, which is defined and never called.
* In `clean.py`: the deletion of topics and schemas takes away what every other
  component assumes, the logs themselves, and no code handles it; the deletion
  of objects is a computation on strings that a unit test reaches.
* Charts, Kubernetes objects, dashboards: configuration of third-party systems,
  without behaviour of the repository. What the models need of it they have: the
  schedules of dbt and the load job and that their runs may overlap, the restarts
  and attempts of both provisioning jobs, Pinot's `upsertConfig`, and that neither
  the Spark driver nor the writers are restarted. Left out are the moments between
  the renames of a table by dbt.

## Further work

The generator and raw ingestion composed over the topics, to state which events
a restart makes the merge drop; the topic of the load job as the one the feature
store reads, which now are two models with the same upsert.
