# Verification of invest-ml

TLA+ models of the ingestion pipelines of `invest_ml`, TLC configurations that
check them on small instances, and TLAPS proofs for every value of the
constants. Paths below are relative to `src/src/invest_ml/`.

## 1. The system

`invest_ml` is a set of Dagster assets over one PostgreSQL database. Each asset
is a batch job: it opens an `ingestion_runs` row, reads tables that earlier
assets wrote, calls an external source (SEC archives, the Tiingo API), writes
the difference in short transactions and closes the row. Nothing locks an
asset: a schedule, an operator and a retry may run the same asset at the same
time, and a process may die between any two commits. What keeps the data right
is the form of each transaction (`ON CONFLICT`, conditional updates), what is
read before it, and the state that one run leaves for the next.

```
 company_catalog --> companyfacts_data_profiles --> candidate_universe
                                                        |
 company_market_profiles ------------------------> training_universe
                                                        |        \
        selected_price_bars <--- (security_id) ---------+    scoring_universe
        xbrl_facts --> canonical_metrics <--- (CIK) ----+
        feature_registry --> snapshots, labels, models (stubs)
```

| Component | State it keeps | Operations | Hard behaviour | What makes it correct |
|---|---|---|---|---|
| Price bars (`market/price_bars/`, `db/repositories/price_bars.py`, `defs/assets/market.py`) | `price_bars`, `price_bar_sync_state`, run row | plan, fetch in batches, detect and reconcile, validate, persist, abort | adjusted prices change retroactively; provider publishes during a run; a failed call, commit or process; late bars; overlapping runs | a stored series has no hole and one price basis; a failure loses nothing; every bar arrives |
| Universe memberships (`universe/service.py`, `db/repositories/universe.py`) | `universe_definitions`, `universe_memberships` with half-open intervals | find or create definition, load inputs, load active rows, persist difference | three dependent universes, inputs read in one transaction and written in another, same-day reruns, overlapping runs, two deployments | one membership per company and date; history preserved; a run leaves what it decided |
| Universe evaluators (`universe/candidate.py`, `training.py`, `scoring.py`, `security_selector.py`) | none | pure decisions over profiles and overrides | missing data, stale profiles, thresholds, tie-breaking | a member meets the requirements by its latest scan; a company that meets them is not left out |
| XBRL facts (`xbrl/service.py`, `db/repositories/xbrl_facts.py`) | `raw_source_versions`, `raw_version_derivations`, `xbrl_facts`, run row | register, claim, flatten, insert, record outcome | claims race, failures inside and outside the member's error handling, crashes, a growing registry | succeeded implies all facts stored; facts and lineage final; newest document eventually derived |
| Canonical metrics (`canonical/`, `db/repositories/canonical_metrics.py`) | `canonical_metrics`, run row | group, classify, resolve, insert or report a conflict | group key wider than the unique key, so a run may conflict with its own earlier result | every run selects the same fact; every filing is covered |
| Company catalog (`company_catalog/service.py`, `db/repositories/company_catalog.py`) and data profiles (`db/repositories/company_data_profiles.py`, `sec/profiler.py`), both in `defs/assets/discovery.py` | companies, securities, SIC history, profiles, one downloaded file each, run rows with hash and validator | look for the file, conditional download, batches, effective dating, record, delete | skip decisions from earlier runs, partial batches, errors after success was recorded | what is skipped is stored; a changed archive arrives; history is preserved |
| SEC download client (`sec/client.py`) | one downloaded file | one download with retries | 304, transport errors, invalid ZIP | outcomes used by `SecArchives` |
| SEC archive cache (`sec/archive_cache.py`, used by `xbrl_facts`) | manifest, archives, temporary files | refresh, validate, download part by part, rename, name in the manifest, read | two processes write one temporary file; a crash between rename and manifest; a late 304 | the manifest names a complete archive, in the end the newest |
| Market profiles (`market/service.py`, `market/profile.py`) | one row per security | select by age and limit, fetch, compute, upsert | a temporary failure overwrites good values with NULLs, which the universes then read; the limit postpones securities | failures heal; every due security is scanned |
| Feature registry (`features/registry_service.py`, `db/repositories/feature_registry.py`) | immutable definitions, sets and members | validate, find or create, compare hashes, insert members | one transaction per run, but a refusal commits what was flushed; two registrations meet in unique keys | what a run registered stays what it registered |
| Tiingo client | none | one request with retries | 404, 429, retries exhausted | outcomes used by price bars and market profiles |
| Run rows (`db/models/ingestion.py`) | `ingestion_runs` | create, succeed, fail | never closed after a crash | |
| Snapshots, labels, training, predictions | none | `NotImplementedError` | nothing to model | |

`PROJECT.json` lists every component with its status and every hazard at its
line, with the properties that would catch it.

## 2. Plan

Ordered by how much of the system rests on the part. Modules are listed after
those they extend or instantiate.

| Part | Modules | Model | Proofs |
|---|---|---|---|
| 1. Price bars | `PriceBars` | done | all safety and action properties (`PriceBarsProofs`) |
| 2. Effective dating, the abstract specification of both dated tables | `EffectiveDating` | done | all properties (second part of `MarketRefreshProofs`) |
| 3. Universe memberships | `UniverseMembership`, which implements 2 | done | all properties and the refinement (`UniverseMembershipProofs`) |
| 4. XBRL facts | `XbrlFacts` | done | all safety properties (`XbrlFactsProofs`) |
| 5. SEC archive cache | `ArchiveCache` | done | both invariants, and what `XbrlPipeline` needs of it (`ArchiveCacheProofs`) |
| 6. The asset `xbrl_facts` as a whole | `XbrlPipeline` = 4 + 5 | done | it implements both parts and inherits their safety (end of `XbrlFactsProofs`) |
| 7. Canonical metrics | `CanonicalMetrics` | done | all safety properties (`CanonicalMetricsProofs`) |
| 8. SEC archives: catalog and data profiles | `SecArchives`, which implements 2 | done | type, all safety properties and the refinement (`SecArchivesProofs`) |
| 9. Market profiles and the decisions of the universes | `UniverseSelection`, `MarketRefresh` | done | `MembersQualify`, `OnlyDisplaced` (`MarketRefreshProofs`) |
| 10. Feature registry | `FeatureRegistry` | done | both safety properties (`FeatureRegistryProofs`) |

Every invariant and action property that a passing run checks is proved; only
liveness is left to TLC. Later: of the refresh job, that the universes it
decides satisfy what `UniverseMembership` takes from them; of the series, which
part of `Orderly` each property needs; the candidate rules as operators over
abstract filings; a configuration of canonical metrics that changes under one
normalization version.

## 3. Modules

### PriceBars

Models `SelectedPriceBarsService.materialize` with its planner, validator,
repository and asset. The dates are `1..MaxDate`; 0 is NULL.

*Provider.* `bars[s]` are the published dates, `actions[s]` those with a
dividend or a split, `watermark` the last date of the reference ticker. The
provider's prices are adjusted: an action dated e changes the adjusted price of
every earlier bar. A stored row is therefore its date plus `adjusted[s][d]`, the
actions known when it was written; prices themselves do not occur.

*Database.* `price_bars`, `adjusted`, and `sync[s]`, the row of
`price_bar_sync_state` (status, latest stored, checked through, last reconciled
action). `next_retry_at` appears as the fact that it is still in the future
(`deferred`), which ends at any time (`RetryDue`).

*Runs.* `phase[r]` follows the code: `BeginRun` (run row, target date, sync
states), `LoadCoverage` and `PlanRequests` (`build_request_plan`: skip, defer,
initial, full or incremental), `TakeBatch`, `Fetch` (one call of one security,
any order, any time), `DetectReconciliation` (incremental answers that show a
later action are replaced by a second call for the whole history),
`PersistBatch` (one transaction: rows, sync states, counters), the threshold
test, `FinishRun` or `AbortRun`. `DatabaseFails` and `Crash` may strike before
every commit.

Abstracted: timestamps, `last_full_refresh_at` and the seconds of the back-off
(no decision of the code compares them beyond "is it due"); the order of
securities in a plan, which the model leaves arbitrary; the commit of a batch is
one step, as its transaction makes it. The selected securities are constant.
`LowerBackfill` (a redeployment) happens between runs.

### EffectiveDating

What `universe_memberships` and `company_classifications` promise their readers,
without any run: a subject has rows with a value in force from one date until
another, and a step closes the open row at a date not before any on record and
may open another there. `RowsAreDisjoint`, `AsOfIsUnique` and `PastIsFinal` are
its theorems; the two writers inherit them through the refinements
`ImplementsDating` of `UniverseMembership` and `SecArchives`, whose mappings
(`History`) turn the rows of a table into `history`.

### UniverseMembership

Models the three `*UniverseService.materialize` methods, which have one shape.
`memberships[u][c][d]` is the row with `included_from = d`: its security and
`included_until` (0 is NULL); the function is the unique key (universe, company,
included_from). Actions follow the transactions: `FindDefinition`,
`CreateDefinition`, `LoadInputs` (reads the parent universe's open rows),
`LoadActive`, `Persist`; `RunFails` ends a run anywhere. The evaluators are the
variables `listed`, `chosen` and `themed`, which change at any moment
(`UpstreamChanges`), as the tables they read do. Two open parent rows make a
company come twice in the inputs; `twice` records it, because applying a security
change twice closes what it inserted. The `ingestion_runs` rows of these assets
are left out.

### UniverseSelection and MarketRefresh

`UniverseSelection` has the pure functions: `MarketProfileCalculator` (valid
bars, missing sessions, median dollar volume over the look-back, years of
history), `EligibleSecuritySelector`, and the decisions of the training and the
scoring universe with their manual overrides. A price history is the
provider's start date, a bar or none for every session, and whether the
exchange's calendar can be read: if not, `MissingDays` is None and training waives
its requirement on missing sessions. The median is taken
by rank: `Place` is the position a session's volume has when the look-back is
sorted, so that proofs can speak of it without a sorting operator.

`MarketRefresh` is the job that uses them: company_market_profiles selects the
securities that are due, at most `Limit` of them (`StartJob`), scans one after
the other, each in a transaction of its own (`ScanTarget` with what the provider
has, `ScanFails` with a temporary failure, which stores a row of NULLs), then
`Train` and `Score` decide from what is stored (`Score` leaves the scoring universe
as it is when a manual ticker is ambiguous), and a failure of any asset ends
the job (`JobFails`). The
ages of the rows are counted up to the first that makes no difference. A universe
is the security each member has now; its rows are the subject of
`UniverseMembership`.

### XbrlFacts

Models `xbrl_facts` and `XbrlFactsIngestionService`. A document is its content
hash, a number that grows with each filing; document p reports the filings
`1..p`, the registry of version v lists the tags `1..v`, and `Content(p, v)` is
what `flatten` returns. `raw`, `derivation` and `lineage` are the committed
tables. A member's transaction is modelled statement by statement (`Register`,
`ReadStatus`, `Claim` or `SkipMember`, then `WriteFacts`, `FlattenFails` or
`WriteFails`): what it writes becomes visible at its commit, and a statement
that meets another transaction's uncommitted row of the same key waits
(`RegistrationPending`, `ClaimPending`), as PostgreSQL at READ COMMITTED does. A
process that dies or an error outside the `try` (`RunFails`) rolls it back.
Inserting the facts and committing is one step; a deadlock between two inserts
is one of the errors of `WriteFails`.

### ArchiveCache and XbrlPipeline

`ArchiveCache` models `SecBulkArchiveCache`: `manifest` is the archive that
`current.json` names, `age` that of its `downloaded_at`, `archives[a]` the file
`<sha256>.zip`, `temp[n]` the temporary file of attempt n, which all processes
share by name. A file is what its parts hold; the last part is the end record
that `is_zipfile` looks for. `UseCached` and `SendRequest` are the beginning of
`get_or_refresh` in its three modes; then `NotModified` and `Confirm`, or
`Modified`, `WritePart` for each part (the hash is of what was received, the file
of what was written), `Accept` or `Reject`, `Store` (rename, or unlink if the
archive exists), then the manifest in two steps, `WriteManifest` into
`manifest_tmp` and `RenameManifest`. All processes share that one
`current.json.tmp` as well: a process may rename what another has written last, or
find it gone (`ManifestIsGone`). Truncating and writing the few bytes of it is one
step. `AttemptFails` is retried, `Crash` leaves the
files as they are. A process keeps writing into a file another one has renamed
or unlinked (`handle`). `shared` records that two processes have had one
temporary file open.

`XbrlPipeline` composes it with `XbrlFacts` by INSTANCE: a run fetches
(`FetchStep`), then ingests the archive it was handed (`Ingest`, `IngestStep`),
and what the SEC publishes has to get through both. `XbrlFacts` lets a run read
the filings that have arrived; here it reads the archive the cache returns, which
may be old, torn or the page of an error as far as its code goes. That this comes
to the same is `ImplementsIngestion`.

### CanonicalMetrics

Models the asset `canonical_metrics`, `CanonicalMetricNormalizationService`,
`CandidateResolver`, `CanonicalPeriodClassifier` and the repository, for one
metric and one period end, which are part of both the group and the unique key.
A fact is its source (concept priority, form, fiscal period, duration, a number
for accession and fact id) and its filing date. `PeriodType`, `SameGroup`,
`Precedes` and `Resolved` are the pure part: classification, grouping and the
sort key. `metrics[c]` are the rows of a company, each the fact it was taken
from; `KeyOf` is its unique key. A run reads the companies that have facts
(`BeginRun`), reads the facts of a batch (`SelectFacts`), compares the winners
with the stored rows (`SelectExisting`, `ConflictRaised`) and inserts
(`InsertMetrics`, one transaction per batch). `FactsIngested` is a transaction of
`xbrl_facts`: it adds a new filing, or facts of old filings, as a larger registry
and observations reported anew do, in any order. `displaced` is a history
variable: the facts that were the winners of their groups until a better one was
derived.

### SecArchives

Models the assets `company_catalog` and `companyfacts_data_profiles`, which have
one shape. An archive is the number of its content, which stands for its
SHA-256; `served[a]` is what the server offers, with a validator (etag and
last-modified as one number). `recorded[a]` is the archive of the latest
succeeded run, `file[a]` the file on disk, `stored[a][c]` the archive a
company's row was last written from, `classifications[c]` its SIC rows.
`securities[c]` are the exchanges of its securities; none is ever marked inactive,
because nothing calls `mark_unobserved_securities_inactive`. `BeginRun` reads the
latest success and, for the profiles, the targets: the companies that are
`Eligible` by the exchanges of their securities and their entity type.
`CandidateConfig` is the part of the universe configuration that names exchanges,
by key; the asset asks for `exchanges`, the committed file has
`supported_exchanges`. `profile_runs` is a history variable, the archives and
targets of the runs marked succeeded. Then the
exits of the code in their order: `LocalHit` (the file is the recorded archive;
the server is not asked), `NotModified` (304), `Identical` (same hash under a new
validator), or `Download`. `WriteBatch` is one transaction over a batch, with
`Classified`, the effective dating of SIC codes; `BatchRefused` is the violation
of `uq_company_classifications` by a code taken back on the day it was first
observed. `Succeed` records hash and validator, `DeleteArchive` removes the
file, `DeleteFails` is an exception there, after which the succeeded run is
failed again. `RunFails` and `Crash` leave committed batches and the file.

`RetainArchives` is the setting the assets read last. `SecBulkResource` does not
declare it, so the value "undeclared" is the program as it stands; "no" is what
the tests supply with a mock and what the passing run takes, because otherwise
no processed archive ever gets on record. Runs of one asset do not overlap; the
two assets run concurrently. Abstracted: the other columns of a company, a
security and a profile, a malformed record (it is "absent", as the code skips
it), the retry loop of the client.

### FeatureRegistry

Models `FeatureRegistryService.materialize` and its repository. A configuration
is what each feature and set name is declared with (a name with one version; a
file with two versions of one name is outside the model); a hash is the content it is
computed over. `definitions`, `sets` and `members` are the committed tables,
`written[r]` what a transaction has flushed. A run finds or creates every feature
(`FindFeature`, `CreateFeature`), then every set, then counts and inserts the
members (`CountMembers`, `InsertMembers`) and commits (`Succeed`). An insert waits
for another transaction's uncommitted row of the same key; when that commits,
a unique key refuses it and the transaction is rolled back. A version that exists
with another hash is refused: the handler marks the run failed and commits,
with what was flushed before (`Refuse`).

### MC modules

`MCPriceBars`, `MCUniverseMembership` and `MCXbrlFacts` only add symmetry sets;
`MCCanonicalMetrics` has the facts a filing may report, `MCSecArchives` what the
archives list and how often they are published, `MCArchiveCache` and
`MCXbrlPipeline` the modes of the processes and the archives' documents,
`MCMarketRefresh` securities and histories, `MCFeatureRegistry` the
configurations. All other values are in the `.cfg` files. Symmetry is used in
the runs without liveness only.

## 4. Runs

| Run | Question | Bounds |
|---|---|---|
| `bars_series` | Does a series stay complete and of one basis, and does every published bar arrive, through failures, crashes and a lengthened history? | 1 security, 1 run at a time, 3 dates, overlap 0, 2 faults, backfill 1 or 2 |
| `bars_runs` | Does a run's outcome agree with what it did and with what is stored, whatever failed, was rejected or was published late? | 2 securities in batches of 1, 2 dates, overlap of 1 day, an override, 2 faults, no failure allowed beyond half |
| `universe_cascade` | Do the memberships implement effective dating, come from the parent and say what was decided, with runs of different universes interleaved, failing, and repeated on one date? | 3 universes, 1 company, 2 securities, 2 dates, 2 runs, 2 configurations |
| `market_refresh` | Are members those whose latest scan meets the requirements, is every due security scanned, do failures heal, and does the scoring universe follow? | 2 companies, 3 securities (one comes and goes, two share a manual ticker), 3 sessions and 3 histories (one without a calendar), 2 scans per job, 1 fault |
| `xbrl_overlap` | Do two runs that claim the same document corrupt anything? | 1 company, 2 runs, 2 documents, 2 registries, 2 faults |
| `xbrl_pipeline` | Do cache and ingestion together behave as `XbrlFacts` says, and is what the SEC publishes derived in the end, through failures and crashes of both? | 2 companies, 1 run at a time, 2 archives, 2 registries, 1 retry, 2 faults in each part |
| `archive_cache` | Is the archive that the manifest names there and whole, and in the end the newest, with two processes in the directory? | 2 processes (one forced), 2 archives, 2 parts, 1 retry, 1 fault |
| `canonical_normal` | Do overlapping runs select the same facts, and is every filing covered in the end? | in batches of 1, 2 derivations of five kinds (two starts, a preferred concept in an amendment, a preferred concept found late, a tie, an unsupported period), 2 runs, 1 fault |
| `archives_normal` | Is an archive skipped only if it is stored, are classifications right, and does a new archive arrive? | 2 assets, 2 companies in batches of 1, 3 archives (a code changed and taken back, a company that appears, a code that goes missing, a company that moves to a supported exchange, one that is not an operating one any more), the configuration of the tests, 2 further publications of the one and 1 of the other, 2 dates, 1 fault |
| `registry` | Does what a run registered stay, and is what a failed or refused run leaves harmless? | 2 runs, 2 features, 2 sets, 5 configurations, 2 edits, 1 fault |
| `canonical_rerun` (violation) | Does a rerun over unchanged facts agree with the rows stored? | 1 company, 1 filing, 1 run |
| `archives_undeclared` (violation) | Is a processed archive on record with the resource as declared? | as `archives_normal` without faults, with the committed configuration |

Why the bounds are enough. Securities (companies, members) never read each
other's rows; they meet only in counters, batches, limits and thresholds, for
which two or three suffice. In `bars_series` three dates give a stored prefix, its
last bar (which the overlap of 0 requests again), an action there or after it and
a bar after that. A race needs two runs; a retry of a failure needs two faults
where a run holds state for the next (the failure and the failure of its retry),
one where the next run starts from the committed rows alone (canonical metrics,
archives, registry, market profiles). A manifest can be behind, ahead or absent
with two archives, and a file torn with two parts. The five configurations of the
registry are a first release, a feature bumped without its set, one that is
refused at its second set, a later one that meets what this left, and an edit
without a new version in which two sets have one version. Every action
fires in some passing run. All counters are bounded by the constants marked
"bound" in the modules.

### What the violations show

- `canonical_rerun`: candidates are grouped with `period_start`, which
  `uq_canonical_metrics` lacks. Of two figures with one end and different starts
  in a filing, one is inserted and the other dropped; the next run compares the
  dropped one with the row, raises, and no company after that batch is handled,
  in this run or any later one. `canonical_normal` shows, and `ConflictCause`
  proves, that only one thing else leads to a conflict: a fact of an old filing
  that is derived late and preferred to one derived before (see below).
- `archives_undeclared`: after marking the run succeeded both assets read
  `sec_bulk.retain_archives`, which `SecBulkResource` does not declare. The
  `AttributeError` is handled like any other, the run is marked failed, and its
  hash and validator are not on record. The data is stored, but every run is
  reported as failed, and downloads and parses everything again.

### What the properties except

The code does not give the following, and the properties say so.

- *Overlapping runs.* `StoredActionsApplied` fails when two price-bar runs overlap
  (the later commit may hold the older answer), the refinement `ImplementsDating`
  when two runs of one universe do (both find no active row and insert one), and
  `SucceededIsFinal` and `LineageIsDerived` when two XBRL runs do (both read
  `failed`, both claim, and the slower one records its failure over the other's
  success). Nothing prevents such runs. These properties are checked and proved
  for runs that do not overlap.
- *A second decision on one date.* A membership whose row began today cannot be
  changed today: `ON CONFLICT DO NOTHING` drops the insert after the close, and
  the company is without a membership until the next run. `RunAppliesDecision`
  says exactly when (the case where the date is not `free`).
- *One temporary file.* Two processes that download in the same attempt number
  write into one file, and what is then renamed need not be what its name says.
  `StoredIsWhole` excepts directories where that happened (`shared`).
- *Late actions.* `RevealedActionsReconciled` fails once the provider may add an
  action to a bar it published before (`LateActions`):
  `_needs_full_reconciliation` compares dates with the last reconciled action, so
  a dividend or split added to an older bar passes as reconciled although the
  response shows it.
- *An earlier target date.* `NoInteriorGap` fails with an override of the target
  date (`PRICE_BARS_TARGET_END_DATE`) before the stored rows, if the backfill
  start has moved back and the last attempt for the security failed (one recorded
  as succeeded is skipped): the full history then requested ends at the override,
  and later incremental runs never fill the dates between it and the older rows.
- *A full history for ever.* The planner asks for a full history whenever the
  first stored bar is after the backfill start; for a security listed later (or a
  start on a holiday) that is so on every run. It costs requests and harms no
  stored row.
- *Late facts.* `xbrl_facts` adds facts to filings it has derived before, when the
  registry grows or an observation is reported anew with another frame or value.
  If one of them is preferred to the fact a row was written from, the row differs
  from what the next run computes under the same normalization version: that run
  and all later ones stop at the company's batch. `RowIsBestOfItsFiling`,
  `ConflictHasCause` and `MetricsArrive` except such facts (`displaced`).
- *A kept file.* `NewArchiveArrives` excepts a file that equals the recorded
  archive: it is left by an identical download or a crash before it is deleted,
  and from then on no run asks the server.
- *No targets as committed.* The data profiles read their exchanges from
  `candidate.exchanges` (`defs/assets/discovery.py:295`), which the committed
  `configs/universe_v1.yaml:8` calls `supported_exchanges`; only the tests' own
  configuration has the key. As committed the list is empty, no company is a target
  and the archive passes without one profile; the candidate universe requires
  profiles, so it has no members, nor has anything after it. After a correction of
  the key nothing is profiled until the archive changes, as its hash is on record.
  `archives_normal` therefore takes the configuration of the tests (`TestConfig`).
- *Targets of their time.* A facts archive is covered when the companies that were
  targets of a run that processed it have their profiles. One that comes under the
  filter later is not profiled before the archive changes; one that leaves it keeps
  its old profile, which the universes go on reading.
- *Missing sessions.* If the calendar of an exchange cannot be read, training
  accepts a history whatever sessions it lacks; `MembersQualify` says so.
- *An ambiguous ticker.* As long as two training members share a ticker that is
  named in the manual lists, the scoring universe raises and keeps what it had, for
  all companies. `ScoringFollows` excepts this if it lasts for ever.
- *Refusal commits.* `FeatureRegistryService.materialize` promises to roll back
  on any error, but a refused run commits what it flushed before.
  `OnlyRefusalLeavesRows` states the extent of it (never members), and
  `FreshIsRegistered` that it never stands in the way of new versions.
- *Two sets of one version.* If one file has two sets with one version, members of
  one are stored for the other (`SharedVersions` in `RegisteredStays`).
- *Given up.* `PublishedBarArrives` excepts securities marked unsupported, and
  `Recovers` those whose profile says they were not found or had no usable bars,
  which the code never tries again. `PublishedIsDerived` excepts an archive that
  lacks more than half of the members, which the code refuses. `MetricsArrive`
  excepts histories with a filing of two starts or with a displaced row.

### Fairness

Every fair specification is `Spec` with weak fairness of starting a run and of a
started run's own steps, of time passing (`RetryDue`, `NextDay`, `TimePasses`)
and, for price bars, of the market advancing. It is justified by the schedules
(weekdays at 17:00, daily at 08:00) once they are enabled; they are stopped by
default, and without runs nothing arrives. The archive cache asks the server
again after 24 hours, which a daily schedule reaches. `MarketRefresh` takes strong
fairness of `TimePasses`, because days pass there only between two jobs, so that
it is enabled again and again but not continuously. Faults, publications,
filings, edits and deployments are never required, and faults are finite: with
failures for ever nothing can be promised. `NewestIsNamed` promises the newest
archive only if processes stop overlapping, which is its premise.

## 5. Proofs

All are for any finite sets of securities, companies and runs, and any values of
the bounds.

**PriceBarsProofs.** `TypeCorrect` and `DatesStored` need no further assumption:
a sync state names stored rows with any overlapping runs, rejected rows, late
actions and overrides. Its invariant `DatesInv` says the same of the sync states
a run has loaded, which it will write back later, and that answers only know
actions the provider still has. `SeriesCorrect`, and from it
`ActionsApplied`, `NoGap`, `ReconciledStored` and `RevealedCorrect`, assume
`Orderly`: one run at a time, no override of the target date, actions published
with their bar, no rejected rows. Each of the four is needed: TLC finds a
counterexample without it (for overrides with four dates, to `NoInteriorGap`).

These properties are not inductive: persisting a batch writes rows computed
from a request, an answer and a snapshot taken much earlier. `SeriesInv` adds
what ties these to the present state:

- `StoredWasPublished` and `TargetsCoverStored` (stored rows are published and
  not after a running target);
- `RunShape` (which securities a phase has in flight);
- `SnapshotsCurrent` (what was loaded at the start still holds for securities in
  flight, because no one else writes them);
- `RequestsFit` (a request covers either the whole history or everything from
  the overlap before the last stored row);
- `ResponsesFit` (an answer is an earlier view of the provider, complete up to
  its last bar);
- `DetectionDone` (before a batch is persisted no incremental answer holds an
  unreconciled action).

`SeriesNext` shows that each action preserves it, one lemma per action; the
commit is split into `WrittenFits`, `CommitLeavesNoGap`, `CommitAppliesActions`
and `CommitRecordsStoredAction`.

`CountersAgree`, `NoneLeftBehind` and `ProgressIsKept` assume `OneRun`, as a
second run may write older sync states back (one element of `Runs`
stands for any number of runs one after another, so `OneRun` and the same part
of `Orderly` exclude overlap only). `ProgressInv` says that the states loaded for
securities still to be persisted are up to date, and that all others have been
checked up to the target. `CountsInv` compares the counters of a run with the
statuses on record (`CountsAgree`): of what was asked and is no longer in flight,
as many succeeded and failed as are counted, and nothing in flight is marked
unsupported; a commit moves its batch from one side to the other, so the
cardinalities add up (`SplitCount`, `HavingAfter`).

**MarketRefreshProofs.** `MembersCorrect` and `OnlyDisplacedCorrect`, for any
companies, histories (with or without a calendar), requirements and limits, with
any failures. The only assumption beyond types is that `Histories` are
histories (`HistoryType`). The invariant, `RefreshInv`, says that each stored
profile is that of the history its last scan found, or of a scan that found none.
The work is in what the decisions make of a profile: the ranks of volumes are a
permutation (`PlaceTaken`, `PlaceSplits`), so the stored median reaches a
threshold if and only if as many sessions do as the property counts
(`MedianDecides`); the selector's key is a strict total order
(`BeforeIsStrict`), so a finite set of eligible securities has one first
(`SelectIsBest`), which is the most liquid (`SelectIsMostLiquid`); and a profile
that passes means bars that meet the requirements (`PassesMeans`).

Its second part proves `HistoryIsDisjoint`, `OneValuePerDate` and
`PastAnswersAreFinal` of `EffectiveDating`, for any positive dates. The invariant
`HistoryInv` says of any two rows of a subject that one ends before the other
begins; `ShutRow` and the lemmas after it that closing and opening a row
preserve this because no date goes back.

**UniverseMembershipProofs.** `TypeCorrect`, `ParentsHold`, `ReadersAgree` and
`DefinitionBinds` hold of any runs. `UniverseInv` adds to them that rows and runs
are not dated after today, that a run past the definition has the criteria on
record (`CriteriaAreBound`), and that what a run has decided was in the parent
(`DecisionsHaveParents`), which bridges the time between its two transactions.
`DecisionApplied` and `MembershipsImplementDating` assume `~Overlap`; `AloneInv`
adds that runs of one universe exclude each other, that their rows precede the
run's date (`RowsPrecedeRun`), that one row at most is open, and that what the
run loaded is still so (`ActiveIsCurrent`). The refinement is proved step by
step: `Persist` maps to `Dating!HistoryNext`, everything else to a stutter.

**XbrlFactsProofs.** `TypeCorrect`, `SucceededComplete`, `SkippedStored`,
`RunComplete` and `FactsFinal` hold of any number of overlapping runs. `FactsInv`
adds that nobody sees an uncommitted claim (`NoneRunning`), that a status read
as succeeded stays backed by stored facts (`StatusIsUsable`, because facts are
never deleted), and that every member of a run is to do or has a result that is
backed (`DoneIsStored`, `MembersAreHandled`). `LineageDerived` and `SucceededFinal`
are about behaviours in which runs do not overlap (`[]Alone`, with any number of
processes) and add `StatusIsCurrent`.

The end of the module is about `XbrlPipeline`, which takes from
`PipelineAssumption` that archives only gain filings. `PipelineCaches`: whatever
the ingestion does is a step of the cache or none, so everything proved of
`ArchiveCache` holds (it is cited through an INSTANCE of `ArchiveCacheProofs`).
`PipelineIngests`: without overlap a run is handed an archive that was served
(`HandsOver`, from `HandedServed` and `NeverShared`), and by `Published` and the
assumption its documents have arrived, so that each step is one of `XbrlFacts`
or a stutter. `PipelineStores` transfers the theorems on what is stored.
`PipelineKeeps` transfers the other two; their premise `[]Alone` is no assumption
any more, because a run keeps its archive until it ends (`InUse`) and the cache
admits one run at a time.

**ArchiveCacheProofs.** `TypeCorrect`, `NamedStored` and `StoredWhole`, with any
number of overlapping processes. `DirectoryInv` adds that validators of requests
in flight, archives about to be named and the one in `current.json.tmp` are stored, and that an open file
exists; `WholeInv` that, unless files were shared, each receiving process owns
its file and has written to it what it received. `HandedServed` adds that nothing
is newer than what is served (`NothingNewer`): an archive that is stored whole is
then one that was served, and not the page of an error. `NeverShared` is the
premise of both, for processes that exclude each other when they begin
(`~Overlap`): they do so to the end, and a temporary file that a failed process
left behind is never open twice.

**CanonicalMetricsProofs.** `BestOfFiling`, `ConflictCause`, `RowsFinal` and
`FactsCovered`, with any number of overlapping runs. Only `ConflictCause` assumes
`NumbersIdentify` (accession number and fact id identify a fact), without which
two facts could tie. Since facts may be added to any filing, what a run computes
from what it has read need not be the winner any more. `Won` are the facts that
are winners now or were displaced; the invariant says that whatever a run would
write has won (`ReadHasWon`), and with it every row (`RowsHaveWon`): a fact that
beat all read before it either still does or has entered `displaced`.
`FactsCovered` rests on `CoverInv`: what a run has
read is represented except in its current batch. That an insert closes the gap
needs a winner in every group, found by minimising concept, penalty and number
one after the other (`GroupHasWinner`).

**SecArchivesProofs.** `TypeCorrect`, `RecordedStored`, `ValidatorMatches`,
`ClassificationsFollow` and `ClassificationsImplementDating`, without further
assumptions. `ArchivesInv` adds that no answer is newer than what is served
(`AnswersWereServed`), that a writing run works on an archive not older than the
one it read as latest, which is still the latest (`RunsAdvance`), that the
archives on record are covered (`AnswersAreBacked`), that what a writing run has no
longer to do is stored (`DoneIsStored`; `Tasks` are a run's companies), and that
the targets of succeeded runs stay written (`RunsAreStored`).
`ClassesInv` adds that no classification is dated after the day of a writing run
(`DatesArePast`) and that the active rows of a company have one code (`OneCode`).
The refinement is proved step by step: a write maps to `Dating!HistoryNext` or, where
the rows stay as they are, to a stutter.

**FeatureRegistryProofs.** `RegistryInvariant`, `Stays` and `OnlyRefusals`, for
any configurations and overlapping runs. `RegistryInv` says what a run has
behind it at each statement: the features (`FeaturesFound`), sets (`SetsFound`)
and members (`MembersFound`) it has gone by are committed or in its transaction.
That a set found to have members has the right ones needs two facts about all
transactions together: no key of a set occurs twice, because an insert waits for
the other open one (`SetsAreUnique`), and the members of a set are all there or
none is, in the table and in each transaction, and are those its hash lists
(`MembersAreWhole`). `OwnMembers` and `Inserting` draw the conclusion for a
counting and an inserting run. `OnlyRefusals` needs only that no transaction
holds a member before the sets are done (`Typed`).

Only model-checked: liveness (`PublishedBarArrives`, `PublishedIsDerived`,
`NewestIsNamed`, `MetricsArrive`, `NewArchiveArrives`, `DueIsScanned`, `Recovers`,
`ScoringFollows`, `FreshIsRegistered`), which rests on fairness and ENABLED and is outside TLAPS's
reach.

## 6. Not modelled

- The rules of the candidate universe and the reason codes of all evaluators:
  filters over the text and dates of one company, without state.
- What a data profile contains (`sec/profiler.py`): a function of one document.
- Parsing and formatting: SEC submissions, CompanyFacts JSON, Tiingo payloads,
  configuration files, and the values of prices and metrics.
- The Tiingo client and the retry loop of the SEC client: their outcomes are
  inputs of `PriceBars`, `MarketRefresh` and `SecArchives`. The retry loop of the
  archive cache is modelled.
- Database deadlocks as such; where one can occur it is one of the errors of a
  statement.
- Snapshots, labels, training and predictions, which are stubs.
- The `ingestion_runs` rows of the universes and of market profiles, which follow
  the pattern of the others and decide nothing there; the wiring of assets,
  resources and schedules beyond the order of the market refresh job and what
  justifies fairness.
