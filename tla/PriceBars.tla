------------------------------- MODULE PriceBars -------------------------------
(***************************************************************************)
(* Ingestion of daily price bars (the asset selected_price_bars and the    *)
(* service SelectedPriceBarsService.materialize).                          *)
(*                                                                         *)
(* A run asks the provider for the bars of every selected security, in     *)
(* batches, and commits each batch with the security's synchronisation     *)
(* state.  The provider publishes ADJUSTED prices: when a dividend or a    *)
(* split dated e appears, the adjusted price of every bar dated before e   *)
(* changes.  A stored row is therefore modelled by its date and by the     *)
(* corporate actions its adjusted price was computed with, and two rows    *)
(* agree only if they were adjusted for the same later actions.            *)
(*                                                                         *)
(* Dates are 1 .. MaxDate; 0 stands for NULL.  Wall-clock time appears     *)
(* only as the fact that a failed security's next_retry_at is in the       *)
(* future (deferred).                                                      *)
(***************************************************************************)
EXTENDS Integers, FiniteSets, FiniteSetsExt

CONSTANTS
    Securities,           \* the selected training securities
    Runs,                 \* processes that materialise the asset
    MaxDate,              \* bound: the last date of the model
    Backfills,            \* values PRICE_BARS_BACKFILL_START_DATE may take
    Overrides,            \* values of PRICE_BARS_TARGET_END_DATE (may be {})
    OverlapDays,          \* price_bars_incremental_overlap_days
    BatchSize,            \* price_bar_security_batch_size
    MaxFailedSecurities,  \* price_bar_max_failed_securities
    RatioNum, RatioDen,   \* price_bar_max_failed_security_ratio
    MaxFaults,            \* bound: failed calls, failed commits and crashes
    LateActions,          \* may the provider date an action in the past?
    MayReject             \* may a response hold rows validate_bars rejects?

Dates == 1 .. MaxDate

ASSUME PriceBarsAssumption ==
    /\ IsFiniteSet(Securities)
    /\ MaxDate \in Nat \ {0}
    /\ Backfills \subseteq Dates
    /\ Overrides \subseteq Dates
    /\ OverlapDays \in Nat
    /\ BatchSize \in Nat \ {0}
    /\ MaxFailedSecurities \in Nat
    /\ RatioNum \in Nat
    /\ RatioDen \in Nat \ {0}
    /\ MaxFaults \in Nat
    /\ LateActions \in BOOLEAN
    /\ MayReject \in BOOLEAN

VARIABLES
    \* the provider
    bars,            \* bars[s]: dates with a published bar
    actions,         \* actions[s]: those with a dividend or a split
    watermark,       \* latest date of the reference ticker
    \* the database
    price_bars,      \* price_bars[s]: dates with a stored row
    adjusted,        \* adjusted[s][d]: actions known when row d was written
    sync,            \* sync[s]: the row of price_bar_sync_state
    \* configuration
    backfill_start,
    \* the runs
    phase,           \* phase[r]: where materialize is
    run_status,      \* run_status[r]: status of r's latest ingestion_runs row
    target,          \* target[r]: target_end_date
    coverage,        \* coverage[r]: stored dates when r loaded the coverage
    sync_states,     \* sync_states[r]: sync when r loaded the states
    request,         \* request[r][s]: mode and dates of the request, if planned
    pending,         \* pending[r]: planned securities of the later batches
    batch,           \* batch[r]: securities of the current batch
    response,        \* response[r][s]: what _fetch_bars returned
    totals,          \* totals[r]: the run's counters
    \* the environment
    faults           \* failed calls, failed commits and crashes so far

provider == <<bars, actions, watermark>>
database == <<price_bars, adjusted, sync>>
plan     == <<target, coverage, sync_states>>
vars == <<provider, database, backfill_start, phase, run_status, plan,
          request, pending, batch, response, totals, faults>>

Modes == {"initial_backfill", "incremental", "full_reconciliation"}

SyncState ==
    [status: {"never_synced", "succeeded", "failed", "unsupported"},
     checked_through: 0 .. MaxDate,
     latest_stored: 0 .. MaxDate,
     last_recon: 0 .. MaxDate,      \* last_reconciled_corporate_action_date
     failures: Nat,
     deferred: BOOLEAN]             \* next_retry_at is set and in the future

\* No row: state is None for the planner and the service.
NeverSynced ==
    [status |-> "never_synced", checked_through |-> 0, latest_stored |-> 0,
     last_recon |-> 0, failures |-> 0, deferred |-> FALSE]

NoRequest == [mode |-> "none", window |-> {}]

\* A response is what the provider knew when it answered; rejected is the
\* set of dates whose row validate_bars will not accept.
Response ==
    [kind: {"none", "bars", "error", "not_found"},
     published: SUBSET Dates, known: SUBSET Dates, rejected: SUBSET Dates]

Answer(kind) ==
    [kind |-> kind, published |-> {}, known |-> {}, rejected |-> {}]
NoResponse == Answer("none")

\* succeeded, failed_count, unsupported_count (which starts at the plan's
\* number of unsupported securities) and securities_skipped (the plan's already
\* current, deferred and, again, unsupported ones).
NoTotals == [succeeded |-> 0, failed |-> 0, unsupported |-> 0, skipped |-> 0]

TypeOK ==
    /\ bars \in [Securities -> SUBSET Dates]
    /\ actions \in [Securities -> SUBSET Dates]
    /\ watermark \in 0 .. MaxDate
    /\ price_bars \in [Securities -> SUBSET Dates]
    /\ adjusted \in [Securities -> [Dates -> SUBSET Dates]]
    /\ sync \in [Securities -> SyncState]
    /\ backfill_start \in Backfills
    /\ phase \in [Runs -> {"idle", "coverage", "plan", "check", "fetch", "recon"}]
    /\ run_status \in [Runs -> {"none", "running", "succeeded", "failed"}]
    /\ target \in [Runs -> 0 .. MaxDate]
    /\ coverage \in [Runs -> [Securities -> SUBSET Dates]]
    /\ sync_states \in [Runs -> [Securities -> SyncState]]
    /\ request \in [Runs -> [Securities -> [mode: Modes \cup {"none"},
                                            window: SUBSET Dates]]]
    /\ pending \in [Runs -> SUBSET Securities]
    /\ batch \in [Runs -> SUBSET Securities]
    /\ response \in [Runs -> [Securities -> Response]]
    /\ totals \in [Runs -> [succeeded: Nat, failed: Nat,
                            unsupported: Nat, skipped: Nat]]
    /\ faults \in 0 .. MaxFaults

Init ==
    /\ bars = [s \in Securities |-> {}]
    /\ actions = [s \in Securities |-> {}]
    /\ watermark = 0
    /\ price_bars = [s \in Securities |-> {}]
    /\ adjusted = [s \in Securities |-> [d \in Dates |-> {}]]
    /\ sync = [s \in Securities |-> NeverSynced]
    /\ backfill_start \in Backfills
    /\ phase = [r \in Runs |-> "idle"]
    /\ run_status = [r \in Runs |-> "none"]
    /\ target = [r \in Runs |-> 0]
    /\ coverage = [r \in Runs |-> [s \in Securities |-> {}]]
    /\ sync_states = [r \in Runs |-> [s \in Securities |-> NeverSynced]]
    /\ request = [r \in Runs |-> [s \in Securities |-> NoRequest]]
    /\ pending = [r \in Runs |-> {}]
    /\ batch = [r \in Runs |-> {}]
    /\ response = [r \in Runs |-> [s \in Securities |-> NoResponse]]
    /\ totals = [r \in Runs |-> NoTotals]
    /\ faults = 0
--------------------------------------------------------------------------------
(***************************************************************************)
(* The provider, the clock and the operator (external to the code).        *)
(***************************************************************************)

\* The bar of date d appears, possibly before the reference ticker's bar.
\* Bars of one security appear in date order.
PublishBar(s, d) ==
    /\ d <= watermark + 1
    /\ \A b \in bars[s] : b < d
    /\ bars' = [bars EXCEPT ![s] = @ \cup {d}]
    /\ actions' \in {actions, [actions EXCEPT ![s] = @ \cup {d}]}
    /\ UNCHANGED <<watermark, database, backfill_start, phase, run_status, plan,
                   request, pending, batch, response, totals, faults>>

\* The provider adds a dividend or a split to a bar it already published.
PublishLateAction(s, d) ==
    /\ LateActions
    /\ d \in bars[s] \ actions[s]
    /\ actions' = [actions EXCEPT ![s] = @ \cup {d}]
    /\ UNCHANGED <<bars, watermark, database, backfill_start, phase, run_status,
                   plan, request, pending, batch, response, totals, faults>>

AdvanceWatermark ==
    /\ watermark < MaxDate
    /\ watermark' = watermark + 1
    /\ UNCHANGED <<bars, actions, database, backfill_start, phase, run_status,
                   plan, request, pending, batch, response, totals, faults>>

\* next_retry_at passes.
RetryDue(s) ==
    /\ sync[s].deferred
    /\ sync' = [sync EXCEPT ![s].deferred = FALSE]
    /\ UNCHANGED <<provider, price_bars, adjusted, backfill_start, phase,
                   run_status, plan, request, pending, batch, response, totals,
                   faults>>

\* A deployment asks for a longer history.
LowerBackfill ==
    /\ \A r \in Runs : phase[r] = "idle"
    /\ \E b \in Backfills : b < backfill_start /\ backfill_start' = b
    /\ UNCHANGED <<provider, database, phase, run_status, plan, request,
                   pending, batch, response, totals, faults>>
--------------------------------------------------------------------------------
(***************************************************************************)
(* Planning.                                                               *)
(***************************************************************************)

\* Mutant: a security that succeeded once counts as current.
AlreadyCurrent_AnyDate(state, end) == state.status = "succeeded"

AlreadyCurrent(state, end) ==
    state.status = "succeeded" /\ state.checked_through >= end

\* Mutant: a failed security is never retried.
RetryDeferred_Forever(state) == state.status = "failed"

RetryDeferred(state) == state.status = "failed" /\ state.deferred

Skipped(state, end) ==
    \/ AlreadyCurrent(state, end)
    \/ state.status = "unsupported"
    \/ RetryDeferred(state)

\* stored is the set of covered dates: earliest > b and latest - OverlapDays
\* are bounds on all of its members.
RequestMode(stored) ==
    IF stored = {} THEN "initial_backfill"
    ELSE IF \A d \in stored : d > backfill_start THEN "full_reconciliation"
    ELSE "incremental"

FullWindow(end) == {d \in Dates : backfill_start <= d /\ d <= end}

\* Mutant: the overlap is measured from the target date.
OverlapWindow_FromTarget(stored, end) ==
    {d \in FullWindow(end) : end - OverlapDays <= d}

OverlapWindow(stored, end) ==
    {d \in FullWindow(end) : \A b \in stored : b - OverlapDays <= d}

Request(stored, end) ==
    LET mode == RequestMode(stored)
    IN  [mode |-> mode,
         window |-> IF mode = "incremental" THEN OverlapWindow(stored, end)
                    ELSE FullWindow(end)]

\* The asset creates the ingestion run, then reads the provider's watermark
\* (or the configured override).
BeginRun(r) ==
    /\ phase[r] = "idle"
    /\ \E end \in Overrides \cup ({watermark} \ {0}) :
         target' = [target EXCEPT ![r] = end]
    /\ phase' = [phase EXCEPT ![r] = "coverage"]
    /\ run_status' = [run_status EXCEPT ![r] = "running"]
    /\ totals' = [totals EXCEPT ![r] = NoTotals]
    /\ request' = [request EXCEPT ![r] = [s \in Securities |-> NoRequest]]
    /\ UNCHANGED <<provider, database, backfill_start, coverage, sync_states,
                   pending, batch, response, faults>>

WatermarkFails(r) ==
    /\ phase[r] = "idle"
    /\ faults < MaxFaults
    /\ faults' = faults + 1
    /\ run_status' = [run_status EXCEPT ![r] = "failed"]
    /\ UNCHANGED <<provider, database, backfill_start, phase, plan, request,
                   pending, batch, response, totals>>

\* Two queries: another run may commit between them.
LoadCoverage(r) ==
    /\ phase[r] = "coverage"
    /\ coverage' = [coverage EXCEPT ![r] = price_bars]
    /\ phase' = [phase EXCEPT ![r] = "plan"]
    /\ UNCHANGED <<provider, database, backfill_start, run_status, target,
                   sync_states, request, pending, batch, response, totals, faults>>

PlanRequests(r) ==
    /\ phase[r] = "plan"
    /\ sync_states' = [sync_states EXCEPT ![r] = sync]
    /\ LET skipped == {s \in Securities : Skipped(sync[s], target[r])}
           unsupported == {s \in Securities : sync[s].status = "unsupported"}
       IN  /\ request' = [request EXCEPT ![r] =
                 [s \in Securities |->
                    IF s \in skipped THEN NoRequest
                    ELSE Request(coverage[r][s], target[r])]]
           /\ pending' = [pending EXCEPT ![r] = Securities \ skipped]
           /\ totals' = [totals EXCEPT
                           ![r].skipped = Cardinality(skipped),
                           ![r].unsupported = Cardinality(unsupported)]
    /\ phase' = [phase EXCEPT ![r] = "check"]
    /\ UNCHANGED <<provider, database, backfill_start, run_status, target,
                   coverage, batch, response, faults>>
--------------------------------------------------------------------------------
(***************************************************************************)
(* One batch: fetch, detect corporate actions, fetch again, persist.       *)
(***************************************************************************)

\* Mutant: the ratio is of all selected securities.
OverThreshold_OfSelected(t) ==
    /\ t.failed > MaxFailedSecurities
    /\ t.failed * RatioDen > RatioNum * Cardinality(Securities)

OverThreshold(t) ==
    /\ t.failed > MaxFailedSecurities
    /\ t.failed * RatioDen > RatioNum * (t.succeeded + t.failed)

TakeBatch(r) ==
    /\ phase[r] = "check"
    /\ ~OverThreshold(totals[r])
    /\ pending[r] # {}
    /\ \E b \in SUBSET pending[r] :
         /\ b # {}
         /\ Cardinality(b) <= BatchSize
         /\ Cardinality(b) = BatchSize \/ b = pending[r]
         /\ batch' = [batch EXCEPT ![r] = b]
         /\ pending' = [pending EXCEPT ![r] = @ \ b]
    /\ phase' = [phase EXCEPT ![r] = "fetch"]
    /\ UNCHANGED <<provider, database, backfill_start, run_status, plan,
                   request, response, totals, faults>>

\* One call of _fetch_bars: it answers with the provider's present view or
\* returns the exception.  Calls of a batch run concurrently.
Fetch(r, s) ==
    /\ phase[r] \in {"fetch", "recon"}
    /\ s \in batch[r]
    /\ response[r][s].kind = "none"
    /\ \/ \E bad \in SUBSET Dates :
            /\ bad = {} \/ (MayReject /\ bad \subseteq bars[s])
            /\ response' = [response EXCEPT ![r][s] =
                 [kind |-> "bars", published |-> bars[s], known |-> actions[s],
                  rejected |-> bad]]
            /\ faults' = faults
       \/ /\ faults < MaxFaults
          /\ \E kind \in {"error", "not_found"} :
               response' = [response EXCEPT ![r][s] = Answer(kind)]
          /\ faults' = faults + 1
    /\ UNCHANGED <<provider, database, backfill_start, phase, run_status, plan,
                   request, pending, batch, totals>>

Answered(r) == \A s \in batch[r] : response[r][s].kind # "none"

\* Rows of a response, and those with a dividend or a split.
Returned(req, resp) == resp.published \cap req.window
ActionRows(req, resp) == Returned(req, resp) \cap resp.known

\* Mutant: no recorded reconciliation is taken for "all reconciled".
NeedsFullReconciliation_NullIsDone(req, resp, state) ==
    \E e \in ActionRows(req, resp) : state.last_recon # 0 /\ e > state.last_recon

\* Looks at the rows as returned, before validation.
NeedsFullReconciliation(req, resp, state) ==
    \E e \in ActionRows(req, resp) : state.last_recon = 0 \/ e > state.last_recon

ToReconcile(r) ==
    {s \in batch[r] :
        /\ response[r][s].kind = "bars"
        /\ request[r][s].mode = "incremental"
        /\ NeedsFullReconciliation(request[r][s], response[r][s], sync_states[r][s])}

DetectReconciliation(r) ==
    /\ phase[r] = "fetch"
    /\ Answered(r)
    /\ request' = [request EXCEPT ![r] =
         [s \in Securities |->
            IF s \in ToReconcile(r)
            THEN [mode |-> "full_reconciliation", window |-> FullWindow(target[r])]
            ELSE request[r][s]]]
    /\ response' = [response EXCEPT ![r] =
         [s \in Securities |->
            IF s \in ToReconcile(r) THEN NoResponse ELSE response[r][s]]]
    /\ phase' = [phase EXCEPT ![r] = "recon"]
    /\ UNCHANGED <<provider, database, backfill_start, run_status, plan,
                   pending, batch, totals, faults>>

Valid(req, resp) == Returned(req, resp) \ resp.rejected

LatestOr(S, default) == IF S = {} THEN default ELSE Max(S)

\* Mutant: the dates are taken from the rows before validation.
SyncSucceeded_Unvalidated(state, req, resp, end) ==
    [status |-> "succeeded",
     checked_through |-> end,
     latest_stored |-> LatestOr(Returned(req, resp), state.latest_stored),
     last_recon |-> IF req.mode = "full_reconciliation"
                    THEN LatestOr(ActionRows(req, resp), state.last_recon)
                    ELSE state.last_recon,
     failures |-> 0,
     deferred |-> FALSE]

SyncSucceeded(state, req, resp, end) ==
    LET rows == Valid(req, resp)
    IN  [status |-> "succeeded",
         checked_through |-> end,
         latest_stored |-> LatestOr(rows, state.latest_stored),
         last_recon |-> IF req.mode = "full_reconciliation"
                        THEN LatestOr(rows \cap resp.known, state.last_recon)
                        ELSE state.last_recon,
         failures |-> 0,
         deferred |-> FALSE]

\* Mutant: a failure starts the security over.
SyncFailed_StartOver(state) ==
    [NeverSynced EXCEPT !.status = "failed", !.failures = state.failures + 1,
                        !.deferred = TRUE]

SyncFailed(state) ==
    [state EXCEPT !.status = "failed", !.failures = @ + 1, !.deferred = TRUE]

SyncUnsupported(state) ==
    [state EXCEPT !.status = "unsupported", !.failures = 0, !.deferred = FALSE]

\* The new row is computed from the state the run loaded at its start, not
\* from the row it overwrites.
NextSync(r, s) ==
    CASE response[r][s].kind = "bars" ->
           SyncSucceeded(sync_states[r][s], request[r][s], response[r][s], target[r])
      [] response[r][s].kind = "not_found" -> SyncUnsupported(sync_states[r][s])
      [] OTHER -> SyncFailed(sync_states[r][s])

\* Rows the batch upserts for security s.
Written(r, s) ==
    IF s \in batch[r] /\ response[r][s].kind = "bars"
    THEN Valid(request[r][s], response[r][s]) ELSE {}

CountKind(r, kind) == Cardinality({s \in batch[r] : response[r][s].kind = kind})

\* One transaction for the whole batch.
PersistBatch(r) ==
    /\ phase[r] = "recon"
    /\ Answered(r)
    /\ price_bars' = [s \in Securities |-> price_bars[s] \cup Written(r, s)]
    /\ adjusted' = [s \in Securities |-> [d \in Dates |->
                      IF d \in Written(r, s) THEN response[r][s].known
                      ELSE adjusted[s][d]]]
    /\ sync' = [s \in Securities |->
                  IF s \in batch[r] THEN NextSync(r, s) ELSE sync[s]]
    /\ totals' = [totals EXCEPT
                    ![r].succeeded = @ + CountKind(r, "bars"),
                    ![r].failed = @ + CountKind(r, "error"),
                    ![r].unsupported = @ + CountKind(r, "not_found")]
    /\ batch' = [batch EXCEPT ![r] = {}]
    /\ response' = [response EXCEPT ![r] = [s \in Securities |-> NoResponse]]
    /\ phase' = [phase EXCEPT ![r] = "check"]
    /\ UNCHANGED <<provider, backfill_start, run_status, plan, request, pending,
                   faults>>
--------------------------------------------------------------------------------
(***************************************************************************)
(* How a run ends.                                                         *)
(***************************************************************************)

\* What is committed stays.
Leave(r) ==
    /\ phase' = [phase EXCEPT ![r] = "idle"]
    /\ coverage' = [coverage EXCEPT ![r] = [s \in Securities |-> {}]]
    /\ sync_states' = [sync_states EXCEPT ![r] = [s \in Securities |-> NeverSynced]]
    /\ pending' = [pending EXCEPT ![r] = {}]
    /\ batch' = [batch EXCEPT ![r] = {}]
    /\ response' = [response EXCEPT ![r] = [s \in Securities |-> NoResponse]]
    /\ UNCHANGED <<provider, database, backfill_start, target, totals>>

\* The result that is returned has the counters and the plan.
FinishRun(r) ==
    /\ phase[r] = "check"
    /\ ~OverThreshold(totals[r])
    /\ pending[r] = {}
    /\ run_status' = [run_status EXCEPT ![r] = "succeeded"]
    /\ Leave(r)
    /\ UNCHANGED <<request, faults>>

\* The process's memory is gone.
LeaveNothing(r) ==
    /\ Leave(r)
    /\ request' = [request EXCEPT ![r] = [s \in Securities |-> NoRequest]]

\* Too many failures: RuntimeError after the batch was committed.
AbortRun(r) ==
    /\ phase[r] = "check"
    /\ OverThreshold(totals[r])
    /\ run_status' = [run_status EXCEPT ![r] = "failed"]
    /\ LeaveNothing(r)
    /\ UNCHANGED faults

\* A query or a commit fails: the transaction is rolled back, materialize or
\* the asset raises and the run is marked failed.
DatabaseFails(r) ==
    /\ \/ phase[r] \in {"coverage", "plan"}
       \/ phase[r] = "recon" /\ Answered(r)
       \/ phase[r] = "check" /\ pending[r] = {} /\ ~OverThreshold(totals[r])
    /\ faults < MaxFaults
    /\ faults' = faults + 1
    /\ run_status' = [run_status EXCEPT ![r] = "failed"]
    /\ LeaveNothing(r)

\* The process dies; nobody updates its ingestion_runs row.
Crash(r) ==
    /\ phase[r] # "idle"
    /\ faults < MaxFaults
    /\ faults' = faults + 1
    /\ UNCHANGED run_status
    /\ LeaveNothing(r)

RunStep(r) ==
    \/ LoadCoverage(r)
    \/ PlanRequests(r)
    \/ TakeBatch(r)
    \/ \E s \in Securities : Fetch(r, s)
    \/ DetectReconciliation(r)
    \/ PersistBatch(r)
    \/ FinishRun(r)
    \/ AbortRun(r)

Environment ==
    \/ \E s \in Securities, d \in Dates : PublishBar(s, d)
    \/ \E s \in Securities, d \in Dates : PublishLateAction(s, d)
    \/ AdvanceWatermark
    \/ \E s \in Securities : RetryDue(s)
    \/ LowerBackfill
    \/ \E r \in Runs : WatermarkFails(r) \/ DatabaseFails(r) \/ Crash(r)

Next == Environment \/ \E r \in Runs : BeginRun(r) \/ RunStep(r)

Spec == Init /\ [][Next]_vars

\* The schedule (or an operator) keeps materialising the asset and a run that
\* was started keeps going; retry times pass and the market stays open.
\* Publications, faults and configuration changes are never required.
Fairness ==
    /\ \A r \in Runs : WF_vars(BeginRun(r)) /\ WF_vars(RunStep(r))
    /\ \A s \in Securities : WF_vars(RetryDue(s))
    /\ WF_vars(AdvanceWatermark)

FairSpec == Spec /\ Fairness

\* What the properties of the stored series need: runs do not overlap, targets
\* come from the provider's watermark, and the provider neither back-dates
\* actions nor returns rows that validation rejects.
Orderly ==
    /\ \A r1, r2 \in Runs : r1 = r2
    /\ Overrides = {}
    /\ ~LateActions
    /\ ~MayReject
--------------------------------------------------------------------------------
(***************************************************************************)
(* Properties of the stored series.                                        *)
(***************************************************************************)

\* If the row that carries a corporate action is stored, every earlier stored
\* row has been adjusted for it: _needs_full_reconciliation and the full
\* refetch never let a split or a dividend into half of a series.
StoredActionsApplied ==
    \A s \in Securities :
      \A e \in price_bars[s] \cap actions[s], d \in price_bars[s] :
        d < e => e \in adjusted[s][d]

\* Every bar the provider has between two stored rows is stored: the overlap
\* window starts at the latest STORED date, not at checked_through_date, so a
\* bar published after its date was checked is still fetched.
NoInteriorGap ==
    \A s \in Securities :
      \A lo, hi \in price_bars[s], d \in bars[s] :
        lo <= d /\ d <= hi => d \in price_bars[s]

\* last_reconciled_corporate_action_date, which suppresses reconciliation for
\* everything up to it, names an action whose row is stored.
ReconciledActionIsStored ==
    \A s \in Securities :
      sync[s].last_recon # 0 => sync[s].last_recon \in price_bars[s] \cap actions[s]

\* Both dates of a sync state that claim something about stored rows, the
\* latest stored one and the last reconciled one, name rows that exist, even
\* with overlapping runs, rejected rows and a provider that corrects itself.
SyncDatesAreStored ==
    /\ ReconciledActionIsStored
    /\ \A s \in Securities :
         sync[s].latest_stored # 0 => sync[s].latest_stored \in price_bars[s]

\* No incremental response that is about to be persisted reveals an action
\* some stored row was not adjusted for ("True if an incremental response
\* reveals a corporate action that hasn't been reconciled").
RevealedActionsReconciled ==
    \A r \in Runs : phase[r] = "recon" =>
      \A s \in batch[r] :
        response[r][s].kind = "bars" /\ request[r][s].mode = "incremental" =>
          \A e \in ActionRows(request[r][s], response[r][s]) :
            \A d \in price_bars[s] \ Written(r, s) : d < e => e \in adjusted[s][d]

\* A bar the provider has before its date is reached is stored, and if it
\* carries an action the rows before it are adjusted for it, whatever finite
\* number of failures, rollbacks and crashes intervene.
PublishedBarArrives ==
    \A s \in Securities, d \in Dates :
      (d \in bars[s] /\ d > watermark /\ d >= backfill_start) ~>
        \/ sync[s].status = "unsupported"
        \/ /\ d \in price_bars[s]
           /\ d \in actions[s] => \A b \in price_bars[s] : b < d => d \in adjusted[s][b]

(***************************************************************************)
(* Properties of the runs.                                                 *)
(***************************************************************************)

\* The counters of a run marked succeeded, added up batch by batch, agree with the
\* states it has left behind, and what failed in it is within the thresholds: the
\* ratio is of the attempted securities, without those found unsupported.
SucceededRunAccountsForAll ==
    \A r \in Runs : run_status[r] = "succeeded" =>
      LET asked == {s \in Securities : request[r][s] # NoRequest}
          ended(status) == {s \in asked : sync[s].status = status}
          unsupported == {s \in Securities : sync[s].status = "unsupported"}
          failed == Cardinality(ended("failed"))
      IN  /\ totals[r] = [succeeded |-> Cardinality(ended("succeeded")),
                          failed |-> failed,
                          unsupported |-> Cardinality(unsupported),
                          skipped |-> Cardinality(Securities \ asked)]
          /\ \/ failed <= MaxFailedSecurities
             \/ failed * RatioDen <=
                  RatioNum * Cardinality(ended("succeeded") \cup ended("failed"))

\* After a run marked succeeded no security is recorded as succeeded but
\* behind the run's target date: no planned security was left out.
SucceededRunLeavesNoneBehind ==
    \A r \in Runs : run_status[r] = "succeeded" =>
      \A s \in Securities :
        sync[s].status = "succeeded" => sync[s].checked_through >= target[r]

\* A failed or unsupported outcome is recorded without losing what earlier
\* successes recorded: watermark, reconciliation date and rows stay.
FailureKeepsProgress ==
    [][\A s \in Securities :
         sync'[s].status \in {"failed", "unsupported"} =>
           /\ sync'[s].checked_through = sync[s].checked_through
           /\ sync'[s].last_recon = sync[s].last_recon
           /\ sync'[s].latest_stored = sync[s].latest_stored
           /\ price_bars'[s] = price_bars[s]
           /\ adjusted'[s] = adjusted[s]]_vars

================================================================================
