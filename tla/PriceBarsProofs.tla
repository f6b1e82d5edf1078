---------------------------- MODULE PriceBarsProofs ----------------------------
(***************************************************************************)
(* Proofs about PriceBars for every set of securities, every MaxDate and   *)
(* every configuration: type correctness, and, when runs do not overlap    *)
(* and the provider is orderly, that the stored series is gap-free and     *)
(* adjusted for every corporate action it contains.                        *)
(***************************************************************************)
EXTENDS PriceBars, FiniteSetTheorems, WellFoundedInduction, NaturalsInduction, TLAPS

\* The latest of a non-empty set of dates is one of them and bounds them all.
LEMMA MaxOfDates ==
    ASSUME NEW S \in SUBSET Dates, S # {}
    PROVE  Max(S) \in S /\ \A d \in S : d <= Max(S)
<1> DEFINE T == {n \in Nat : MaxDate - n \in S}
<1>0. MaxDate \in Nat
  BY PriceBarsAssumption
<1>1. PICK d \in S : TRUE
  OBVIOUS
<1>2. d \in 1 .. MaxDate
  BY <1>1 DEF Dates
<1>3. MaxDate - d \in T
  BY <1>0, <1>2
<1>4. PICK n \in T : \A m \in T : ~ (<<m, n>> \in OpToRel(<, Nat))
  <2> HIDE DEF T
  <2>1. T \subseteq Nat /\ T # {}
    BY <1>3 DEF T
  <2> QED
    BY <2>1, NatLessThanWellFounded, WFMin
<1>5. \A m \in T : n <= m
  <2>1. ASSUME NEW m \in T
        PROVE  ~ (m < n)
    <3>1. m \in Nat /\ n \in Nat
      OBVIOUS
    <3> QED
      BY <1>4, <3>1, Zenon DEF OpToRel
  <2> QED
    BY <2>1
<1>6. MaxDate - n \in S
  OBVIOUS
<1>7. ASSUME NEW x \in S
      PROVE  MaxDate - n >= x
  <2>1. x \in 1 .. MaxDate
    BY DEF Dates
  <2>2. MaxDate - x \in T
    BY <1>0, <2>1
  <2> QED
    BY <1>0, <1>5, <2>1, <2>2
<1>8. \E x \in S : \A y \in S : x >= y
  BY <1>6, <1>7
<1>9. Max(S) \in S /\ \A y \in S : Max(S) >= y
  BY <1>8 DEF Max
<1>10. \A y \in S : y \in Int
  BY DEF Dates
<1> QED
  BY <1>9, <1>10

LEMMA LatestOrInRange ==
    ASSUME NEW S \in SUBSET Dates, NEW d \in 0 .. MaxDate
    PROVE  LatestOr(S, d) \in 0 .. MaxDate
<1>1. CASE S = {}
  BY <1>1 DEF LatestOr
<1>2. CASE S # {}
  <2>1. Max(S) \in Dates
    BY <1>2, MaxOfDates
  <2>2. LatestOr(S, d) = Max(S)
    BY <1>2 DEF LatestOr
  <2> QED
    BY <2>1, <2>2, PriceBarsAssumption DEF Dates
<1> QED
  BY <1>1, <1>2

--------------------------------------------------------------------------------
(* Types of the values the actions compute. *)

LEMMA NeverSyncedType == NeverSynced \in SyncState
BY PriceBarsAssumption DEF NeverSynced, SyncState

LEMMA AnswerType ==
    ASSUME NEW k \in {"none", "error", "not_found"}
    PROVE  Answer(k) \in Response
BY DEF Answer, Response

LEMMA CountType ==
    ASSUME NEW S, S \subseteq Securities
    PROVE  Cardinality(S) \in Nat
BY PriceBarsAssumption, FS_Subset, FS_CardinalityType

LEMMA RequestType ==
    ASSUME NEW stored, NEW end
    PROVE  Request(stored, end) \in [mode: Modes \cup {"none"}, window: SUBSET Dates]
BY DEF Request, RequestMode, Modes, FullWindow, OverlapWindow

LEMMA NextSyncType ==
    ASSUME TypeOK, NEW r \in Runs, NEW s \in Securities
    PROVE  NextSync(r, s) \in SyncState
<1> DEFINE st == sync_states[r][s]
           req == request[r][s]
           resp == response[r][s]
<1>1. /\ st \in SyncState /\ req.window \in SUBSET Dates /\ resp \in Response
      /\ target[r] \in 0 .. MaxDate
  BY DEF TypeOK
<1>2. SyncFailed(st) \in SyncState /\ SyncUnsupported(st) \in SyncState
  <2> HIDE DEF st
  <2>1. st.failures + 1 \in Nat
    BY <1>1 DEF SyncState
  <2>2. SyncFailed(st) = [st EXCEPT !.status = "failed", !.failures = st.failures + 1,
                                    !.deferred = TRUE]
    BY DEF SyncFailed
  <2>3. SyncFailed(st) \in SyncState
    BY <1>1, <2>1, <2>2 DEF SyncState
  <2>4. SyncUnsupported(st) \in SyncState
    BY <1>1 DEF SyncUnsupported, SyncState
  <2> QED
    BY <2>3, <2>4
<1>3. SyncSucceeded(st, req, resp, target[r]) \in SyncState
  <2>1. Valid(req, resp) \in SUBSET Dates
    BY <1>1 DEF Valid, Returned, Response
  <2>2. st.latest_stored \in 0 .. MaxDate /\ st.last_recon \in 0 .. MaxDate
    BY <1>1 DEF SyncState
  <2>3. LatestOr(Valid(req, resp), st.latest_stored) \in 0 .. MaxDate
    BY <2>1, <2>2, LatestOrInRange
  <2>4. LatestOr(Valid(req, resp) \cap resp.known, st.last_recon) \in 0 .. MaxDate
    <3>1. Valid(req, resp) \cap resp.known \in SUBSET Dates
      BY <2>1
    <3> QED
      BY <3>1, <2>2, LatestOrInRange
  <2> QED
    BY <1>1, <2>2, <2>3, <2>4 DEF SyncSucceeded, SyncState
<1> QED
  BY <1>2, <1>3 DEF NextSync

--------------------------------------------------------------------------------
(* Type correctness. *)

LEMMA TypeInit == Init => TypeOK
<1> SUFFICES ASSUME Init PROVE TypeOK
  OBVIOUS
<1>1. NoResponse \in Response
  BY AnswerType DEF NoResponse
<1>2. NoRequest \in [mode: Modes \cup {"none"}, window: SUBSET Dates]
  BY DEF NoRequest
<1>3. NoTotals \in [succeeded: Nat, failed: Nat, unsupported: Nat, skipped: Nat]
  BY DEF NoTotals
<1> QED
  BY <1>1, <1>2, <1>3, NeverSyncedType, PriceBarsAssumption DEF Init, TypeOK

LEMMA LeaveLeaves == \A r \in Runs : LeaveNothing(r) => Leave(r)
BY DEF LeaveNothing

LEMMA TypeLeave ==
    ASSUME TypeOK, NEW r \in Runs, Leave(r),
           run_status' \in [Runs -> {"none", "running", "succeeded", "failed"}],
           faults' \in 0 .. MaxFaults,
           request' = request \/ LeaveNothing(r)
    PROVE  TypeOK'
<1>1. NoResponse \in Response
  BY AnswerType DEF NoResponse
<1>2. NoRequest \in [mode: Modes \cup {"none"}, window: SUBSET Dates]
  BY DEF NoRequest
<1> DEFINE none == [s \in Securities |-> NoRequest]
           Requests == [Securities -> [mode: Modes \cup {"none"}, window: SUBSET Dates]]
<1>3. request' \in [Runs -> Requests]
  <2>1. none \in Requests /\ request \in [Runs -> Requests]
    BY <1>2 DEF TypeOK
  <2>2. request' = request \/ request' = [request EXCEPT ![r] = none]
    BY DEF LeaveNothing
  <2> HIDE DEF none, Requests
  <2> QED
    BY <2>1, <2>2
<1> QED
  BY <1>1, <1>3, NeverSyncedType DEF Leave, TypeOK, provider, database

LEMMA TypeEnvironment == TypeOK /\ Environment => TypeOK'
<1> SUFFICES ASSUME TypeOK, Environment PROVE TypeOK'
  OBVIOUS
<1>1. CASE \E s \in Securities, d \in Dates : PublishBar(s, d)
  BY <1>1 DEF PublishBar, TypeOK, database, plan
<1>2. CASE \E s \in Securities, d \in Dates : PublishLateAction(s, d)
  BY <1>2 DEF PublishLateAction, TypeOK, database, plan
<1>3. CASE AdvanceWatermark
  BY <1>3, PriceBarsAssumption DEF AdvanceWatermark, TypeOK, database, plan
<1>4. CASE \E s \in Securities : RetryDue(s)
  <2>1. PICK s \in Securities : RetryDue(s)
    BY <1>4
  <2>2. [sync[s] EXCEPT !.deferred = FALSE] \in SyncState
    <3> DEFINE st == sync[s]
    <3>1. st \in SyncState
      BY DEF TypeOK
    <3> HIDE DEF st
    <3>2. [st EXCEPT !.deferred = FALSE] \in SyncState
      BY <3>1 DEF SyncState
    <3> QED
      BY <3>2 DEF st
  <2>3. sync' = [sync EXCEPT ![s] = [sync[s] EXCEPT !.deferred = FALSE]]
    BY <2>1 DEF RetryDue
  <2>4. sync' \in [Securities -> SyncState]
    BY <2>2, <2>3 DEF TypeOK
  <2> QED
    BY <2>1, <2>4 DEF RetryDue, TypeOK, provider, plan
<1>5. CASE LowerBackfill
  BY <1>5 DEF LowerBackfill, TypeOK, provider, database, plan
<1>6. ASSUME NEW r \in Runs, WatermarkFails(r) PROVE TypeOK'
  BY <1>6, PriceBarsAssumption DEF WatermarkFails, TypeOK, provider, database, plan
<1>7. ASSUME NEW r \in Runs, DatabaseFails(r) PROVE TypeOK'
  BY <1>7, TypeLeave, PriceBarsAssumption, LeaveLeaves DEF DatabaseFails, TypeOK
<1>8. ASSUME NEW r \in Runs, Crash(r) PROVE TypeOK'
  BY <1>8, TypeLeave, PriceBarsAssumption, LeaveLeaves DEF Crash, TypeOK
<1> QED
  BY <1>1, <1>2, <1>3, <1>4, <1>5, <1>6, <1>7, <1>8 DEF Environment

LEMMA TypeRun == TypeOK /\ (\E r \in Runs : BeginRun(r) \/ RunStep(r)) => TypeOK'
<1> SUFFICES ASSUME TypeOK, NEW r \in Runs, BeginRun(r) \/ RunStep(r) PROVE TypeOK'
  OBVIOUS
<1> DEFINE Totals == [succeeded: Nat, failed: Nat, unsupported: Nat, skipped: Nat]
<1>1. CASE BeginRun(r)
  <2>1. NoTotals \in Totals
    BY DEF NoTotals
  <2>2. target' \in [Runs -> 0 .. MaxDate]
    BY <1>1, PriceBarsAssumption DEF BeginRun, TypeOK, Dates
  <2>3. NoRequest \in [mode: Modes \cup {"none"}, window: SUBSET Dates]
    BY DEF NoRequest
  <2> QED
    BY <1>1, <2>1, <2>2, <2>3 DEF BeginRun, TypeOK, provider, database
<1>2. CASE LoadCoverage(r)
  BY <1>2 DEF LoadCoverage, TypeOK, provider, database
<1>3. CASE PlanRequests(r)
  <2> DEFINE sk == {s \in Securities : Skipped(sync[s], target[r])}
             un == {s \in Securities : sync[s].status = "unsupported"}
             t == totals[r]
             a == Cardinality(sk)
             b == Cardinality(un)
  <2>1. [t EXCEPT !.skipped = a, !.unsupported = b] \in Totals
    <3>1. t \in Totals
      BY DEF TypeOK
    <3>2. a \in Nat /\ b \in Nat
      BY CountType
    <3> HIDE DEF t, a, b
    <3> QED
      BY <3>1, <3>2
  <2>2. totals' = [totals EXCEPT ![r] = [t EXCEPT !.skipped = a, !.unsupported = b]]
    BY <1>3 DEF PlanRequests
  <2>3. totals' \in [Runs -> Totals]
    BY <2>1, <2>2 DEF TypeOK
  <2>4. [s \in Securities |-> IF s \in sk THEN NoRequest
                              ELSE Request(coverage[r][s], target[r])]
          \in [Securities -> [mode: Modes \cup {"none"}, window: SUBSET Dates]]
    BY RequestType DEF NoRequest
  <2>5. request' \in [Runs -> [Securities -> [mode: Modes \cup {"none"},
                                              window: SUBSET Dates]]]
    BY <1>3, <2>4 DEF PlanRequests, TypeOK
  <2> QED
    BY <1>3, <2>3, <2>5 DEF PlanRequests, TypeOK, provider, database
<1>4. CASE TakeBatch(r)
  BY <1>4 DEF TakeBatch, TypeOK, provider, database, plan
<1>5. ASSUME NEW s \in Securities, Fetch(r, s) PROVE TypeOK'
  <2>1. \E resp \in Response : response' = [response EXCEPT ![r][s] = resp]
    <3>1. CASE \E bad \in SUBSET Dates :
                 response' = [response EXCEPT ![r][s] =
                   [kind |-> "bars", published |-> bars[s], known |-> actions[s],
                    rejected |-> bad]]
      BY <3>1 DEF TypeOK, Response
    <3>2. CASE \E kind \in {"error", "not_found"} :
                 response' = [response EXCEPT ![r][s] = Answer(kind)]
      BY <3>2, AnswerType
    <3> QED
      BY <1>5, <3>1, <3>2 DEF Fetch
  <2>2. response' \in [Runs -> [Securities -> Response]]
    BY <2>1 DEF TypeOK
  <2>3. faults' \in 0 .. MaxFaults
    BY <1>5, PriceBarsAssumption DEF Fetch, TypeOK
  <2> QED
    BY <1>5, <2>2, <2>3 DEF Fetch, TypeOK, provider, database, plan
<1>6. CASE DetectReconciliation(r)
  <2>1. NoResponse \in Response
    BY AnswerType DEF NoResponse
  <2>2. response' \in [Runs -> [Securities -> Response]]
    BY <1>6, <2>1 DEF DetectReconciliation, TypeOK
  <2>3. [mode |-> "full_reconciliation", window |-> FullWindow(target[r])]
          \in [mode: Modes \cup {"none"}, window: SUBSET Dates]
    BY DEF Modes, FullWindow
  <2>4. request' \in [Runs -> [Securities -> [mode: Modes \cup {"none"},
                                              window: SUBSET Dates]]]
    BY <1>6, <2>3 DEF DetectReconciliation, TypeOK
  <2> QED
    BY <1>6, <2>2, <2>4 DEF DetectReconciliation, TypeOK, provider, database, plan
<1>7. CASE PersistBatch(r)
  <2>1. \A s \in Securities : Written(r, s) \subseteq Dates
    BY DEF Written, Valid, Returned, TypeOK, Response
  <2>2. price_bars' \in [Securities -> SUBSET Dates]
    BY <1>7, <2>1 DEF PersistBatch, TypeOK
  <2>3. \A s \in Securities : response[r][s].known \in SUBSET Dates
    BY DEF TypeOK, Response
  <2>4. adjusted' \in [Securities -> [Dates -> SUBSET Dates]]
    BY <1>7, <2>3 DEF PersistBatch, TypeOK
  <2>5. sync' \in [Securities -> SyncState]
    BY <1>7, NextSyncType DEF PersistBatch, TypeOK
  <2>6. \A k : CountKind(r, k) \in Nat
    BY CountType DEF CountKind, TypeOK
  <2>7. totals' \in [Runs -> Totals]
    <3> DEFINE t == totals[r]
               a == t.succeeded + CountKind(r, "bars")
               b == t.failed + CountKind(r, "error")
               c == t.unsupported + CountKind(r, "not_found")
    <3>1. t \in Totals
      BY DEF TypeOK
    <3>2. a \in Nat /\ b \in Nat /\ c \in Nat
      BY <2>6, <3>1
    <3>3. totals' = [totals EXCEPT ![r] =
                       [t EXCEPT !.succeeded = a, !.failed = b, !.unsupported = c]]
      BY <1>7 DEF PersistBatch
    <3> HIDE DEF t, a, b, c
    <3>4. [t EXCEPT !.succeeded = a, !.failed = b, !.unsupported = c] \in Totals
      BY <3>1, <3>2
    <3> QED
      BY <3>3, <3>4 DEF TypeOK
  <2>8. NoResponse \in Response
    BY AnswerType DEF NoResponse
  <2>9. response' \in [Runs -> [Securities -> Response]]
    BY <1>7, <2>8 DEF PersistBatch, TypeOK
  <2> QED
    BY <1>7, <2>2, <2>4, <2>5, <2>7, <2>9 DEF PersistBatch, TypeOK, provider, plan
<1>8. CASE FinishRun(r)
  BY <1>8, TypeLeave DEF FinishRun, TypeOK
<1>9. CASE AbortRun(r)
  BY <1>9, TypeLeave DEF AbortRun, LeaveNothing, TypeOK
<1> QED
  BY <1>1, <1>2, <1>3, <1>4, <1>5, <1>6, <1>7, <1>8, <1>9 DEF RunStep

\* Every variable keeps its type, whatever the configuration and however many
\* runs overlap: in particular the sync state's dates stay dates and the
\* counters stay natural numbers.
THEOREM TypeCorrect == Spec => []TypeOK
<1>1. TypeOK /\ UNCHANGED vars => TypeOK'
  BY DEF TypeOK, vars, provider, database, plan
<1>2. TypeOK /\ [Next]_vars => TypeOK'
  BY <1>1, TypeEnvironment, TypeRun DEF Next
<1> QED
  BY <1>2, TypeInit, PTL DEF Spec

--------------------------------------------------------------------------------
(* The stored series.  SeriesInv is inductive when runs do not overlap and the
   provider is orderly; one lemma per action. *)

InFlight(r) == pending[r] \cup batch[r]

StoredWasPublished ==
    \A s \in Securities :
      /\ actions[s] \subseteq bars[s]
      /\ price_bars[s] \subseteq bars[s]
      /\ \A d \in price_bars[s] : backfill_start <= d /\ d <= watermark

TargetsCoverStored ==
    \A r \in Runs :
      /\ target[r] <= watermark
      /\ phase[r] # "idle" => \A s \in Securities : \A d \in price_bars[s] : d <= target[r]

RunShape ==
    \A r \in Runs :
      /\ phase[r] \in {"idle", "coverage", "plan"} => pending[r] = {}
      /\ phase[r] \in {"idle", "coverage", "plan", "check"} => batch[r] = {}
      /\ pending[r] \cap batch[r] = {}
      /\ \A s \in Securities \ batch[r] : response[r][s].kind = "none"

\* Nothing the run loaded at its start has changed for the securities it still
\* has to persist.
SnapshotsCurrent ==
    \A r \in Runs :
      /\ phase[r] = "plan" => coverage[r] = price_bars
      /\ \A s \in InFlight(r) : sync_states[r][s].last_recon = sync[s].last_recon

RequestsFit ==
    \A r \in Runs : \A s \in InFlight(r) :
      LET req == request[r][s]
      IN  \/ /\ req.mode # "incremental"
             /\ req.window = FullWindow(target[r])
          \/ /\ req.mode = "incremental"
             /\ req.window = OverlapWindow(price_bars[s], target[r])
             /\ \E d \in price_bars[s] : d <= backfill_start

\* A response is an earlier view of the provider, complete up to its last bar.
ResponsesFit ==
    \A r \in Runs : \A s \in batch[r] :
      LET resp == response[r][s]
      IN  resp.kind = "bars" =>
            /\ price_bars[s] \subseteq resp.published
            /\ resp.published \subseteq bars[s]
            /\ resp.known = actions[s] \cap resp.published
            /\ \A b \in bars[s] \ resp.published, p \in resp.published : p < b
            /\ resp.rejected = {}

DetectionDone ==
    \A r \in Runs : phase[r] = "recon" =>
      \A s \in batch[r] : request[r][s].mode = "incremental" =>
        /\ response[r][s].kind # "none"
        /\ response[r][s].kind = "bars" =>
             \A e \in ActionRows(request[r][s], response[r][s]) : e <= sync[s].last_recon

\* Three properties of the stored series with what makes them inductive.
SeriesInv ==
    /\ StoredWasPublished
    /\ TargetsCoverStored
    /\ RunShape
    /\ SnapshotsCurrent
    /\ RequestsFit
    /\ ResponsesFit
    /\ DetectionDone
    /\ StoredActionsApplied
    /\ NoInteriorGap
    /\ ReconciledActionIsStored

LEMMA SeriesInit == TypeOK /\ Init => SeriesInv
BY DEF Init, NoResponse, Answer, NeverSynced, SeriesInv, StoredWasPublished,
       TargetsCoverStored, RunShape, SnapshotsCurrent, RequestsFit, ResponsesFit,
       DetectionDone, StoredActionsApplied, NoInteriorGap, ReconciledActionIsStored,
       InFlight

LEMMA SeriesPublish ==
    ASSUME TypeOK, SeriesInv, NEW s \in Securities, NEW d \in Dates, PublishBar(s, d)
    PROVE  SeriesInv'
<1> USE DEF SeriesInv
<1>0. /\ bars' = [bars EXCEPT ![s] = bars[s] \cup {d}]
      /\ \A z \in Securities : actions'[z] = actions[z] \/ (z = s /\ actions'[z] = actions[z] \cup {d})
      /\ \A b \in bars[s] : b < d
      /\ d \in Int
      /\ \A z \in Securities : bars[z] \subseteq Int
  BY DEF PublishBar, TypeOK, Dates
<1>1. d \notin bars[s]
  BY <1>0
<1> USE DEF PublishBar, database, plan
<1>2. StoredWasPublished'
  BY <1>0 DEF StoredWasPublished, TypeOK
<1>3. TargetsCoverStored'
  BY DEF TargetsCoverStored
<1>4. RunShape'
  BY DEF RunShape
<1>5. SnapshotsCurrent'
  BY DEF SnapshotsCurrent, InFlight
<1>6. RequestsFit'
  BY DEF RequestsFit, InFlight, FullWindow, OverlapWindow
<1>7. ResponsesFit'
  <2> SUFFICES ASSUME NEW r \in Runs, NEW z \in batch[r], response[r][z].kind = "bars"
               PROVE  /\ price_bars[z] \subseteq response[r][z].published
                      /\ response[r][z].published \subseteq bars'[z]
                      /\ response[r][z].known = actions'[z] \cap response[r][z].published
                      /\ \A b \in bars'[z] \ response[r][z].published,
                            p \in response[r][z].published : p < b
                      /\ response[r][z].rejected = {}
    BY DEF ResponsesFit
  <2>1. z \in Securities
    BY DEF TypeOK
  <2>2. /\ price_bars[z] \subseteq response[r][z].published
        /\ response[r][z].published \subseteq bars[z]
        /\ response[r][z].known = actions[z] \cap response[r][z].published
        /\ \A b \in bars[z] \ response[r][z].published,
              p \in response[r][z].published : p < b
        /\ response[r][z].rejected = {}
    BY DEF ResponsesFit
  <2>3. CASE z = s
    BY <1>0, <1>1, <2>1, <2>2, <2>3 DEF TypeOK
  <2>4. CASE z # s
    BY <1>0, <2>1, <2>2, <2>4 DEF TypeOK
  <2> QED
    BY <2>3, <2>4
<1>8. DetectionDone'
  BY DEF DetectionDone, ActionRows, Returned
<1>9. StoredActionsApplied'
  BY <1>0, <1>1 DEF StoredActionsApplied, StoredWasPublished
<1>10. NoInteriorGap'
  <2> SUFFICES ASSUME NEW z \in Securities, NEW lo \in price_bars[z], NEW hi \in price_bars[z],
                      NEW b \in bars'[z], lo <= b, b <= hi
               PROVE  b \in price_bars[z]
    BY DEF NoInteriorGap
  <2>1. price_bars[z] \subseteq bars[z]
    BY DEF StoredWasPublished
  <2>2. b \in bars[z]
    BY <1>0, <2>1 DEF TypeOK
  <2> QED
    BY <2>2 DEF NoInteriorGap
<1>11. ReconciledActionIsStored'
  BY <1>0 DEF ReconciledActionIsStored
<1> QED
  BY <1>2, <1>3, <1>4, <1>5, <1>6, <1>7, <1>8, <1>9, <1>10, <1>11

LEMMA SeriesAdvance ==
    ASSUME TypeOK, SeriesInv, AdvanceWatermark
    PROVE  SeriesInv'
<1> USE DEF SeriesInv, AdvanceWatermark, database, plan
<1>1. \A s \in Securities : \A d \in price_bars[s] : d \in Int
  BY DEF TypeOK, Dates
<1>2. \A r \in Runs : target[r] \in Int
  BY DEF TypeOK
<1>3. watermark \in Int
  BY DEF TypeOK
<1>4. StoredWasPublished'
  BY <1>1, <1>3 DEF StoredWasPublished
<1>5. TargetsCoverStored'
  BY <1>2, <1>3 DEF TargetsCoverStored
<1>6. RunShape' /\ SnapshotsCurrent'
  BY DEF RunShape, SnapshotsCurrent, InFlight
<1>7. RequestsFit' /\ ResponsesFit' /\ DetectionDone'
  BY DEF RequestsFit, ResponsesFit, DetectionDone, InFlight, FullWindow,
         OverlapWindow, ActionRows, Returned
<1>8. StoredActionsApplied' /\ NoInteriorGap' /\ ReconciledActionIsStored'
  BY DEF StoredActionsApplied, NoInteriorGap, ReconciledActionIsStored
<1> QED
  BY <1>4, <1>5, <1>6, <1>7, <1>8

LEMMA SeriesRetryDue ==
    ASSUME TypeOK, SeriesInv, NEW s \in Securities, RetryDue(s)
    PROVE  SeriesInv'
<1> USE DEF SeriesInv, RetryDue, provider, plan
<1>1. \A z \in Securities : sync'[z].last_recon = sync[z].last_recon
  <2>1. sync' = [sync EXCEPT ![s] = [sync[s] EXCEPT !.deferred = FALSE]]
    OBVIOUS
  <2>2. \A z \in Securities : sync[z] \in SyncState
    BY DEF TypeOK
  <2> QED
    BY <2>1, <2>2 DEF TypeOK, SyncState
<1>2. StoredWasPublished' /\ TargetsCoverStored' /\ RunShape'
  BY DEF StoredWasPublished, TargetsCoverStored, RunShape
<1>3. \A r \in Runs : InFlight(r) \subseteq Securities
  BY DEF InFlight, TypeOK
<1>4. SnapshotsCurrent'
  BY <1>1, <1>3 DEF SnapshotsCurrent, InFlight
<1>5. RequestsFit' /\ ResponsesFit'
  BY DEF RequestsFit, ResponsesFit, InFlight, FullWindow, OverlapWindow
<1>6. DetectionDone'
  BY <1>1, <1>3 DEF DetectionDone, InFlight, ActionRows, Returned
<1>7. StoredActionsApplied' /\ NoInteriorGap' /\ ReconciledActionIsStored'
  BY <1>1 DEF StoredActionsApplied, NoInteriorGap, ReconciledActionIsStored
<1> QED
  BY <1>2, <1>4, <1>5, <1>6, <1>7

LEMMA SeriesLowerBackfill ==
    ASSUME TypeOK, SeriesInv, LowerBackfill
    PROVE  SeriesInv'
<1> USE DEF SeriesInv, LowerBackfill, provider, database, plan
<1>1. \A r \in Runs : InFlight(r) = {} /\ InFlight(r)' = {} /\ batch'[r] = {}
  BY DEF InFlight, RunShape
<1>2. StoredWasPublished'
  <2>1. backfill_start \in Int /\ backfill_start' \in Int
    BY PriceBarsAssumption DEF TypeOK, Dates
  <2>2. \A s \in Securities : \A d \in price_bars[s] : d \in Int
    BY DEF TypeOK, Dates
  <2> QED
    BY <2>1, <2>2 DEF StoredWasPublished
<1>3. TargetsCoverStored' /\ RunShape'
  BY DEF TargetsCoverStored, RunShape
<1>4. SnapshotsCurrent' /\ RequestsFit' /\ ResponsesFit' /\ DetectionDone'
  BY <1>1 DEF SnapshotsCurrent, RequestsFit, ResponsesFit, DetectionDone
<1>5. StoredActionsApplied' /\ NoInteriorGap' /\ ReconciledActionIsStored'
  BY DEF StoredActionsApplied, NoInteriorGap, ReconciledActionIsStored
<1> QED
  BY <1>2, <1>3, <1>4, <1>5

LEMMA SeriesBegin ==
    ASSUME TypeOK, SeriesInv, Orderly, NEW r \in Runs, BeginRun(r)
    PROVE  SeriesInv'
<1> USE DEF SeriesInv, BeginRun, provider, database
<1>1. target' = [target EXCEPT ![r] = watermark]
  BY DEF Orderly
<1>2. \A q \in Runs : q = r
  BY DEF Orderly
<1>3. /\ watermark \in Int
      /\ \A s \in Securities : \A d \in price_bars[s] : d \in Int /\ d <= watermark
  BY DEF TypeOK, Dates, StoredWasPublished
<1>4. StoredWasPublished'
  BY DEF StoredWasPublished
<1>5. TargetsCoverStored'
  BY <1>1, <1>2, <1>3 DEF TargetsCoverStored, TypeOK
<1>6. /\ pending' = [pending EXCEPT ![r] = {}]
      /\ batch' = [batch EXCEPT ![r] = {}]
      /\ phase'[r] = "coverage"
  BY DEF RunShape, TypeOK
<1>7. RunShape'
  BY <1>2, <1>6 DEF RunShape, TypeOK
<1>8. \A q \in Runs : InFlight(q)' = {} /\ batch'[q] = {} /\ phase'[q] # "plan"
  BY <1>2, <1>6 DEF InFlight, TypeOK
<1>9. SnapshotsCurrent' /\ RequestsFit' /\ ResponsesFit' /\ DetectionDone'
  BY <1>8 DEF SnapshotsCurrent, RequestsFit, ResponsesFit, DetectionDone
<1>10. StoredActionsApplied' /\ NoInteriorGap' /\ ReconciledActionIsStored'
  BY DEF StoredActionsApplied, NoInteriorGap, ReconciledActionIsStored
<1> QED
  BY <1>4, <1>5, <1>7, <1>9, <1>10

LEMMA SeriesWatermarkFails ==
    ASSUME TypeOK, SeriesInv, NEW r \in Runs, WatermarkFails(r)
    PROVE  SeriesInv'
<1> USE DEF SeriesInv, WatermarkFails, provider, database, plan
<1>1. StoredWasPublished' /\ TargetsCoverStored' /\ RunShape'
  BY DEF StoredWasPublished, TargetsCoverStored, RunShape
<1>2. SnapshotsCurrent' /\ RequestsFit' /\ ResponsesFit' /\ DetectionDone'
  BY DEF SnapshotsCurrent, RequestsFit, ResponsesFit, DetectionDone, InFlight,
         FullWindow, OverlapWindow, ActionRows, Returned
<1>3. StoredActionsApplied' /\ NoInteriorGap' /\ ReconciledActionIsStored'
  BY DEF StoredActionsApplied, NoInteriorGap, ReconciledActionIsStored
<1> QED
  BY <1>1, <1>2, <1>3

LEMMA SeriesLeave ==
    ASSUME TypeOK, SeriesInv, Orderly, NEW r \in Runs, Leave(r)
    PROVE  SeriesInv'
<1> USE DEF SeriesInv, Leave, provider, database
<1>1. \A q \in Runs : q = r
  BY DEF Orderly
<1>2. /\ phase'[r] = "idle" /\ pending'[r] = {} /\ batch'[r] = {}
      /\ \A s \in Securities : response'[r][s].kind = "none"
  BY DEF TypeOK, NoResponse, Answer
<1>3. StoredWasPublished'
  BY DEF StoredWasPublished
<1>4. TargetsCoverStored' /\ RunShape'
  BY <1>1, <1>2 DEF TargetsCoverStored, RunShape
<1>5. SnapshotsCurrent' /\ RequestsFit' /\ ResponsesFit' /\ DetectionDone'
  BY <1>1, <1>2 DEF SnapshotsCurrent, RequestsFit, ResponsesFit, DetectionDone, InFlight
<1>6. StoredActionsApplied' /\ NoInteriorGap' /\ ReconciledActionIsStored'
  BY DEF StoredActionsApplied, NoInteriorGap, ReconciledActionIsStored
<1> QED
  BY <1>3, <1>4, <1>5, <1>6

LEMMA SeriesLoadCoverage ==
    ASSUME TypeOK, SeriesInv, Orderly, NEW r \in Runs, LoadCoverage(r)
    PROVE  SeriesInv'
<1> USE DEF SeriesInv, LoadCoverage, provider, database
<1>1. \A q \in Runs : q = r
  BY DEF Orderly
<1>2. phase'[r] = "plan" /\ coverage'[r] = price_bars /\ pending[r] = {} /\ batch[r] = {}
  BY DEF RunShape, TypeOK
<1>3. StoredWasPublished' /\ TargetsCoverStored' /\ RunShape'
  BY <1>1, <1>2 DEF StoredWasPublished, TargetsCoverStored, RunShape
<1>4. SnapshotsCurrent' /\ RequestsFit' /\ ResponsesFit' /\ DetectionDone'
  BY <1>1, <1>2 DEF SnapshotsCurrent, RequestsFit, ResponsesFit, DetectionDone, InFlight
<1>5. StoredActionsApplied' /\ NoInteriorGap' /\ ReconciledActionIsStored'
  BY DEF StoredActionsApplied, NoInteriorGap, ReconciledActionIsStored
<1> QED
  BY <1>3, <1>4, <1>5

LEMMA SeriesPlan ==
    ASSUME TypeOK, SeriesInv, Orderly, NEW r \in Runs, PlanRequests(r)
    PROVE  SeriesInv'
<1> USE DEF SeriesInv, provider, database
<1> DEFINE sk == {s \in Securities : Skipped(sync[s], target[r])}
<1>1. \A q \in Runs : q = r
  BY DEF Orderly
<1>2. /\ phase'[r] = "check" /\ phase[r] = "plan"
      /\ coverage[r] = price_bars
      /\ batch[r] = {} /\ batch' = batch /\ response' = response
      /\ pending'[r] = Securities \ sk
      /\ target' = target /\ coverage' = coverage
      /\ sync_states'[r] = sync
      /\ \A s \in Securities \ sk : request'[r][s] = Request(price_bars[s], target[r])
  BY DEF PlanRequests, RunShape, SnapshotsCurrent, TypeOK
<1>3. /\ price_bars' = price_bars /\ sync' = sync /\ adjusted' = adjusted
      /\ bars' = bars /\ actions' = actions /\ watermark' = watermark
      /\ backfill_start' = backfill_start
  BY DEF PlanRequests
<1>4. StoredWasPublished'
  BY <1>3 DEF StoredWasPublished
<1>5. TargetsCoverStored' /\ RunShape'
  BY <1>1, <1>2, <1>3 DEF TargetsCoverStored, RunShape
<1>6. SnapshotsCurrent'
  BY <1>1, <1>2, <1>3 DEF SnapshotsCurrent, InFlight
<1>7. RequestsFit'
  <2> SUFFICES ASSUME NEW s \in Securities \ sk
               PROVE  LET req == Request(price_bars[s], target[r])
                      IN  \/ /\ req.mode # "incremental"
                             /\ req.window = FullWindow(target[r])
                          \/ /\ req.mode = "incremental"
                             /\ req.window = OverlapWindow(price_bars[s], target[r])
                             /\ \E d \in price_bars[s] : d <= backfill_start
    BY <1>1, <1>2, <1>3 DEF RequestsFit, InFlight, FullWindow, OverlapWindow
  <2>1. /\ \A d \in price_bars[s] : d \in Int
        /\ backfill_start \in Int
    BY PriceBarsAssumption DEF TypeOK, Dates
  <2> QED
    BY <2>1 DEF Request, RequestMode
<1>8. ResponsesFit' /\ DetectionDone'
  BY <1>1, <1>2, <1>3 DEF ResponsesFit, DetectionDone
<1>9. StoredActionsApplied' /\ NoInteriorGap' /\ ReconciledActionIsStored'
  BY <1>3 DEF StoredActionsApplied, NoInteriorGap, ReconciledActionIsStored
<1> QED
  BY <1>4, <1>5, <1>6, <1>7, <1>8, <1>9

LEMMA SeriesTakeBatch ==
    ASSUME TypeOK, SeriesInv, Orderly, NEW r \in Runs, TakeBatch(r)
    PROVE  SeriesInv'
<1> USE DEF SeriesInv, provider, database, plan
<1>1. \A q \in Runs : q = r
  BY DEF Orderly
<1>2. PICK b \in SUBSET pending[r] :
        /\ batch' = [batch EXCEPT ![r] = b]
        /\ pending' = [pending EXCEPT ![r] = @ \ b]
  BY DEF TakeBatch
<1>3. /\ phase[r] = "check" /\ phase'[r] = "fetch"
      /\ batch[r] = {} /\ batch'[r] = b /\ pending'[r] = pending[r] \ b
      /\ response' = response /\ request' = request
      /\ target' = target /\ coverage' = coverage /\ sync_states' = sync_states
  BY <1>2 DEF TakeBatch, RunShape, TypeOK
<1>4. /\ price_bars' = price_bars /\ sync' = sync /\ adjusted' = adjusted
      /\ bars' = bars /\ actions' = actions /\ watermark' = watermark
      /\ backfill_start' = backfill_start
  BY DEF TakeBatch
<1>5. InFlight(r)' = InFlight(r)
  BY <1>3 DEF InFlight
<1>6. \A s \in Securities : response[r][s].kind = "none"
  BY <1>3 DEF RunShape
<1>7. b \subseteq Securities
  BY DEF TypeOK
<1>8. StoredWasPublished'
  BY <1>4 DEF StoredWasPublished
<1>9. TargetsCoverStored'
  BY <1>1, <1>3, <1>4 DEF TargetsCoverStored
<1>10. RunShape'
  BY <1>1, <1>3, <1>6 DEF RunShape
<1>11. SnapshotsCurrent'
  BY <1>1, <1>3, <1>4, <1>5 DEF SnapshotsCurrent
<1>12. RequestsFit'
  BY <1>1, <1>3, <1>4, <1>5 DEF RequestsFit, FullWindow, OverlapWindow
<1>13. ResponsesFit' /\ DetectionDone'
  BY <1>1, <1>3, <1>6, <1>7 DEF ResponsesFit, DetectionDone
<1>14. StoredActionsApplied' /\ NoInteriorGap' /\ ReconciledActionIsStored'
  BY <1>4 DEF StoredActionsApplied, NoInteriorGap, ReconciledActionIsStored
<1> QED
  BY <1>8, <1>9, <1>10, <1>11, <1>12, <1>13, <1>14

LEMMA SeriesFetch ==
    ASSUME TypeOK, SeriesInv, Orderly, NEW r \in Runs, NEW s \in Securities, Fetch(r, s)
    PROVE  SeriesInv'
<1> USE DEF SeriesInv, provider, database, plan
<1>1. \A q \in Runs : q = r
  BY DEF Orderly
<1>2. /\ s \in batch[r] /\ phase' = phase /\ batch' = batch /\ pending' = pending
      /\ request' = request /\ target' = target /\ coverage' = coverage
      /\ sync_states' = sync_states
      /\ response[r][s].kind = "none"
  BY DEF Fetch
<1>3. /\ price_bars' = price_bars /\ sync' = sync /\ adjusted' = adjusted
      /\ bars' = bars /\ actions' = actions /\ watermark' = watermark
      /\ backfill_start' = backfill_start
  BY DEF Fetch
<1>4. \A z \in Securities \ {s} : response'[r][z] = response[r][z]
  BY DEF Fetch, TypeOK
<1>5. \/ response'[r][s].kind # "bars"
      \/ response'[r][s] = [kind |-> "bars", published |-> bars[s],
                            known |-> actions[s], rejected |-> {}]
  <2>1. \A v : response' = [response EXCEPT ![r][s] = v] => response'[r][s] = v
    BY DEF TypeOK
  <2>2. CASE \E bad \in SUBSET Dates :
               /\ bad = {} \/ (MayReject /\ bad \subseteq bars[s])
               /\ response' = [response EXCEPT ![r][s] =
                    [kind |-> "bars", published |-> bars[s], known |-> actions[s],
                     rejected |-> bad]]
    <3>1. response' = [response EXCEPT ![r][s] =
             [kind |-> "bars", published |-> bars[s], known |-> actions[s],
              rejected |-> {}]]
      BY <2>2 DEF Orderly
    <3> QED
      BY <2>1, <3>1
  <2>3. CASE \E kind \in {"error", "not_found"} :
               response' = [response EXCEPT ![r][s] = Answer(kind)]
    <3>1. PICK kind \in {"error", "not_found"} : response'[r][s] = Answer(kind)
      BY <2>1, <2>3
    <3>2. response'[r][s].kind = kind
      BY <3>1 DEF Answer
    <3> QED
      BY <3>2
  <2> QED
    BY <2>2, <2>3 DEF Fetch
<1>6. StoredWasPublished'
  BY <1>3 DEF StoredWasPublished
<1>7. TargetsCoverStored'
  BY <1>1, <1>2, <1>3 DEF TargetsCoverStored
<1>8. RunShape'
  BY <1>1, <1>2, <1>4 DEF RunShape
<1>9. SnapshotsCurrent'
  BY <1>1, <1>2, <1>3 DEF SnapshotsCurrent, InFlight
<1>10. RequestsFit'
  BY <1>1, <1>2, <1>3 DEF RequestsFit, InFlight, FullWindow, OverlapWindow
<1>11. batch[r] \subseteq Securities
  BY DEF TypeOK
<1>12. ResponsesFit'
  <2> SUFFICES ASSUME NEW z \in batch[r], response'[r][z].kind = "bars"
               PROVE  LET resp == response'[r][z]
                      IN  /\ price_bars[z] \subseteq resp.published
                          /\ resp.published \subseteq bars[z]
                          /\ resp.known = actions[z] \cap resp.published
                          /\ \A b \in bars[z] \ resp.published, p \in resp.published : p < b
                          /\ resp.rejected = {}
    BY <1>1, <1>2, <1>3 DEF ResponsesFit
  <2>1. CASE z = s
    <3>1. response'[r][s] = [kind |-> "bars", published |-> bars[s],
                             known |-> actions[s], rejected |-> {}]
      BY <1>5, <2>1
    <3>2. price_bars[s] \subseteq bars[s] /\ actions[s] \subseteq bars[s]
      BY DEF StoredWasPublished
    <3> QED
      BY <2>1, <3>1, <3>2
  <2>2. CASE z # s
    BY <1>4, <1>11, <2>2 DEF ResponsesFit
  <2> QED
    BY <2>1, <2>2
<1>13. DetectionDone'
  <2> SUFFICES ASSUME phase[r] = "recon", NEW z \in batch[r],
                      request[r][z].mode = "incremental"
               PROVE  /\ response'[r][z].kind # "none"
                      /\ response'[r][z].kind = "bars" =>
                           \A e \in ActionRows(request[r][z], response'[r][z]) :
                             e <= sync[z].last_recon
    BY <1>1, <1>2, <1>3 DEF DetectionDone
  <2>1. z # s
    BY <1>2 DEF DetectionDone
  <2> QED
    BY <1>4, <1>11, <2>1 DEF DetectionDone
<1>14. StoredActionsApplied' /\ NoInteriorGap' /\ ReconciledActionIsStored'
  BY <1>3 DEF StoredActionsApplied, NoInteriorGap, ReconciledActionIsStored
<1> QED
  BY <1>6, <1>7, <1>8, <1>9, <1>10, <1>12, <1>13, <1>14

LEMMA SeriesDetect ==
    ASSUME TypeOK, SeriesInv, Orderly, NEW r \in Runs, DetectReconciliation(r)
    PROVE  SeriesInv'
<1> USE DEF SeriesInv, provider, database, plan
<1> DEFINE full == [mode |-> "full_reconciliation", window |-> FullWindow(target[r])]
<1>1. \A q \in Runs : q = r
  BY DEF Orderly
<1>2. /\ phase[r] = "fetch" /\ phase'[r] = "recon"
      /\ batch' = batch /\ pending' = pending /\ target' = target
      /\ coverage' = coverage /\ sync_states' = sync_states
      /\ price_bars' = price_bars /\ sync' = sync /\ adjusted' = adjusted
      /\ bars' = bars /\ actions' = actions /\ watermark' = watermark
      /\ backfill_start' = backfill_start
  BY DEF DetectReconciliation, TypeOK
<1>3. ToReconcile(r) \subseteq batch[r] /\ batch[r] \subseteq Securities
  BY DEF ToReconcile, TypeOK
<1>4. \A s \in ToReconcile(r) :
        request'[r][s] = full /\ response'[r][s].kind = "none"
  BY <1>3 DEF DetectReconciliation, TypeOK, NoResponse, Answer
<1>5. \A s \in Securities \ ToReconcile(r) :
        request'[r][s] = request[r][s] /\ response'[r][s] = response[r][s]
  BY DEF DetectReconciliation, TypeOK
<1>6. StoredWasPublished'
  BY <1>2 DEF StoredWasPublished
<1>7. TargetsCoverStored'
  BY <1>1, <1>2 DEF TargetsCoverStored
<1>8. RunShape'
  BY <1>1, <1>2, <1>3, <1>5 DEF RunShape
<1>9. SnapshotsCurrent'
  BY <1>1, <1>2 DEF SnapshotsCurrent, InFlight
<1>10. RequestsFit'
  <2> SUFFICES ASSUME NEW s \in InFlight(r)
               PROVE  LET req == request'[r][s]
                      IN  \/ /\ req.mode # "incremental"
                             /\ req.window = FullWindow(target[r])
                          \/ /\ req.mode = "incremental"
                             /\ req.window = OverlapWindow(price_bars[s], target[r])
                             /\ \E d \in price_bars[s] : d <= backfill_start
    BY <1>1, <1>2 DEF RequestsFit, InFlight, FullWindow, OverlapWindow
  <2>1. CASE s \in ToReconcile(r)
    BY <1>4, <2>1
  <2>2. CASE s \notin ToReconcile(r)
    <3>1. request'[r][s] = request[r][s]
      BY <1>5, <2>2 DEF InFlight, TypeOK
    <3> QED
      BY <3>1 DEF RequestsFit
  <2> QED
    BY <2>1, <2>2
<1>11. ResponsesFit'
  <2> SUFFICES ASSUME NEW s \in batch[r], response'[r][s].kind = "bars"
               PROVE  LET resp == response'[r][s]
                      IN  /\ price_bars[s] \subseteq resp.published
                          /\ resp.published \subseteq bars[s]
                          /\ resp.known = actions[s] \cap resp.published
                          /\ \A b \in bars[s] \ resp.published, p \in resp.published : p < b
                          /\ resp.rejected = {}
    BY <1>1, <1>2 DEF ResponsesFit
  <2>1. response'[r][s] = response[r][s]
    BY <1>3, <1>4, <1>5
  <2> QED
    BY <2>1 DEF ResponsesFit
<1>12. DetectionDone'
  <2> SUFFICES ASSUME NEW s \in batch[r], request'[r][s].mode = "incremental"
               PROVE  /\ response'[r][s].kind # "none"
                      /\ response'[r][s].kind = "bars" =>
                           \A e \in ActionRows(request'[r][s], response'[r][s]) :
                             e <= sync[s].last_recon
    BY <1>1, <1>2 DEF DetectionDone
  <2>1. s \notin ToReconcile(r)
    BY <1>4
  <2>2. request'[r][s] = request[r][s] /\ response'[r][s] = response[r][s]
    BY <1>3, <1>5, <2>1
  <2>3. response[r][s].kind # "none"
    BY DEF DetectReconciliation, Answered
  <2>4. ASSUME response[r][s].kind = "bars",
               NEW e \in ActionRows(request[r][s], response[r][s])
        PROVE  e <= sync[s].last_recon
    <3>1. ~ (e > sync_states[r][s].last_recon)
      BY <2>1, <2>2, <2>4 DEF ToReconcile, NeedsFullReconciliation
    <3>2. sync_states[r][s].last_recon = sync[s].last_recon
      BY DEF SnapshotsCurrent, InFlight
    <3>3. e \in Int
      BY <1>3 DEF ActionRows, Returned, TypeOK, Response, Dates
    <3>4. sync[s].last_recon \in Int
      BY <1>3 DEF TypeOK, SyncState
    <3> QED
      BY <3>1, <3>2, <3>3, <3>4
  <2> QED
    BY <2>2, <2>3, <2>4
<1>13. StoredActionsApplied' /\ NoInteriorGap' /\ ReconciledActionIsStored'
  BY <1>2 DEF StoredActionsApplied, NoInteriorGap, ReconciledActionIsStored
<1> QED
  BY <1>6, <1>7, <1>8, <1>9, <1>10, <1>11, <1>12, <1>13

(* What one commit does to the rows of one security.  P is what was stored, W
   what is written. *)

\* The facts about an answered request that the commit relies on.
LEMMA WrittenFits ==
    ASSUME TypeOK, SeriesInv, NEW r \in Runs, phase[r] = "recon",
           NEW s \in batch[r], response[r][s].kind = "bars"
    PROVE  LET P == price_bars[s]  W == Written(r, s)  K == response[r][s].known
           IN  /\ W = response[r][s].published \cap request[r][s].window
               /\ P \subseteq response[r][s].published
               /\ response[r][s].published \subseteq bars[s]
               /\ \A d \in bars[s] : \A p \in response[r][s].published :
                    d <= p => d \in response[r][s].published
               /\ K = actions[s] \cap response[r][s].published
               /\ \A d \in W : backfill_start <= d /\ d <= target[r]
               /\ \/ /\ request[r][s].mode # "incremental"
                     /\ request[r][s].window = FullWindow(target[r])
                  \/ /\ request[r][s].mode = "incremental"
                     /\ request[r][s].window = OverlapWindow(P, target[r])
                     /\ \E d \in P : d <= backfill_start
                     /\ \A e \in W \cap K : e <= sync[s].last_recon
<1> USE DEF SeriesInv
<1>0. s \in Securities /\ s \in InFlight(r)
  BY DEF TypeOK, InFlight
<1>1. Written(r, s) = response[r][s].published \cap request[r][s].window
  BY DEF Written, Valid, Returned, ResponsesFit
<1>2. /\ price_bars[s] \subseteq response[r][s].published
      /\ response[r][s].published \subseteq bars[s]
      /\ response[r][s].known = actions[s] \cap response[r][s].published
      /\ \A b \in bars[s] \ response[r][s].published,
            p \in response[r][s].published : p < b
  BY DEF ResponsesFit
<1>3. bars[s] \subseteq Int
  BY <1>0 DEF TypeOK, Dates
<1>4. \A d \in bars[s] : \A p \in response[r][s].published :
         d <= p => d \in response[r][s].published
  BY <1>2, <1>3
<1>5. \/ /\ request[r][s].mode # "incremental"
         /\ request[r][s].window = FullWindow(target[r])
      \/ /\ request[r][s].mode = "incremental"
         /\ request[r][s].window = OverlapWindow(price_bars[s], target[r])
         /\ \E d \in price_bars[s] : d <= backfill_start
  BY <1>0 DEF RequestsFit
<1>6. \A d \in request[r][s].window : backfill_start <= d /\ d <= target[r]
  BY <1>5 DEF OverlapWindow, FullWindow
<1>7. request[r][s].mode = "incremental" =>
        \A e \in Written(r, s) \cap response[r][s].known : e <= sync[s].last_recon
  BY <1>1 DEF DetectionDone, ActionRows, Returned
<1> QED
  BY <1>1, <1>2, <1>4, <1>5, <1>6, <1>7

\* After the commit the series has no interior gap.
LEMMA CommitLeavesNoGap ==
    ASSUME TypeOK, SeriesInv, NEW r \in Runs, phase[r] = "recon",
           NEW s \in batch[r], response[r][s].kind = "bars",
           NEW lo \in price_bars[s] \cup Written(r, s),
           NEW hi \in price_bars[s] \cup Written(r, s),
           NEW d \in bars[s], lo <= d, d <= hi
    PROVE  d \in price_bars[s] \cup Written(r, s)
<1> DEFINE P == price_bars[s]  W == Written(r, s)  pub == response[r][s].published
<1>0. s \in Securities
  BY DEF TypeOK
<1>1. /\ W = pub \cap request[r][s].window
      /\ P \subseteq pub
      /\ pub \subseteq bars[s]
      /\ \A b \in bars[s] : \A p \in pub : b <= p => b \in pub
      /\ \A b \in W : backfill_start <= b /\ b <= target[r]
      /\ \/ /\ request[r][s].mode # "incremental"
            /\ request[r][s].window = FullWindow(target[r])
         \/ /\ request[r][s].mode = "incremental"
            /\ request[r][s].window = OverlapWindow(P, target[r])
            /\ \E b \in P : b <= backfill_start
  BY WrittenFits
<1>2. \A b \in P : backfill_start <= b /\ b <= target[r]
  BY <1>0 DEF SeriesInv, StoredWasPublished, TargetsCoverStored
<1>3. d \in pub
  BY <1>1
<1>4. /\ bars[s] \subseteq Dates
      /\ backfill_start \in Int /\ target[r] \in Int /\ OverlapDays \in Int
      /\ Dates \subseteq Int
  BY <1>0, PriceBarsAssumption DEF TypeOK, Dates
<1>5. /\ d \in Dates /\ d \in Int /\ lo \in Int /\ hi \in Int /\ P \subseteq Int
      /\ backfill_start \in Int /\ target[r] \in Int
  BY <1>1, <1>4
<1> HIDE DEF P, W, pub
<1>6. backfill_start <= d /\ d <= target[r]
  <2>1. backfill_start <= lo /\ hi <= target[r]
    BY <1>1, <1>2 DEF P, W
  <2> QED
    BY <1>5, <2>1
<1>7. d \in FullWindow(target[r])
  BY <1>5, <1>6 DEF FullWindow
<1>8. CASE request[r][s].window = FullWindow(target[r])
  BY <1>1, <1>3, <1>7, <1>8 DEF P, W
<1>9. CASE /\ request[r][s].window = OverlapWindow(P, target[r])
           /\ \E b \in P : b <= backfill_start
  <2>1. CASE \A b \in P : b - OverlapDays <= d
    BY <1>1, <1>3, <1>7, <1>9, <2>1 DEF OverlapWindow, P, W
  <2>2. CASE \E b \in P : ~ (b - OverlapDays <= d)
    <3>1. PICK b \in P : ~ (b - OverlapDays <= d)
      BY <2>2
    <3>2. b \in Int /\ OverlapDays \in Nat
      BY <1>5, PriceBarsAssumption
    <3>3. d <= b
      BY <1>4, <1>5, <3>1, <3>2
    <3>4. PICK p \in P : p <= backfill_start
      BY <1>9
    <3>5. p <= d
      <4>1. p \in Int
        BY <1>5
      <4> QED
        BY <1>5, <1>6, <3>4, <4>1
    <3>6. d \in P
      BY <1>0, <3>3, <3>5 DEF SeriesInv, NoInteriorGap, P
    <3> QED
      BY <3>6 DEF P
  <2> QED
    BY <2>1, <2>2
<1> QED
  BY <1>1, <1>8, <1>9

\* After the commit every row is adjusted for every later action stored.
LEMMA CommitAppliesActions ==
    ASSUME TypeOK, SeriesInv, NEW r \in Runs, phase[r] = "recon",
           NEW s \in batch[r], response[r][s].kind = "bars",
           NEW e \in (price_bars[s] \cup Written(r, s)) \cap actions[s],
           NEW d \in price_bars[s] \cup Written(r, s), d < e
    PROVE  IF d \in Written(r, s) THEN e \in response[r][s].known
           ELSE e \in adjusted[s][d]
<1> DEFINE P == price_bars[s]  W == Written(r, s)  pub == response[r][s].published
           K == response[r][s].known
<1>0. s \in Securities
  BY DEF TypeOK
<1>1. /\ W = pub \cap request[r][s].window
      /\ P \subseteq pub
      /\ pub \subseteq bars[s]
      /\ K = actions[s] \cap pub
      /\ \/ request[r][s].window = FullWindow(target[r])
         \/ \A b \in W \cap K : b <= sync[s].last_recon
  BY WrittenFits
<1>2. /\ bars[s] \subseteq Dates /\ Dates \subseteq Int
      /\ sync[s].last_recon \in Int
      /\ \A b \in Dates : b > 0
  BY <1>0, PriceBarsAssumption DEF TypeOK, Dates, SyncState
<1> HIDE DEF P, W, pub, K
<1>3. CASE d \in W
  BY <1>1, <1>3 DEF P, W, K
<1>4. CASE d \notin W /\ e \in P
  BY <1>0, <1>4 DEF SeriesInv, StoredActionsApplied, P, W
<1>5. CASE d \notin W /\ e \notin P
  <2>1. d \in P /\ e \in W /\ e \in K
    BY <1>1, <1>5 DEF P, W
  <2>2. request[r][s].window # FullWindow(target[r])
    <3>1. backfill_start <= d /\ d <= target[r]
      BY <1>0, <2>1 DEF SeriesInv, StoredWasPublished, TargetsCoverStored, P
    <3>2. d \in FullWindow(target[r])
      BY <1>1, <1>2, <2>1, <3>1 DEF FullWindow
    <3> QED
      BY <1>1, <1>5, <2>1, <3>2
  <2>3. e <= sync[s].last_recon
    BY <1>1, <2>1, <2>2
  <2>4. e \in bars[s] /\ e \in Int /\ d \in Int /\ e > 0
    BY <1>1, <1>2, <2>1
  <2>5. sync[s].last_recon \in P
    BY <1>0, <1>2, <2>3, <2>4 DEF SeriesInv, ReconciledActionIsStored, P
  <2>6. d <= e
    BY <2>4
  <2>7. e \in P
    BY <1>0, <2>1, <2>3, <2>4, <2>5, <2>6 DEF SeriesInv, NoInteriorGap, P
  <2> QED
    BY <1>5, <2>7
<1> QED
  BY <1>3, <1>4, <1>5

\* The reconciliation date after the commit names an action that is stored.
LEMMA CommitRecordsStoredAction ==
    ASSUME TypeOK, SeriesInv, NEW r \in Runs, phase[r] = "recon",
           NEW s \in batch[r], NextSync(r, s).last_recon # 0
    PROVE  NextSync(r, s).last_recon \in (price_bars[s] \cup Written(r, s)) \cap actions[s]
<1> DEFINE st == sync_states[r][s]  R == Written(r, s) \cap response[r][s].known
<1>0. s \in Securities
  BY DEF TypeOK
<1>1. st.last_recon = sync[s].last_recon
  BY DEF SeriesInv, SnapshotsCurrent, InFlight
<1>2. sync[s].last_recon # 0 => sync[s].last_recon \in price_bars[s] \cap actions[s]
  BY <1>0 DEF SeriesInv, ReconciledActionIsStored
<1>3. CASE NextSync(r, s).last_recon = st.last_recon
  BY <1>1, <1>2, <1>3
<1>4. CASE /\ response[r][s].kind = "bars"
           /\ NextSync(r, s).last_recon = LatestOr(R, st.last_recon)
           /\ R # {}
  <2>1. R \subseteq actions[s] /\ R \subseteq Written(r, s)
    BY <1>4, WrittenFits
  <2>2. R \in SUBSET Dates
    BY <1>0, <2>1 DEF TypeOK
  <2> HIDE DEF R
  <2>3. LatestOr(R, st.last_recon) = Max(R) /\ Max(R) \in R
    BY <1>4, <2>2, MaxOfDates DEF LatestOr
  <2> QED
    BY <1>4, <2>1, <2>3
<1>5. st \in SyncState
  BY <1>0 DEF TypeOK
<1>6. SyncFailed(st).last_recon = st.last_recon /\ SyncUnsupported(st).last_recon = st.last_recon
  <2> HIDE DEF st
  <2> QED
    BY <1>5 DEF SyncFailed, SyncUnsupported, SyncState
<1>7. CASE response[r][s].kind = "bars"
  <2>1. Valid(request[r][s], response[r][s]) = Written(r, s)
    BY <1>7 DEF Written
  <2>2. NextSync(r, s) = SyncSucceeded(st, request[r][s], response[r][s], target[r])
    BY <1>7 DEF NextSync
  <2>3. NextSync(r, s).last_recon = IF request[r][s].mode = "full_reconciliation"
                                    THEN LatestOr(R, st.last_recon) ELSE st.last_recon
    BY <2>1, <2>2 DEF SyncSucceeded
  <2>4. R = {} => LatestOr(R, st.last_recon) = st.last_recon
    BY DEF LatestOr
  <2> QED
    BY <1>3, <1>4, <1>7, <2>3, <2>4
<1>8. CASE response[r][s].kind # "bars"
  <2>1. NextSync(r, s) = SyncFailed(st) \/ NextSync(r, s) = SyncUnsupported(st)
    BY <1>8 DEF NextSync
  <2> QED
    BY <1>3, <1>6, <2>1
<1> QED
  BY <1>7, <1>8

LEMMA SeriesPersist ==
    ASSUME TypeOK, SeriesInv, Orderly, NEW r \in Runs, PersistBatch(r)
    PROVE  SeriesInv'
<1> USE DEF SeriesInv, provider, plan
<1>1. \A q \in Runs : q = r
  BY DEF Orderly
<1>2. /\ phase[r] = "recon" /\ phase'[r] = "check"
      /\ batch'[r] = {} /\ pending' = pending /\ target' = target
      /\ coverage' = coverage /\ sync_states' = sync_states /\ request' = request
      /\ bars' = bars /\ actions' = actions /\ watermark' = watermark
      /\ backfill_start' = backfill_start
      /\ \A s \in Securities : response'[r][s].kind = "none"
  BY DEF PersistBatch, TypeOK, NoResponse, Answer
<1>3. \A s \in Securities :
        /\ price_bars'[s] = price_bars[s] \cup Written(r, s)
        /\ sync'[s] = IF s \in batch[r] THEN NextSync(r, s) ELSE sync[s]
        /\ \A d \in Dates : adjusted'[s][d] = IF d \in Written(r, s)
                                              THEN response[r][s].known
                                              ELSE adjusted[s][d]
  BY DEF PersistBatch
<1>4. \A s \in Securities :
        ~ (s \in batch[r] /\ response[r][s].kind = "bars") => Written(r, s) = {}
  BY DEF Written
<1>5. \A s \in batch[r] : response[r][s].kind = "bars" =>
        /\ Written(r, s) \subseteq bars[s]
        /\ \A d \in Written(r, s) : backfill_start <= d /\ d <= target[r]
  BY <1>2, WrittenFits
<1>6. InFlight(r)' \subseteq InFlight(r) \ batch[r]
  BY <1>2 DEF InFlight, RunShape
<1>7. InFlight(r) \subseteq Securities
  BY DEF InFlight, TypeOK
<1>8. \A s \in InFlight(r) \ batch[r] : price_bars'[s] = price_bars[s] /\ sync'[s] = sync[s]
  BY <1>3, <1>4, <1>7
<1>9. StoredWasPublished'
  <2>1. /\ target[r] <= watermark /\ target[r] \in Int /\ watermark \in Int
        /\ \A s \in Securities : bars[s] \subseteq Int
    BY DEF TargetsCoverStored, TypeOK, Dates
  <2>2. \A s \in Securities : \A d \in Written(r, s) :
          d \in bars[s] /\ backfill_start <= d /\ d <= watermark
    BY <1>4, <1>5, <2>1
  <2> QED
    BY <1>2, <1>3, <2>2 DEF StoredWasPublished
<1>10. TargetsCoverStored'
  BY <1>1, <1>2, <1>3, <1>4, <1>5 DEF TargetsCoverStored
<1>11. RunShape'
  BY <1>1, <1>2 DEF RunShape
<1>12. SnapshotsCurrent'
  BY <1>1, <1>2, <1>6, <1>8 DEF SnapshotsCurrent
<1>13. RequestsFit'
  BY <1>1, <1>2, <1>6, <1>8 DEF RequestsFit, FullWindow, OverlapWindow
<1>14. ResponsesFit' /\ DetectionDone'
  BY <1>1, <1>2 DEF ResponsesFit, DetectionDone
<1>15. StoredActionsApplied'
  <2> SUFFICES ASSUME NEW s \in Securities, NEW e \in price_bars'[s] \cap actions[s],
                      NEW d \in price_bars'[s], d < e
               PROVE  e \in adjusted'[s][d]
    BY <1>2 DEF StoredActionsApplied
  <2>1. d \in Dates
    BY <1>3 DEF TypeOK, Written, Valid, Returned, Response
  <2>2. CASE s \in batch[r] /\ response[r][s].kind = "bars"
    BY <1>2, <1>3, <2>1, <2>2, CommitAppliesActions
  <2>3. CASE ~ (s \in batch[r] /\ response[r][s].kind = "bars")
    BY <1>3, <1>4, <2>1, <2>3 DEF StoredActionsApplied
  <2> QED
    BY <2>2, <2>3
<1>16. NoInteriorGap'
  <2> SUFFICES ASSUME NEW s \in Securities, NEW lo \in price_bars'[s], NEW hi \in price_bars'[s],
                      NEW d \in bars[s], lo <= d, d <= hi
               PROVE  d \in price_bars'[s]
    BY <1>2 DEF NoInteriorGap
  <2>1. CASE s \in batch[r] /\ response[r][s].kind = "bars"
    BY <1>2, <1>3, <2>1, CommitLeavesNoGap
  <2>2. CASE ~ (s \in batch[r] /\ response[r][s].kind = "bars")
    BY <1>3, <1>4, <2>2 DEF NoInteriorGap
  <2> QED
    BY <2>1, <2>2
<1>17. ReconciledActionIsStored'
  <2> SUFFICES ASSUME NEW s \in Securities, sync'[s].last_recon # 0
               PROVE  sync'[s].last_recon \in price_bars'[s] \cap actions[s]
    BY <1>2 DEF ReconciledActionIsStored
  <2>1. CASE s \in batch[r]
    BY <1>2, <1>3, <2>1, CommitRecordsStoredAction
  <2>2. CASE s \notin batch[r]
    BY <1>3, <2>2 DEF ReconciledActionIsStored
  <2> QED
    BY <2>1, <2>2
<1> QED
  BY <1>9, <1>10, <1>11, <1>12, <1>13, <1>14, <1>15, <1>16, <1>17

--------------------------------------------------------------------------------
LEMMA SeriesNext == TypeOK /\ SeriesInv /\ Orderly /\ [Next]_vars => SeriesInv'
<1> SUFFICES ASSUME TypeOK, SeriesInv, Orderly, [Next]_vars
             PROVE  SeriesInv'
  OBVIOUS
<1>1. CASE Environment
  <2>1. ~ \E s \in Securities, d \in Dates : PublishLateAction(s, d)
    BY DEF Orderly, PublishLateAction
  <2>2. ASSUME NEW r \in Runs, DatabaseFails(r) \/ Crash(r)
        PROVE  SeriesInv'
    BY <2>2, SeriesLeave DEF DatabaseFails, Crash, LeaveNothing
  <2> QED
    BY <1>1, <2>1, <2>2, SeriesPublish, SeriesAdvance, SeriesRetryDue,
       SeriesLowerBackfill, SeriesWatermarkFails DEF Environment
<1>2. ASSUME NEW r \in Runs, BeginRun(r) \/ RunStep(r)
      PROVE  SeriesInv'
  <2>1. CASE FinishRun(r) \/ AbortRun(r)
    BY <2>1, SeriesLeave DEF FinishRun, AbortRun, LeaveNothing
  <2> QED
    BY <1>2, <2>1, SeriesBegin, SeriesLoadCoverage, SeriesPlan, SeriesTakeBatch,
       SeriesFetch, SeriesDetect, SeriesPersist DEF RunStep
<1>3. CASE UNCHANGED vars
  <2> USE <1>3 DEF SeriesInv, vars, provider, database, plan
  <2>1. StoredWasPublished' /\ TargetsCoverStored' /\ RunShape'
    BY DEF StoredWasPublished, TargetsCoverStored, RunShape
  <2>2. SnapshotsCurrent' /\ RequestsFit' /\ ResponsesFit' /\ DetectionDone'
    BY DEF SnapshotsCurrent, RequestsFit, ResponsesFit, DetectionDone, InFlight,
           FullWindow, OverlapWindow, ActionRows, Returned
  <2>3. StoredActionsApplied' /\ NoInteriorGap' /\ ReconciledActionIsStored'
    BY DEF StoredActionsApplied, NoInteriorGap, ReconciledActionIsStored
  <2> QED
    BY <2>1, <2>2, <2>3
<1> QED
  BY <1>1, <1>2, <1>3 DEF Next

\* Runs that do not overlap keep every stored series free of interior gaps and
\* adjusted for each corporate action it contains, through failures, rollbacks,
\* crashes, retries and a lengthened history.
THEOREM SeriesCorrect == Orderly /\ Spec => []SeriesInv
<1>1. Orderly /\ [Next]_vars => Orderly'
  BY DEF Orderly
<1>2. TypeOK /\ SeriesInv /\ Orderly /\ [Next]_vars => SeriesInv'
  BY SeriesNext
<1> QED
  BY <1>1, <1>2, SeriesInit, TypeInit, TypeCorrect, PTL DEF Spec

\* A split or a dividend never reaches only half of a stored series.
THEOREM ActionsApplied == Orderly /\ Spec => []StoredActionsApplied
<1>1. SeriesInv => StoredActionsApplied
  BY DEF SeriesInv
<1> QED
  BY <1>1, SeriesCorrect, PTL

\* A stored series has no interior gap.
THEOREM NoGap == Orderly /\ Spec => []NoInteriorGap
<1>1. SeriesInv => NoInteriorGap
  BY DEF SeriesInv
<1> QED
  BY <1>1, SeriesCorrect, PTL

\* The date up to which reconciliation is suppressed is that of a stored action.
THEOREM ReconciledStored == Orderly /\ Spec => []ReconciledActionIsStored
<1>1. SeriesInv => ReconciledActionIsStored
  BY DEF SeriesInv
<1> QED
  BY <1>1, SeriesCorrect, PTL

\* No incremental response that is about to be committed reveals an action that
\* a stored row was not adjusted for.
THEOREM RevealedCorrect == Orderly /\ Spec => []RevealedActionsReconciled
<1>1. TypeOK /\ SeriesInv => RevealedActionsReconciled
  <2> SUFFICES ASSUME TypeOK, SeriesInv, NEW r \in Runs, phase[r] = "recon",
                      NEW s \in batch[r], response[r][s].kind = "bars",
                      NEW e \in ActionRows(request[r][s], response[r][s]),
                      NEW d \in price_bars[s] \ Written(r, s), d < e
               PROVE  e \in adjusted[s][d]
    BY DEF RevealedActionsReconciled
  <2>1. e \in (price_bars[s] \cup Written(r, s)) \cap actions[s]
    BY WrittenFits DEF ActionRows, Returned
  <2> QED
    BY <2>1, CommitAppliesActions
<1> QED
  BY <1>1, SeriesCorrect, TypeCorrect, PTL
--------------------------------------------------------------------------------
(***************************************************************************)
(* The dates of a sync state, for any number of runs that overlap.         *)
(***************************************************************************)

\* What a sync state names is stored; acts are the known corporate actions.
Names(state, rows, acts) ==
    /\ state.last_recon # 0 => state.last_recon \in rows \cap acts
    /\ state.latest_stored # 0 => state.latest_stored \in rows

\* The states the runs have loaded name stored rows as well, which they will
\* write back later, and answers only know actions the provider still knows.
DatesInv ==
    \A s \in Securities :
      /\ Names(sync[s], price_bars[s], actions[s])
      /\ \A r \in Runs : /\ Names(sync_states[r][s], price_bars[s], actions[s])
                         /\ response[r][s].known \subseteq actions[s]

LEMMA NamesGrows ==
    ASSUME NEW state, NEW R1, NEW R2, NEW A1, NEW A2,
           Names(state, R1, A1), R1 \subseteq R2, A1 \subseteq A2
    PROVE  Names(state, R2, A2)
  BY DEF Names

LEMMA NeverSyncedNames ==
    ASSUME NEW R1, NEW A1 PROVE Names(NeverSynced, R1, A1)
  BY DEF Names, NeverSynced

\* Rows and actions are never removed.
LEMMA RowsStay ==
    ASSUME TypeOK, [Next]_vars, NEW s \in Securities
    PROVE  price_bars[s] \subseteq price_bars'[s] /\ actions[s] \subseteq actions'[s]
<1>1. CASE UNCHANGED vars
  BY <1>1 DEF vars, database, provider
<1>2. CASE Environment
  <2>1. ASSUME NEW t \in Securities, NEW d \in Dates, PublishBar(t, d)
        PROVE  price_bars' = price_bars /\ actions[s] \subseteq actions'[s]
    <3>1. price_bars' = price_bars
      BY <2>1 DEF PublishBar, database
    <3>2. actions' = actions \/ actions' = [actions EXCEPT ![t] = actions[t] \cup {d}]
      BY <2>1 DEF PublishBar
    <3>3. actions[s] \subseteq actions'[s]
      <4>1. DOMAIN actions = Securities
        BY DEF TypeOK
      <4>2. CASE actions' = actions
        BY <4>2
      <4>3. CASE actions' = [actions EXCEPT ![t] = actions[t] \cup {d}]
        BY <4>1, <4>3
      <4> QED
        BY <3>2, <4>2, <4>3
    <3> QED
      BY <3>1, <3>3
  <2>2. ASSUME NEW t \in Securities, NEW d \in Dates, PublishLateAction(t, d)
        PROVE  price_bars' = price_bars /\ actions[s] \subseteq actions'[s]
    BY <2>2 DEF PublishLateAction, TypeOK, database
  <2>3. CASE AdvanceWatermark
    BY <2>3 DEF AdvanceWatermark, database
  <2>4. ASSUME NEW t \in Securities, RetryDue(t)
        PROVE  price_bars' = price_bars /\ actions' = actions
    BY <2>4 DEF RetryDue, provider
  <2>5. CASE LowerBackfill
    BY <2>5 DEF LowerBackfill, provider, database
  <2>6. ASSUME NEW r \in Runs, WatermarkFails(r) \/ DatabaseFails(r) \/ Crash(r)
        PROVE  price_bars' = price_bars /\ actions' = actions
    BY <2>6 DEF WatermarkFails, DatabaseFails, Crash, Leave, LeaveNothing, provider, database
  <2> QED
    BY <1>2, <2>1, <2>2, <2>3, <2>4, <2>5, <2>6 DEF Environment
<1>3. ASSUME NEW r \in Runs, BeginRun(r) \/ RunStep(r)
      PROVE  price_bars[s] \subseteq price_bars'[s] /\ actions[s] \subseteq actions'[s]
  <2>1. CASE PersistBatch(r)
    BY <2>1 DEF PersistBatch, provider
  <2>2. CASE ~PersistBatch(r)
    BY <1>3, <2>2 DEF RunStep, BeginRun, LoadCoverage, PlanRequests, TakeBatch, Fetch,
         DetectReconciliation, FinishRun, AbortRun, Leave, LeaveNothing, database, provider
  <2> QED
    BY <2>1, <2>2
<1> QED
  BY <1>1, <1>2, <1>3 DEF Next

\* What PersistBatch records names rows that it writes or that were stored.
LEMMA NextSyncNames ==
    ASSUME TypeOK, DatesInv, NEW r \in Runs, PersistBatch(r), NEW s \in batch[r]
    PROVE  Names(NextSync(r, s), price_bars'[s], actions'[s])
<1> DEFINE st == sync_states[r][s]
           req == request[r][s]
           resp == response[r][s]
<1>1. /\ s \in Securities /\ st \in SyncState /\ resp \in Response
      /\ req.window \in SUBSET Dates
  BY DEF TypeOK
<1>2. /\ price_bars'[s] = price_bars[s] \cup Written(r, s)
      /\ actions' = actions
  BY <1>1 DEF PersistBatch, provider
<1>3. Names(st, price_bars'[s], actions'[s])
  BY <1>1, <1>2, NamesGrows DEF DatesInv
<1>4. CASE resp.kind = "bars"
  <2> DEFINE rows == Valid(req, resp)
             next == SyncSucceeded(st, req, resp, target[r])
  <2>1. NextSync(r, s) = next
    BY <1>4 DEF NextSync
  <2>2. rows \in SUBSET Dates /\ rows \subseteq price_bars'[s]
    BY <1>1, <1>2, <1>4 DEF Written, Valid, Returned, Response
  <2>3. rows \cap resp.known \subseteq price_bars'[s] \cap actions'[s]
    BY <1>1, <1>2, <2>2 DEF DatesInv
  <2>4. LatestOr(rows, st.latest_stored) \in rows \cup {st.latest_stored}
    BY <2>2, MaxOfDates DEF LatestOr
  <2>5. LatestOr(rows \cap resp.known, st.last_recon)
          \in (rows \cap resp.known) \cup {st.last_recon}
    <3>1. rows \cap resp.known \in SUBSET Dates
      BY <2>2
    <3> QED
      BY <3>1, MaxOfDates DEF LatestOr
  <2>6. /\ next.latest_stored = LatestOr(rows, st.latest_stored)
        /\ next.last_recon \in {LatestOr(rows \cap resp.known, st.last_recon), st.last_recon}
    BY DEF SyncSucceeded
  <2> HIDE DEF rows, next, st, resp
  <2> QED
    BY <1>3, <2>1, <2>2, <2>3, <2>4, <2>5, <2>6 DEF Names
<1>5. CASE resp.kind = "not_found"
  <2>1. NextSync(r, s) = SyncUnsupported(st)
    BY <1>5 DEF NextSync
  <2>2. /\ SyncUnsupported(st).last_recon = st.last_recon
        /\ SyncUnsupported(st).latest_stored = st.latest_stored
    BY <1>1 DEF SyncUnsupported, SyncState
  <2> QED
    BY <1>3, <2>1, <2>2 DEF Names
<1>6. CASE resp.kind \notin {"bars", "not_found"}
  <2>1. NextSync(r, s) = SyncFailed(st)
    BY <1>6 DEF NextSync
  <2>2. /\ SyncFailed(st).last_recon = st.last_recon
        /\ SyncFailed(st).latest_stored = st.latest_stored
    BY <1>1 DEF SyncFailed, SyncState
  <2> QED
    BY <1>3, <2>1, <2>2 DEF Names
<1> QED
  BY <1>4, <1>5, <1>6

\* Only a due retry and a commit touch a sync state.
LEMMA SyncStepCases ==
    ASSUME [Next]_vars
    PROVE  \/ sync' = sync
           \/ \E t \in Securities : RetryDue(t)
           \/ \E r \in Runs : PersistBatch(r)
BY DEF Next, Environment, RunStep, BeginRun, LoadCoverage, PlanRequests, TakeBatch, Fetch,
     DetectReconciliation, FinishRun, AbortRun, PublishBar, PublishLateAction,
     AdvanceWatermark, LowerBackfill, WatermarkFails, DatabaseFails, Crash, Leave, LeaveNothing,
     database, vars

\* The state of a security is left alone, due again, or recorded by a batch.
LEMMA SyncChanges ==
    ASSUME TypeOK, DatesInv, [Next]_vars, NEW s \in Securities
    PROVE  Names(sync'[s], price_bars'[s], actions'[s])
<1>1. Names(sync[s], price_bars'[s], actions'[s])
  BY RowsStay, NamesGrows DEF DatesInv
<1>2. CASE sync' = sync
  BY <1>1, <1>2
<1>3. ASSUME NEW t \in Securities, RetryDue(t)
      PROVE  Names(sync'[s], price_bars'[s], actions'[s])
  <2>1. sync[s] \in SyncState
    BY DEF TypeOK
  <2>2. sync'[s].last_recon = sync[s].last_recon /\ sync'[s].latest_stored = sync[s].latest_stored
    BY <1>3, <2>1 DEF RetryDue, TypeOK, SyncState
  <2> QED
    BY <1>1, <2>2 DEF Names
<1>4. ASSUME NEW r \in Runs, PersistBatch(r)
      PROVE  Names(sync'[s], price_bars'[s], actions'[s])
  <2>1. CASE s \in batch[r]
    BY <1>4, <2>1, NextSyncNames DEF PersistBatch
  <2>2. CASE s \notin batch[r]
    BY <1>1, <1>4, <2>2 DEF PersistBatch
  <2> QED
    BY <2>1, <2>2
<1> QED
  BY <1>2, <1>3, <1>4, SyncStepCases

\* A loaded state is what was stored, and an answer is what the provider knows.
LEMMA LoadedChanges ==
    ASSUME TypeOK, DatesInv, [Next]_vars, NEW s \in Securities, NEW q \in Runs
    PROVE  /\ Names(sync_states'[q][s], price_bars'[s], actions'[s])
           /\ response'[q][s].known \subseteq actions'[s]
<1>1. /\ Names(sync_states[q][s], price_bars'[s], actions'[s])
      /\ Names(sync[s], price_bars'[s], actions'[s])
      /\ Names(NeverSynced, price_bars'[s], actions'[s])
      /\ response[q][s].known \subseteq actions'[s]
      /\ actions[s] \subseteq actions'[s]
  BY RowsStay, NamesGrows, NeverSyncedNames DEF DatesInv
<1>2. CASE sync_states' = sync_states /\ response' = response
  BY <1>1, <1>2
<1>3. NoResponse.known = {}
  BY DEF NoResponse, Answer
<1>4. ASSUME NEW r \in Runs, Leave(r)
      PROVE  /\ Names(sync_states'[q][s], price_bars'[s], actions'[s])
             /\ response'[q][s].known \subseteq actions'[s]
  <2>1. /\ sync_states'[q] = IF q = r THEN [x \in Securities |-> NeverSynced]
                              ELSE sync_states[q]
        /\ response'[q] = IF q = r THEN [x \in Securities |-> NoResponse]
                           ELSE response[q]
    BY <1>4 DEF Leave, TypeOK
  <2>2. CASE q = r
    BY <1>1, <1>3, <2>1, <2>2
  <2>3. CASE q # r
    BY <1>1, <2>1, <2>3
  <2> QED
    BY <2>2, <2>3
<1>5. ASSUME NEW r \in Runs, PlanRequests(r)
      PROVE  /\ Names(sync_states'[q][s], price_bars'[s], actions'[s])
             /\ response'[q][s].known \subseteq actions'[s]
  <2>1. /\ sync_states'[q] = IF q = r THEN sync ELSE sync_states[q]
        /\ response' = response
    BY <1>5 DEF PlanRequests, TypeOK
  <2>2. CASE q = r
    BY <1>1, <2>1, <2>2
  <2>3. CASE q # r
    BY <1>1, <2>1, <2>3
  <2> QED
    BY <2>2, <2>3
<1>6. ASSUME NEW r \in Runs, NEW t \in Securities, Fetch(r, t)
      PROVE  /\ Names(sync_states'[q][s], price_bars'[s], actions'[s])
             /\ response'[q][s].known \subseteq actions'[s]
  <2>1. sync_states' = sync_states
    BY <1>6 DEF Fetch, plan
  <2>2. \E resp : /\ response' = [response EXCEPT ![r][t] = resp]
                  /\ resp.known \subseteq actions[t]
    <3>1. CASE \E kind \in {"error", "not_found"} :
                 response' = [response EXCEPT ![r][t] = Answer(kind)]
      <4>1. PICK kind \in {"error", "not_found"} :
              response' = [response EXCEPT ![r][t] = Answer(kind)]
        BY <3>1
      <4>2. Answer(kind).known \subseteq actions[t]
        BY DEF Answer
      <4> QED
        BY <4>1, <4>2
    <3>2. CASE \E bad \in SUBSET Dates :
                 response' = [response EXCEPT ![r][t] =
                   [kind |-> "bars", published |-> bars[t], known |-> actions[t],
                    rejected |-> bad]]
      <4> DEFINE resp(bad) == [kind |-> "bars", published |-> bars[t],
                               known |-> actions[t], rejected |-> bad]
      <4>1. PICK bad \in SUBSET Dates :
              response' = [response EXCEPT ![r][t] = resp(bad)]
        BY <3>2
      <4>2. resp(bad).known \subseteq actions[t]
        OBVIOUS
      <4> QED
        BY <4>1, <4>2
    <3> QED
      BY <1>6, <3>1, <3>2 DEF Fetch
  <2> QED
    BY <1>1, <2>1, <2>2 DEF TypeOK
<1>7. ASSUME NEW r \in Runs, DetectReconciliation(r) \/ PersistBatch(r)
      PROVE  /\ Names(sync_states'[q][s], price_bars'[s], actions'[s])
             /\ response'[q][s].known \subseteq actions'[s]
  <2>1. sync_states' = sync_states
    BY <1>7 DEF DetectReconciliation, PersistBatch, plan
  <2>2. response'[q][s].known \in {response[q][s].known, {}}
    <3>1. PICK f \in [Securities -> Response] :
            /\ response' = [response EXCEPT ![r] = f]
            /\ \A x \in Securities : f[x] = NoResponse \/ f[x] = response[r][x]
      <4>1. CASE DetectReconciliation(r)
        <5> DEFINE f == [x \in Securities |->
                          IF x \in ToReconcile(r) THEN NoResponse ELSE response[r][x]]
        <5>1. f \in [Securities -> Response]
          BY DEF TypeOK, NoResponse, Answer, Response
        <5>2. response' = [response EXCEPT ![r] = f]
          BY <4>1 DEF DetectReconciliation
        <5> QED
          BY <5>1, <5>2
      <4>2. CASE PersistBatch(r)
        <5> DEFINE f == [x \in Securities |-> NoResponse]
        <5>1. f \in [Securities -> Response]
          BY DEF NoResponse, Answer, Response
        <5>2. response' = [response EXCEPT ![r] = f]
          BY <4>2 DEF PersistBatch
        <5> QED
          BY <5>1, <5>2
      <4> QED
        BY <1>7, <4>1, <4>2
    <3>2. response'[q] = IF q = r THEN f ELSE response[q]
      BY <3>1 DEF TypeOK
    <3> QED
      BY <1>3, <3>1, <3>2
  <2> QED
    BY <1>1, <2>1, <2>2
<1>8. \/ sync_states' = sync_states /\ response' = response
      \/ \E r \in Runs : \/ Leave(r) \/ PlanRequests(r)
                         \/ DetectReconciliation(r) \/ PersistBatch(r)
                         \/ \E t \in Securities : Fetch(r, t)
  BY DEF Next, Environment, RunStep, BeginRun, LoadCoverage, TakeBatch, FinishRun, AbortRun,
       PublishBar, PublishLateAction, AdvanceWatermark, RetryDue, LowerBackfill,
       WatermarkFails, DatabaseFails, Crash, LeaveNothing, plan, vars
<1> QED
  BY <1>2, <1>4, <1>5, <1>6, <1>7, <1>8

\* The dates a sync state records name stored rows, whatever runs overlap, rows
\* are rejected and actions are published late.
THEOREM DatesStored == Spec => []SyncDatesAreStored
<1>1. Init => DatesInv
  BY NeverSyncedNames DEF Init, DatesInv, NoResponse, Answer
<1>2. TypeOK /\ DatesInv /\ [Next]_vars => DatesInv'
  BY SyncChanges, LoadedChanges DEF DatesInv
<1>3. DatesInv => SyncDatesAreStored
  BY DEF DatesInv, Names, SyncDatesAreStored, ReconciledActionIsStored
<1> QED
  BY <1>1, <1>2, <1>3, TypeCorrect, PTL DEF Spec
--------------------------------------------------------------------------------
(***************************************************************************)
(* What the phases of a run say of its batches, for any number of runs that  *)
(* overlap.                                                                *)
(***************************************************************************)

\* p, status, pend and bat are a run's phase, status, pending and batch.
Shape(p, status, pend, bat) ==
    /\ p # "idle" => status = "running"
    /\ p \notin {"fetch", "recon"} => bat = {}
    /\ p \in {"idle", "coverage", "plan"} => pend = {}
    /\ pend \cap bat = {}

ShapeInv == \A r \in Runs : Shape(phase[r], run_status[r], pending[r], batch[r])

LEMMA ShapeStep ==
    ASSUME TypeOK, ShapeInv, NEW r \in Runs,
           WatermarkFails(r) \/ DatabaseFails(r) \/ Crash(r) \/ BeginRun(r) \/ RunStep(r)
    PROVE  ShapeInv'
<1>1. ASSUME NEW q \in Runs, q # r
      PROVE  /\ phase'[q] = phase[q] /\ run_status'[q] = run_status[q]
             /\ pending'[q] = pending[q] /\ batch'[q] = batch[q]
  BY <1>1 DEF WatermarkFails, DatabaseFails, Crash, BeginRun, RunStep, LoadCoverage,
       PlanRequests, TakeBatch, Fetch, DetectReconciliation, PersistBatch, FinishRun,
       AbortRun, Leave, LeaveNothing, TypeOK
<1>2. Shape(phase[r], run_status[r], pending[r], batch[r])
  BY DEF ShapeInv
<1>3. Shape(phase'[r], run_status'[r], pending'[r], batch'[r])
  <2>1. CASE WatermarkFails(r) \/ BeginRun(r) \/ LoadCoverage(r)
    BY <1>2, <2>1 DEF WatermarkFails, BeginRun, LoadCoverage, Shape, TypeOK
  <2>2. CASE PlanRequests(r) \/ PersistBatch(r)
    BY <1>2, <2>2 DEF PlanRequests, PersistBatch, Shape, TypeOK
  <2>3. CASE TakeBatch(r)
    BY <1>2, <2>3 DEF TakeBatch, Shape, TypeOK
  <2>4. CASE (\E s \in Securities : Fetch(r, s)) \/ DetectReconciliation(r)
    BY <1>2, <2>4 DEF Fetch, DetectReconciliation, Shape, TypeOK
  <2>5. CASE FinishRun(r) \/ AbortRun(r) \/ DatabaseFails(r) \/ Crash(r)
    BY <2>5 DEF FinishRun, AbortRun, DatabaseFails, Crash, Leave, LeaveNothing, Shape, TypeOK
  <2> QED
    BY <2>1, <2>2, <2>3, <2>4, <2>5 DEF RunStep
<1> QED
  BY <1>1, <1>3 DEF ShapeInv

LEMMA ShapeNext == TypeOK /\ ShapeInv /\ [Next]_vars => ShapeInv'
<1> SUFFICES ASSUME TypeOK, ShapeInv, [Next]_vars PROVE ShapeInv'
  OBVIOUS
<1>1. CASE /\ phase' = phase /\ run_status' = run_status
           /\ pending' = pending /\ batch' = batch
  BY <1>1 DEF ShapeInv
<1>2. ASSUME NEW r \in Runs,
             WatermarkFails(r) \/ DatabaseFails(r) \/ Crash(r) \/ BeginRun(r) \/ RunStep(r)
      PROVE  ShapeInv'
  BY <1>2, ShapeStep
<1> QED
  BY <1>1, <1>2 DEF Next, Environment, PublishBar, PublishLateAction, AdvanceWatermark,
       RetryDue, LowerBackfill, vars

LEMMA ShapeCorrect == Spec => []ShapeInv
<1>1. Init => ShapeInv
  BY DEF Init, ShapeInv, Shape
<1> QED
  BY <1>1, ShapeNext, TypeCorrect, PTL DEF Spec
--------------------------------------------------------------------------------
(***************************************************************************)
(* What a run and the sync states say of each other, when runs do not      *)
(* overlap: a second run may write older states back.                      *)
(***************************************************************************)

OneRun == \A r1, r2 \in Runs : r1 = r2

SameProgress(state1, state2) ==
    /\ state1.checked_through = state2.checked_through
    /\ state1.latest_stored = state2.latest_stored
    /\ state1.last_recon = state2.last_recon

CheckedUpTo(state, end) ==
    state.status = "succeeded" => state.checked_through >= end

\* The loaded states of the securities that are still to be persisted are up to
\* date, and the others have been checked up to the target.
ProgressInv ==
    \A r \in Runs, s \in Securities :
      /\ s \in InFlight(r) => SameProgress(sync_states[r][s], sync[s])
      /\ phase[r] \in {"check", "fetch", "recon"} /\ s \notin InFlight(r)
           => CheckedUpTo(sync[s], target[r])
      /\ run_status[r] = "succeeded" => CheckedUpTo(sync[s], target[r])

\* A due retry leaves all that ProgressInv looks at.
LEMMA RetryDueKeeps ==
    ASSUME TypeOK, NEW t \in Securities, RetryDue(t), NEW s \in Securities
    PROVE  SameProgress(sync'[s], sync[s]) /\ sync'[s].status = sync[s].status
<1>1. sync[s] \in SyncState
  BY DEF TypeOK
<1> QED
  BY <1>1 DEF RetryDue, TypeOK, SyncState, SameProgress

\* A commit records a success at the target date, or a failure that keeps the
\* loaded state's dates.
LEMMA NextSyncProgress ==
    ASSUME TypeOK, NEW r \in Runs, NEW s \in Securities
    PROVE  /\ CheckedUpTo(NextSync(r, s), target[r])
           /\ response[r][s].kind = "bars" => NextSync(r, s).status = "succeeded"
           /\ response[r][s].kind # "bars" => SameProgress(NextSync(r, s), sync_states[r][s])
<1>1. sync_states[r][s] \in SyncState /\ target[r] \in Int
  BY PriceBarsAssumption DEF TypeOK
<1>2. CASE response[r][s].kind = "bars"
  BY <1>1, <1>2 DEF NextSync, SyncSucceeded, CheckedUpTo
<1>3. CASE response[r][s].kind # "bars"
  <2>1. NextSync(r, s) \in {SyncUnsupported(sync_states[r][s]), SyncFailed(sync_states[r][s])}
    BY <1>3 DEF NextSync
  <2>2. SameProgress(NextSync(r, s), sync_states[r][s])
    BY <1>1, <2>1 DEF SyncUnsupported, SyncFailed, SyncState, SameProgress
  <2>3. NextSync(r, s).status \in {"unsupported", "failed"}
    BY <1>1, <2>1 DEF SyncUnsupported, SyncFailed, SyncState
  <2> QED
    BY <1>3, <2>2, <2>3 DEF CheckedUpTo
<1> QED
  BY <1>2, <1>3

LEMMA ProgressPersist ==
    ASSUME TypeOK, ShapeInv, ProgressInv, OneRun, NEW r \in Runs, PersistBatch(r)
    PROVE  ProgressInv'
<1>1. /\ phase[r] = "recon" /\ target' = target /\ sync_states' = sync_states
      /\ run_status' = run_status /\ pending' = pending /\ batch'[r] = {}
      /\ \A s \in Securities : sync'[s] = IF s \in batch[r] THEN NextSync(r, s) ELSE sync[s]
  BY DEF PersistBatch, TypeOK, plan
<1>2. run_status[r] = "running" /\ pending[r] \cap batch[r] = {}
  BY <1>1 DEF ShapeInv, Shape
<1>3. InFlight(r) = pending[r] \cup batch[r] /\ InFlight(r)' = pending[r]
  BY <1>1 DEF InFlight
<1>4. ASSUME NEW s \in Securities
      PROVE  /\ s \in InFlight(r)' => SameProgress(sync_states'[r][s], sync'[s])
             /\ s \notin InFlight(r)' => CheckedUpTo(sync'[s], target'[r])
  <2>1. CASE s \in batch[r]
    BY <1>1, <1>2, <1>3, <2>1, NextSyncProgress
  <2>2. CASE s \notin batch[r]
    BY <1>1, <1>3, <2>2 DEF ProgressInv
  <2> QED
    BY <2>1, <2>2
<1> QED
  BY <1>1, <1>2, <1>4 DEF ProgressInv, OneRun

LEMMA ProgressRun ==
    ASSUME TypeOK, ShapeInv, ProgressInv, OneRun, NEW r \in Runs,
           WatermarkFails(r) \/ DatabaseFails(r) \/ Crash(r) \/ BeginRun(r) \/ RunStep(r)
    PROVE  ProgressInv'
<1>1. CASE PersistBatch(r)
  BY <1>1, ProgressPersist
<1>2. CASE PlanRequests(r)
  <2> DEFINE sk == {s \in Securities : Skipped(sync[s], target[r])}
  <2>1. /\ phase[r] = "plan" /\ run_status' = run_status /\ sync' = sync
        /\ target' = target /\ sync_states'[r] = sync /\ batch' = batch
        /\ pending'[r] = Securities \ sk
    BY <1>2 DEF PlanRequests, TypeOK, database
  <2>2. batch[r] = {} /\ run_status[r] = "running"
    BY <2>1 DEF ShapeInv, Shape
  <2>3. \A s \in sk : CheckedUpTo(sync[s], target[r])
    BY DEF Skipped, AlreadyCurrent, RetryDeferred, CheckedUpTo
  <2>4. InFlight(r)' = Securities \ sk
    BY <2>1, <2>2 DEF InFlight
  <2> QED
    BY <2>1, <2>2, <2>3, <2>4 DEF ProgressInv, SameProgress, OneRun
<1>3. CASE ~PersistBatch(r) /\ ~PlanRequests(r)
  <2>1. sync' = sync
    BY <1>3 DEF WatermarkFails, DatabaseFails, Crash, BeginRun, RunStep, LoadCoverage,
         TakeBatch, Fetch, DetectReconciliation, FinishRun, AbortRun, Leave, LeaveNothing, database
  <2>2. CASE BeginRun(r) \/ LoadCoverage(r)
    <3>1. /\ phase'[r] \in {"coverage", "plan"} /\ run_status'[r] = "running"
          /\ pending' = pending /\ batch' = batch /\ sync_states' = sync_states
      BY <2>2 DEF BeginRun, LoadCoverage, ShapeInv, Shape, TypeOK
    <3> QED
      BY <2>1, <3>1 DEF ProgressInv, OneRun, InFlight
  <2>3. CASE TakeBatch(r)
    <3>1. PICK b \in SUBSET pending[r] :
            batch' = [batch EXCEPT ![r] = b] /\ pending' = [pending EXCEPT ![r] = @ \ b]
      BY <2>3 DEF TakeBatch
    <3>2. /\ phase[r] = "check" /\ run_status' = run_status
          /\ target' = target /\ sync_states' = sync_states
      BY <2>3 DEF TakeBatch, plan
    <3>3. batch[r] = {}
      BY <3>2 DEF ShapeInv, Shape
    <3>4. InFlight(r)' = InFlight(r)
      BY <3>1, <3>3 DEF InFlight, TypeOK
    <3> QED
      BY <2>1, <3>2, <3>4 DEF ProgressInv, OneRun
  <2>4. CASE (\E s \in Securities : Fetch(r, s)) \/ DetectReconciliation(r)
    <3>1. /\ phase[r] \in {"fetch", "recon"} /\ run_status' = run_status
          /\ target' = target /\ sync_states' = sync_states
          /\ pending' = pending /\ batch' = batch
      BY <2>4 DEF Fetch, DetectReconciliation, plan
    <3> QED
      BY <2>1, <3>1 DEF ProgressInv, OneRun, InFlight
  <2>5. CASE WatermarkFails(r)
    <3>1. /\ phase' = phase /\ run_status'[r] = "failed" /\ target' = target
          /\ sync_states' = sync_states /\ pending' = pending /\ batch' = batch
      BY <2>5 DEF WatermarkFails, plan, TypeOK
    <3> QED
      BY <2>1, <3>1 DEF ProgressInv, OneRun, InFlight
  <2>6. CASE FinishRun(r) \/ AbortRun(r) \/ DatabaseFails(r) \/ Crash(r)
    <3>1. /\ phase'[r] = "idle" /\ pending'[r] = {} /\ batch'[r] = {} /\ target' = target
      BY <2>6 DEF FinishRun, AbortRun, DatabaseFails, Crash, Leave, LeaveNothing, TypeOK
    <3>2. CASE FinishRun(r)
      <4>1. phase[r] = "check" /\ pending[r] = {} /\ batch[r] = {}
        BY <3>2 DEF FinishRun, ShapeInv, Shape
      <4>2. \A s \in Securities : CheckedUpTo(sync[s], target[r])
        BY <4>1 DEF ProgressInv, InFlight
      <4> QED
        BY <2>1, <3>1, <4>2 DEF ProgressInv, OneRun, InFlight
    <3>3. CASE ~FinishRun(r)
      <4>1. run_status'[r] \in {run_status[r], "failed"}
        BY <2>6, <3>3 DEF DatabaseFails, Crash, AbortRun, TypeOK
      <4> QED
        BY <2>1, <3>1, <4>1 DEF ProgressInv, OneRun, InFlight
    <3> QED
      BY <3>2, <3>3
  <2> QED
    BY <1>3, <2>2, <2>3, <2>4, <2>5, <2>6 DEF RunStep
<1> QED
  BY <1>1, <1>2, <1>3

LEMMA ProgressNext == TypeOK /\ ShapeInv /\ ProgressInv /\ OneRun /\ [Next]_vars => ProgressInv'
<1> SUFFICES ASSUME TypeOK, ShapeInv, ProgressInv, OneRun, [Next]_vars
             PROVE  ProgressInv'
  OBVIOUS
<1>1. ASSUME NEW t \in Securities, RetryDue(t) PROVE ProgressInv'
  <2>1. /\ phase' = phase /\ run_status' = run_status /\ target' = target
        /\ sync_states' = sync_states /\ pending' = pending /\ batch' = batch
    BY <1>1 DEF RetryDue, plan
  <2>2. \A s \in Securities :
          SameProgress(sync'[s], sync[s]) /\ sync'[s].status = sync[s].status
    BY <1>1, RetryDueKeeps
  <2> QED
    BY <2>1, <2>2 DEF ProgressInv, InFlight, SameProgress, CheckedUpTo
<1>2. CASE /\ phase' = phase /\ run_status' = run_status /\ target' = target
           /\ sync_states' = sync_states /\ pending' = pending /\ batch' = batch
           /\ sync' = sync
  BY <1>2 DEF ProgressInv, InFlight
<1>3. ASSUME NEW r \in Runs,
             WatermarkFails(r) \/ DatabaseFails(r) \/ Crash(r) \/ BeginRun(r) \/ RunStep(r)
      PROVE  ProgressInv'
  BY <1>3, ProgressRun
<1> QED
  BY <1>1, <1>2, <1>3 DEF Next, Environment, PublishBar, PublishLateAction, AdvanceWatermark,
       LowerBackfill, vars, database, plan

LEMMA ProgressCorrect == OneRun /\ Spec => []ProgressInv
<1>1. Init => ProgressInv
  BY DEF Init, ProgressInv, InFlight
<1>2. OneRun /\ [Next]_vars => OneRun'
  BY DEF OneRun
<1> QED
  BY <1>1, <1>2, ProgressNext, ShapeCorrect, TypeCorrect, PTL DEF Spec

\* After a run that is marked succeeded no security is recorded as succeeded
\* but behind the run's target date.
THEOREM NoneLeftBehind == OneRun /\ Spec => []SucceededRunLeavesNoneBehind
<1>1. ProgressInv => SucceededRunLeavesNoneBehind
  BY DEF ProgressInv, CheckedUpTo, SucceededRunLeavesNoneBehind
<1> QED
  BY <1>1, ProgressCorrect, PTL

\* A failed or an unsupported outcome loses nothing that earlier successes have
\* recorded: the dates, the rows and their adjustments stay.
THEOREM ProgressIsKept == OneRun /\ Spec => FailureKeepsProgress
<1> DEFINE Keeps(s) ==
             /\ sync'[s].checked_through = sync[s].checked_through
             /\ sync'[s].last_recon = sync[s].last_recon
             /\ sync'[s].latest_stored = sync[s].latest_stored
             /\ price_bars'[s] = price_bars[s]
             /\ adjusted'[s] = adjusted[s]
           Step == \A s \in Securities :
                     sync'[s].status \in {"failed", "unsupported"} => Keeps(s)
<1>1. TypeOK /\ ProgressInv /\ [Next]_vars => Step
  <2> SUFFICES ASSUME TypeOK, ProgressInv, [Next]_vars, NEW s \in Securities,
                      sync'[s].status \in {"failed", "unsupported"}
               PROVE  Keeps(s)
    OBVIOUS
  <2>1. ASSUME NEW r \in Runs, PersistBatch(r) PROVE Keeps(s)
    <3>1. /\ price_bars'[s] = price_bars[s] \cup Written(r, s)
          /\ adjusted'[s] = [d \in Dates |-> IF d \in Written(r, s)
                                              THEN response[r][s].known ELSE adjusted[s][d]]
          /\ sync'[s] = IF s \in batch[r] THEN NextSync(r, s) ELSE sync[s]
      BY <2>1 DEF PersistBatch
    <3>2. s \in batch[r] => response[r][s].kind # "bars"
      BY <3>1, NextSyncProgress
    <3>3. Written(r, s) = {}
      BY <3>2 DEF Written
    <3>4. adjusted[s] \in [Dates -> SUBSET Dates]
      BY DEF TypeOK
    <3>5. price_bars'[s] = price_bars[s] /\ adjusted'[s] = adjusted[s]
      BY <3>1, <3>3, <3>4
    <3>6. CASE s \in batch[r]
      <4>1. SameProgress(NextSync(r, s), sync_states[r][s])
        BY <3>2, <3>6, NextSyncProgress
      <4>2. SameProgress(sync_states[r][s], sync[s])
        BY <3>6 DEF ProgressInv, InFlight
      <4> QED
        BY <3>1, <3>5, <3>6, <4>1, <4>2 DEF SameProgress
    <3>7. CASE s \notin batch[r]
      BY <3>1, <3>5, <3>7
    <3> QED
      BY <3>6, <3>7
  <2>2. CASE ~\E r \in Runs : PersistBatch(r)
    <3>1. price_bars' = price_bars /\ adjusted' = adjusted
      BY <2>2 DEF Next, Environment, RunStep, BeginRun, LoadCoverage, PlanRequests, TakeBatch,
           Fetch, DetectReconciliation, FinishRun, AbortRun, PublishBar, PublishLateAction,
           AdvanceWatermark, RetryDue, LowerBackfill, WatermarkFails, DatabaseFails, Crash,
           Leave, LeaveNothing, database, vars
    <3> QED
      BY <2>2, <3>1, SyncStepCases, RetryDueKeeps DEF SameProgress
  <2> QED
    BY <2>1, <2>2
<1>2. OneRun /\ Spec => [][Step]_vars
  <2>1. [](TypeOK /\ ProgressInv) /\ [][Next]_vars => [][Step]_vars
    <3> HIDE DEF Step
    <3> QED
      BY <1>1, PTL
  <2> QED
    BY <2>1, ProgressCorrect, TypeCorrect, PTL DEF Spec
<1> QED
  BY <1>2 DEF FailureKeepsProgress
--------------------------------------------------------------------------------
(***************************************************************************)
(* The counters of a run.                                                  *)
(***************************************************************************)

Asked(r) == {s \in Securities : request[r][s] # NoRequest}

Having(S, states, status) == {s \in S : states[s].status = status}

\* The counters t of a run agree with the states of the securities it has asked
\* for and persisted; the states of those waiting are not yet touched.
CountsAgree(t, asked, waiting, states) ==
    /\ waiting \subseteq asked
    /\ t.succeeded = Cardinality(Having(asked \ waiting, states, "succeeded"))
    /\ t.failed = Cardinality(Having(asked \ waiting, states, "failed"))
    /\ t.unsupported = Cardinality(Having(Securities, states, "unsupported"))
    /\ t.skipped = Cardinality(Securities \ asked)
    /\ \A s \in waiting : states[s].status # "unsupported"

CountsInv ==
    \A r \in Runs :
      /\ phase[r] \in {"coverage", "plan"} =>
           totals[r].succeeded = 0 /\ totals[r].failed = 0
      /\ phase[r] \in {"check", "fetch", "recon"} \/ run_status[r] = "succeeded" =>
           CountsAgree(totals[r], Asked(r), InFlight(r), sync)
      /\ run_status[r] = "succeeded" => InFlight(r) = {} /\ ~OverThreshold(totals[r])

\* A part of a set of securities and the rest add up to it.
LEMMA SplitCount ==
    ASSUME NEW S, S \subseteq Securities, NEW P, P \subseteq S
    PROVE  Cardinality(S) = Cardinality(P) + Cardinality(S \ P)
<1> DEFINE R == S \ P
<1>1. IsFiniteSet(S)
  BY PriceBarsAssumption, FS_Subset
<1>2. IsFiniteSet(P) /\ IsFiniteSet(R)
  BY <1>1, FS_Subset
<1>3. P \cup R = S /\ P \cap R = {}
  OBVIOUS
<1>4. Cardinality(P) \in Nat /\ Cardinality(R) \in Nat
  BY CountType
<1> HIDE DEF R
<1>5. Cardinality(P \cup R) = Cardinality(P) + Cardinality(R) - Cardinality(P \cap R)
  BY <1>2, FS_Union
<1>6. Cardinality(P \cup R) = Cardinality(P) + Cardinality(R)
  BY <1>3, <1>4, <1>5, FS_EmptySet
<1> QED
  BY <1>3, <1>6 DEF R

\* Only statuses count.
LEMMA StatusesCount ==
    ASSUME NEW t, NEW asked \in SUBSET Securities, NEW waiting, NEW before, NEW after,
           \A s \in Securities : before[s].status = after[s].status,
           CountsAgree(t, asked, waiting, before)
    PROVE  CountsAgree(t, asked, waiting, after)
<1>1. \A S \in SUBSET Securities : \A k : Having(S, before, k) = Having(S, after, k)
  BY DEF Having
<1>2. asked \ waiting \in SUBSET Securities
  OBVIOUS
<1> QED
  BY <1>1, <1>2 DEF CountsAgree

LEMMA CountsPlan ==
    ASSUME TypeOK, ShapeInv, CountsInv, NEW r \in Runs, PlanRequests(r)
    PROVE  CountsAgree(totals'[r], Asked(r)', InFlight(r)', sync')
<1> DEFINE sk == {s \in Securities : Skipped(sync[s], target[r])}
           t == totals[r]
<1>1. /\ phase[r] = "plan" /\ sync' = sync
      /\ batch' = batch /\ pending'[r] = Securities \ sk
      /\ request'[r] = [s \in Securities |-> IF s \in sk THEN NoRequest
                                             ELSE Request(coverage[r][s], target[r])]
      /\ totals'[r] = [t EXCEPT
           !.skipped = Cardinality(sk),
           !.unsupported = Cardinality(Having(Securities, sync, "unsupported"))]
  BY DEF PlanRequests, TypeOK, database, Having
<1>2. t.succeeded = 0 /\ t.failed = 0 /\ batch[r] = {}
  BY <1>1 DEF CountsInv, ShapeInv, Shape
<1>3. \A stored, end : Request(stored, end) # NoRequest
  BY DEF Request, RequestMode, NoRequest
<1>4. Asked(r)' = Securities \ sk
  BY <1>1, <1>3 DEF Asked
<1>5. InFlight(r)' = Securities \ sk
  BY <1>1, <1>2 DEF InFlight
<1>6. /\ totals'[r].succeeded = 0 /\ totals'[r].failed = 0
      /\ totals'[r].skipped = Cardinality(sk)
      /\ totals'[r].unsupported = Cardinality(Having(Securities, sync, "unsupported"))
  <2>1. t \in [succeeded: Nat, failed: Nat, unsupported: Nat, skipped: Nat]
    BY DEF TypeOK
  <2> HIDE DEF t
  <2> QED
    BY <1>1, <1>2, <2>1
<1>7. \A k : Having(Asked(r)' \ InFlight(r)', sync', k) = {}
  BY <1>4, <1>5 DEF Having
<1>8. Securities \ Asked(r)' = sk
  BY <1>4
<1>9. \A s \in Securities \ sk : sync[s].status # "unsupported"
  BY DEF Skipped
<1> HIDE DEF sk
<1> QED
  BY <1>1, <1>4, <1>5, <1>6, <1>7, <1>8, <1>9, FS_EmptySet DEF CountsAgree

\* A committed outcome is counted under the status it records.
LEMMA OutcomeStatus ==
    ASSUME TypeOK, NEW r \in Runs, Answered(r), NEW s \in batch[r]
    PROVE  /\ s \in Securities
           /\ NextSync(r, s).status = "succeeded" <=> response[r][s].kind = "bars"
           /\ NextSync(r, s).status = "failed" <=> response[r][s].kind = "error"
           /\ NextSync(r, s).status = "unsupported" <=> response[r][s].kind = "not_found"
<1>1. s \in Securities
  BY DEF TypeOK
<1>2. sync_states[r][s] \in SyncState /\ response[r][s] \in Response
  BY <1>1 DEF TypeOK
<1>3. response[r][s].kind \in {"bars", "error", "not_found"}
  BY <1>1, <1>2 DEF Answered, Response
<1>4. CASE response[r][s].kind = "bars"
  BY <1>1, <1>4 DEF NextSync, SyncSucceeded
<1>5. CASE response[r][s].kind = "error"
  BY <1>1, <1>2, <1>5 DEF NextSync, SyncFailed, SyncState
<1>6. CASE response[r][s].kind = "not_found"
  BY <1>1, <1>2, <1>6 DEF NextSync, SyncUnsupported, SyncState
<1> QED
  BY <1>1, <1>3, <1>4, <1>5, <1>6

\* The securities with a status after a commit are those before and, disjoint
\* from them, those of the batch it is recorded for.
LEMMA HavingAfter ==
    ASSUME NEW S \in SUBSET Securities, NEW T \in SUBSET Securities,
           NEW New, New \subseteq T, New \cap S = {}, T = S \cup New
    PROVE  Cardinality(T) = Cardinality(S) + Cardinality(New)
<1>1. Cardinality(T) = Cardinality(S) + Cardinality(T \ S)
  BY SplitCount
<1>2. T \ S = New
  OBVIOUS
<1> QED
  BY <1>1, <1>2

LEMMA CountsPersist ==
    ASSUME TypeOK, ShapeInv, CountsInv, NEW r \in Runs, PersistBatch(r)
    PROVE  CountsAgree(totals'[r], Asked(r)', InFlight(r)', sync')
<1> DEFINE t == totals[r]
           B == batch[r]
           barred == {s \in B : response[r][s].kind = "bars"}
           erred == {s \in B : response[r][s].kind = "error"}
           unfound == {s \in B : response[r][s].kind = "not_found"}
           done == Asked(r) \ InFlight(r)
<1>1. /\ phase[r] = "recon" /\ Answered(r)
      /\ request' = request /\ pending' = pending /\ batch'[r] = {}
      /\ \A s \in Securities : sync'[s] = IF s \in B THEN NextSync(r, s) ELSE sync[s]
      /\ totals'[r] = [t EXCEPT !.succeeded = t.succeeded + CountKind(r, "bars"),
                                !.failed = t.failed + CountKind(r, "error"),
                                !.unsupported = t.unsupported + CountKind(r, "not_found")]
  BY DEF PersistBatch, TypeOK
<1>2. t \in [succeeded: Nat, failed: Nat, unsupported: Nat, skipped: Nat]
  BY DEF TypeOK
<1>3. /\ totals'[r].succeeded = t.succeeded + Cardinality(barred)
      /\ totals'[r].failed = t.failed + Cardinality(erred)
      /\ totals'[r].unsupported = t.unsupported + Cardinality(unfound)
      /\ totals'[r].skipped = t.skipped
  <2> HIDE DEF t
  <2> QED
    BY <1>1, <1>2 DEF CountKind
<1>4. CountsAgree(t, Asked(r), InFlight(r), sync)
  BY <1>1 DEF CountsInv
<1>5. /\ B \subseteq Securities /\ InFlight(r) = pending[r] \cup B
      /\ pending[r] \cap B = {} /\ InFlight(r)' = pending[r] /\ Asked(r)' = Asked(r)
      /\ Asked(r) \subseteq Securities
  BY <1>1 DEF TypeOK, InFlight, ShapeInv, Shape, Asked
<1>6. InFlight(r) \subseteq Asked(r)
  BY <1>4 DEF CountsAgree
<1>7. Asked(r) \ pending[r] = done \cup B /\ done \cap B = {} /\ done \subseteq Securities
  BY <1>5, <1>6
<1>8. \A s \in B : /\ sync'[s].status = "succeeded" <=> response[r][s].kind = "bars"
                   /\ sync'[s].status = "failed" <=> response[r][s].kind = "error"
                   /\ sync'[s].status = "unsupported" <=> response[r][s].kind = "not_found"
  BY <1>1, <1>5, OutcomeStatus
<1> HIDE DEF t, B, done
<1>9. /\ \A s \in done : sync'[s].status = sync[s].status
      /\ barred \subseteq B /\ erred \subseteq B /\ unfound \subseteq B
      /\ \A s \in B : /\ sync'[s].status = "succeeded" <=> s \in barred
                      /\ sync'[s].status = "failed" <=> s \in erred
  BY <1>1, <1>7, <1>8
<1>10. Cardinality(Having(Securities, sync', "unsupported"))
         = Cardinality(Having(Securities, sync, "unsupported")) + Cardinality(unfound)
  <2>1. \A s \in B : sync[s].status # "unsupported"
    BY <1>4, <1>5 DEF CountsAgree
  <2>2. Having(Securities, sync', "unsupported")
          = Having(Securities, sync, "unsupported") \cup unfound
    BY <1>1, <1>5, <1>8, <2>1 DEF Having
  <2>3. Having(Securities, sync, "unsupported") \cap unfound = {}
    BY <2>1 DEF Having
  <2>4. /\ Having(Securities, sync, "unsupported") \in SUBSET Securities
        /\ Having(Securities, sync', "unsupported") \in SUBSET Securities
        /\ unfound \subseteq Having(Securities, sync', "unsupported")
    BY <2>2 DEF Having
  <2> HIDE DEF barred, erred, unfound
  <2> QED
    BY <2>2, <2>3, <2>4, HavingAfter
<1>11. /\ t.succeeded = Cardinality(Having(done, sync, "succeeded"))
       /\ t.failed = Cardinality(Having(done, sync, "failed"))
       /\ t.unsupported = Cardinality(Having(Securities, sync, "unsupported"))
       /\ t.skipped = Cardinality(Securities \ Asked(r))
  BY <1>4 DEF CountsAgree, done
<1>12. /\ totals'[r].succeeded = Cardinality(Having(done \cup B, sync', "succeeded"))
       /\ totals'[r].failed = Cardinality(Having(done \cup B, sync', "failed"))
       /\ totals'[r].unsupported = Cardinality(Having(Securities, sync', "unsupported"))
  <2>1. Cardinality(Having(done \cup B, sync', "succeeded"))
          = Cardinality(Having(done, sync, "succeeded")) + Cardinality(barred)
    <3> DEFINE before == Having(done, sync, "succeeded")
               after == Having(done \cup B, sync', "succeeded")
    <3>1. after = before \cup barred
      BY <1>9 DEF Having
    <3>2. barred \cap before = {}
      BY <1>7, <1>9 DEF Having
    <3>3. before \in SUBSET Securities /\ after \in SUBSET Securities /\ barred \subseteq after
      BY <1>5, <1>7, <3>1 DEF Having
    <3> HIDE DEF barred, erred, unfound, before, after
    <3>4. Cardinality(after) = Cardinality(before) + Cardinality(barred)
      BY <3>1, <3>2, <3>3, HavingAfter
    <3> QED
      BY <3>4 DEF before, after
  <2>2. Cardinality(Having(done \cup B, sync', "failed"))
          = Cardinality(Having(done, sync, "failed")) + Cardinality(erred)
    <3> DEFINE before == Having(done, sync, "failed")
               after == Having(done \cup B, sync', "failed")
    <3>1. after = before \cup erred
      BY <1>9 DEF Having
    <3>2. erred \cap before = {}
      BY <1>7, <1>9 DEF Having
    <3>3. before \in SUBSET Securities /\ after \in SUBSET Securities /\ erred \subseteq after
      BY <1>5, <1>7, <3>1 DEF Having
    <3> HIDE DEF barred, erred, unfound, before, after
    <3>4. Cardinality(after) = Cardinality(before) + Cardinality(erred)
      BY <3>1, <3>2, <3>3, HavingAfter
    <3> QED
      BY <3>4 DEF before, after
  <2> HIDE DEF barred, erred, unfound
  <2> QED
    BY <1>3, <1>10, <1>11, <2>1, <2>2
<1>13. \A s \in pending[r] : sync'[s].status # "unsupported"
  BY <1>1, <1>4, <1>5 DEF CountsAgree, TypeOK
<1> QED
  BY <1>3, <1>5, <1>6, <1>7, <1>11, <1>12, <1>13 DEF CountsAgree

LEMMA CountsRun ==
    ASSUME TypeOK, ShapeInv, CountsInv, OneRun, NEW r \in Runs,
           WatermarkFails(r) \/ DatabaseFails(r) \/ Crash(r) \/ BeginRun(r) \/ RunStep(r)
    PROVE  CountsInv'
<1>1. CASE PersistBatch(r)
  <2>1. phase'[r] = "check" /\ run_status' = run_status /\ run_status[r] = "running"
    BY <1>1 DEF PersistBatch, ShapeInv, Shape, TypeOK
  <2> QED
    BY <1>1, <2>1, CountsPersist DEF CountsInv, OneRun
<1>2. CASE PlanRequests(r)
  <2>1. phase'[r] = "check" /\ run_status' = run_status /\ run_status[r] = "running"
    BY <1>2 DEF PlanRequests, ShapeInv, Shape, TypeOK
  <2> QED
    BY <1>2, <2>1, CountsPlan DEF CountsInv, OneRun
<1>3. CASE BeginRun(r) \/ LoadCoverage(r)
  <2>1. CASE BeginRun(r)
    <3>1. DOMAIN totals = Runs /\ DOMAIN phase = Runs /\ DOMAIN run_status = Runs
      BY DEF TypeOK
    <3>2. totals'[r] = NoTotals
      BY <2>1, <3>1 DEF BeginRun
    <3>3. phase'[r] = "coverage"
      BY <2>1, <3>1 DEF BeginRun
    <3>4. run_status'[r] = "running"
      BY <2>1, <3>1 DEF BeginRun
    <3> QED
      BY <3>2, <3>3, <3>4 DEF CountsInv, OneRun, NoTotals
  <2>2. CASE LoadCoverage(r)
    <3>1. /\ phase[r] = "coverage" /\ phase'[r] = "plan"
          /\ run_status'[r] = "running" /\ totals' = totals
      BY <2>2 DEF LoadCoverage, ShapeInv, Shape, TypeOK
    <3> QED
      BY <3>1 DEF CountsInv, OneRun
  <2> QED
    BY <1>3, <2>1, <2>2
<1>4. CASE TakeBatch(r) \/ (\E s \in Securities : Fetch(r, s)) \/ DetectReconciliation(r)
  <2>1. /\ phase[r] \in {"check", "fetch", "recon"} /\ phase'[r] \in {"fetch", "recon"}
        /\ run_status' = run_status /\ run_status[r] = "running"
        /\ totals' = totals /\ sync' = sync
    BY <1>4 DEF TakeBatch, Fetch, DetectReconciliation, ShapeInv, Shape, TypeOK, database
  <2>2. CountsAgree(totals[r], Asked(r), InFlight(r), sync)
    BY <2>1 DEF CountsInv
  <2>3. Asked(r)' = Asked(r)
    <3>1. CASE DetectReconciliation(r)
      <4>1. \A s \in ToReconcile(r) : s \in Asked(r)
        BY <2>2 DEF ToReconcile, CountsAgree, InFlight
      <4>2. \A s \in Securities :
              request'[r][s] # NoRequest <=> request[r][s] # NoRequest
        BY <3>1, <4>1 DEF DetectReconciliation, TypeOK, NoRequest, Asked
      <4> QED
        BY <4>2 DEF Asked
    <3>2. CASE request' = request
      BY <3>2 DEF Asked
    <3> QED
      BY <1>4, <3>1, <3>2 DEF TakeBatch, Fetch
  <2>4. InFlight(r)' = InFlight(r)
    <3>1. CASE TakeBatch(r)
      <4>1. PICK b \in SUBSET pending[r] :
              batch' = [batch EXCEPT ![r] = b] /\ pending' = [pending EXCEPT ![r] = @ \ b]
        BY <3>1 DEF TakeBatch
      <4>2. batch[r] = {}
        BY <3>1 DEF TakeBatch, ShapeInv, Shape
      <4> QED
        BY <4>1, <4>2 DEF InFlight, TypeOK
    <3>2. CASE pending' = pending /\ batch' = batch
      BY <3>2 DEF InFlight
    <3> QED
      BY <1>4, <3>1, <3>2 DEF Fetch, DetectReconciliation
  <2> QED
    BY <2>1, <2>2, <2>3, <2>4 DEF CountsInv, OneRun
<1>5. CASE FinishRun(r)
  <2>1. /\ phase[r] = "check" /\ pending[r] = {} /\ ~OverThreshold(totals[r])
        /\ phase'[r] = "idle" /\ pending'[r] = {} /\ batch'[r] = {}
        /\ totals' = totals /\ sync' = sync /\ request' = request
    BY <1>5 DEF FinishRun, Leave, TypeOK, database
  <2>2. InFlight(r) = {} /\ InFlight(r)' = {} /\ Asked(r)' = Asked(r)
    BY <2>1 DEF InFlight, Asked, ShapeInv, Shape
  <2>3. CountsAgree(totals[r], Asked(r), InFlight(r), sync)
    BY <2>1 DEF CountsInv
  <2> QED
    BY <2>1, <2>2, <2>3 DEF CountsInv, OneRun
<1>6. CASE AbortRun(r) \/ DatabaseFails(r) \/ Crash(r) \/ WatermarkFails(r)
  <2>1. /\ phase'[r] = "idle"
        /\ run_status'[r] # "succeeded"
    BY <1>6 DEF AbortRun, DatabaseFails, Crash, WatermarkFails, Leave, LeaveNothing,
       ShapeInv, Shape, TypeOK
  <2> QED
    BY <2>1 DEF CountsInv, OneRun
<1> QED
  BY <1>1, <1>2, <1>3, <1>4, <1>5, <1>6 DEF RunStep

LEMMA CountsNext == TypeOK /\ ShapeInv /\ CountsInv /\ OneRun /\ [Next]_vars => CountsInv'
<1> SUFFICES ASSUME TypeOK, ShapeInv, CountsInv, OneRun, [Next]_vars PROVE CountsInv'
  OBVIOUS
<1>1. CASE /\ phase' = phase /\ run_status' = run_status /\ totals' = totals
           /\ request' = request /\ pending' = pending /\ batch' = batch
           /\ \A s \in Securities : sync[s].status = sync'[s].status
  <2>1. \A r \in Runs : Asked(r)' = Asked(r) /\ InFlight(r)' = InFlight(r)
    BY <1>1 DEF Asked, InFlight
  <2>2. \A r \in Runs : CountsAgree(totals[r], Asked(r), InFlight(r), sync)
                          => CountsAgree(totals[r], Asked(r), InFlight(r), sync')
    <3>1. \A r \in Runs : Asked(r) \in SUBSET Securities
      BY DEF Asked
    <3> QED
      BY <1>1, <3>1, StatusesCount
  <2> QED
    BY <1>1, <2>1, <2>2 DEF CountsInv
<1>2. ASSUME NEW t \in Securities, RetryDue(t)
      PROVE  \A s \in Securities : sync[s].status = sync'[s].status
  BY <1>2, RetryDueKeeps
<1>3. ASSUME NEW r \in Runs,
             WatermarkFails(r) \/ DatabaseFails(r) \/ Crash(r) \/ BeginRun(r) \/ RunStep(r)
      PROVE  CountsInv'
  BY <1>3, CountsRun
<1> QED
  BY <1>1, <1>2, <1>3 DEF Next, Environment, PublishBar, PublishLateAction, AdvanceWatermark,
       RetryDue, LowerBackfill, vars, database

\* The counters of a run that is marked succeeded agree with the states it leaves
\* behind, and its failures are within the thresholds.
THEOREM CountersAgree == OneRun /\ Spec => []SucceededRunAccountsForAll
<1>1. Init => CountsInv
  BY DEF Init, CountsInv
<1>2. OneRun /\ [Next]_vars => OneRun'
  BY DEF OneRun
<1>3. TypeOK /\ CountsInv => SucceededRunAccountsForAll
  <2> SUFFICES ASSUME TypeOK, CountsInv, NEW r \in Runs, run_status[r] = "succeeded"
               PROVE  LET asked == {s \in Securities : request[r][s] # NoRequest}
                          ended(status) == {s \in asked : sync[s].status = status}
                          unsupported == {s \in Securities : sync[s].status = "unsupported"}
                          failed == Cardinality(ended("failed"))
                      IN  /\ totals[r] = [succeeded |-> Cardinality(ended("succeeded")),
                                          failed |-> failed,
                                          unsupported |-> Cardinality(unsupported),
                                          skipped |-> Cardinality(Securities \ asked)]
                          /\ \/ failed <= MaxFailedSecurities
                             \/ failed * RatioDen <=
                                  RatioNum * Cardinality(ended("succeeded") \cup ended("failed"))
    BY DEF SucceededRunAccountsForAll
  <2> DEFINE t == totals[r]
             S == Having(Asked(r), sync, "succeeded")
             F == Having(Asked(r), sync, "failed")
  <2>1. /\ CountsAgree(t, Asked(r), InFlight(r), sync)
        /\ InFlight(r) = {} /\ ~OverThreshold(t)
    BY DEF CountsInv
  <2>2. Asked(r) \ InFlight(r) = Asked(r)
    BY <2>1
  <2>3. /\ t.succeeded = Cardinality(S) /\ t.failed = Cardinality(F)
        /\ t.unsupported = Cardinality(Having(Securities, sync, "unsupported"))
        /\ t.skipped = Cardinality(Securities \ Asked(r))
    BY <2>1, <2>2 DEF CountsAgree
  <2>4. t \in [succeeded: Nat, failed: Nat, unsupported: Nat, skipped: Nat]
    BY DEF TypeOK
  <2>5. t = [succeeded |-> Cardinality(S), failed |-> Cardinality(F),
             unsupported |-> Cardinality(Having(Securities, sync, "unsupported")),
             skipped |-> Cardinality(Securities \ Asked(r))]
    <3> HIDE DEF t, S, F
    <3> QED
      BY <2>3, <2>4
  <2>6. Cardinality(S \cup F) = Cardinality(F) + Cardinality(S)
    <3>1. /\ S \subseteq S \cup F /\ S \cap F = {}
          /\ F \in SUBSET Securities /\ S \cup F \in SUBSET Securities
      BY DEF Having, Asked
    <3> HIDE DEF S, F
    <3> QED
      BY <3>1, HavingAfter
  <2>7. /\ t.failed \in Nat /\ t.succeeded \in Nat
        /\ Cardinality(S \cup F) = t.succeeded + t.failed
    <3> HIDE DEF t, S, F
    <3> QED
      BY <2>3, <2>4, <2>6
  <2>8. \/ t.failed <= MaxFailedSecurities
        \/ t.failed * RatioDen <= RatioNum * (t.succeeded + t.failed)
    <3> DEFINE a == t.failed * RatioDen
               b == RatioNum * (t.succeeded + t.failed)
    <3>1. a \in Nat /\ b \in Nat
      BY <2>7, PriceBarsAssumption
    <3>2. ~(t.failed > MaxFailedSecurities /\ a > b)
      BY <2>1 DEF OverThreshold
    <3> HIDE DEF a, b
    <3>3. t.failed <= MaxFailedSecurities \/ a <= b
      BY <2>7, <3>1, <3>2, PriceBarsAssumption
    <3> QED
      BY <3>3 DEF a, b
  <2>9. \/ Cardinality(F) <= MaxFailedSecurities
        \/ Cardinality(F) * RatioDen <= RatioNum * Cardinality(S \cup F)
    <3> HIDE DEF t, S, F
    <3> QED
      BY <2>3, <2>7, <2>8
  <2> QED
    BY <2>5, <2>9 DEF Having, Asked
<1> QED
  BY <1>1, <1>2, <1>3, CountsNext, ShapeCorrect, TypeCorrect, PTL DEF Spec
================================================================================
