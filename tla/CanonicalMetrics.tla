---------------------------- MODULE CanonicalMetrics ----------------------------
(***************************************************************************)
(* Normalisation of XBRL facts into canonical metrics (the asset           *)
(* canonical_metrics, CanonicalMetricNormalizationService,                 *)
(* CandidateResolver, CanonicalPeriodClassifier and                        *)
(* CanonicalMetricsRepository).                                            *)
(*                                                                         *)
(* A run handles the companies in batches.  For each batch it reads the    *)
(* facts, classifies and groups them, selects the best fact of every       *)
(* group, reads the rows that exist, raises if one differs from what it    *)
(* would write, and inserts the others.                                    *)
(*                                                                         *)
(* The metric name and the period's end are part of both the group and the *)
(* row's key, so the module keeps one metric and one period_end, and only  *)
(* facts of its concepts in an expected unit.  A fact is its source        *)
(* (concept, form, fiscal period, days from period_start to period_end,    *)
(* number) and the date it was filed; the number stands for                *)
(* accession_number and fact_id.  A row is the fact it was taken from.     *)
(***************************************************************************)
EXTENDS Integers, FiniteSets, Functions

CONSTANTS
    Companies,
    Derivations,    \* sets of facts one transaction of xbrl_facts may add
    Instant,        \* is the metric's period_kind "instant"?
    Runs,           \* processes that materialise the asset
    BatchSize,      \* companies per batch
    MaxDerivations, \* bound: such transactions, of all companies
    MaxFaults       \* bound: failed statements and crashes

SourceType ==
    [concept: Nat, form: STRING, fiscal_period: STRING, days: Nat, no: Nat]

Facts == UNION Derivations

ASSUME CanonicalAssumption ==
    /\ IsFiniteSet(Companies)
    /\ IsFiniteSet(Facts)
    /\ Facts \subseteq [source: SourceType, filed: Nat]
    /\ Instant \in BOOLEAN
    /\ BatchSize \in Nat \ {0}
    /\ MaxDerivations \in Nat
    /\ MaxFaults \in Nat

VARIABLES
    \* the database
    xbrl_facts,    \* xbrl_facts[c]: stored facts of c
    metrics,       \* metrics[c]: rows of c
    \* the runs
    phase,
    run_status,    \* status of the latest ingestion_runs row
    todo,          \* todo[r]: companies of the batches to come
    batch,         \* batch[r]: companies of the batch in progress
    read,          \* read[r][c]: facts of c the run has read
    existing,      \* existing[r][c]: rows of c the run has found
    \* the environment
    derivations,   \* transactions of xbrl_facts so far
    faults,
    \* history
    displaced      \* displaced[c]: facts that were their group's winner until
                   \* a better one was derived

facts == <<xbrl_facts, derivations, displaced>>
database == <<facts, metrics>>
vars == <<database, phase, run_status, todo, batch, read, existing, faults>>

Statuses == {"none", "running", "succeeded", "failed", "conflict"}

TypeOK ==
    /\ xbrl_facts \in [Companies -> SUBSET Facts]
    /\ derivations \in 0 .. MaxDerivations
    /\ displaced \in [Companies -> SUBSET Facts]
    /\ metrics \in [Companies -> SUBSET Facts]
    /\ phase \in [Runs -> {"idle", "next", "resolve", "insert"}]
    /\ run_status \in [Runs -> Statuses]
    /\ todo \in [Runs -> SUBSET Companies]
    /\ batch \in [Runs -> SUBSET Companies]
    /\ \A r \in Runs :
         /\ batch[r] # {} <=> phase[r] \in {"resolve", "insert"}
         /\ batch[r] \cap todo[r] = {}
    /\ read \in [Runs -> [Companies -> SUBSET Facts]]
    /\ existing \in [Runs -> [Companies -> SUBSET Facts]]
    /\ faults \in 0 .. MaxFaults

Init ==
    /\ xbrl_facts = [c \in Companies |-> {}]
    /\ derivations = 0
    /\ displaced = [c \in Companies |-> {}]
    /\ metrics = [c \in Companies |-> {}]
    /\ phase = [r \in Runs |-> "idle"]
    /\ run_status = [r \in Runs |-> "none"]
    /\ todo = [r \in Runs |-> {}]
    /\ batch = [r \in Runs |-> {}]
    /\ read = [r \in Runs |-> [c \in Companies |-> {}]]
    /\ existing = [r \in Runs |-> [c \in Companies |-> {}]]
    /\ faults = 0
--------------------------------------------------------------------------------
(***************************************************************************)
(* CanonicalPeriodClassifier.                                              *)
(***************************************************************************)

Amendments == {"10-K/A", "20-F/A", "40-F/A", "10-Q/A"}
AnnualForms == {"10-K", "10-K/A", "20-F", "20-F/A", "40-F", "40-F/A"}
QuarterlyForms == {"10-Q", "10-Q/A"}

\* days = 0: the fact has no period_start.
IsAnnual(s) ==
    /\ s.form \in AnnualForms
    /\ s.fiscal_period = "FY"
    /\ Instant \/ s.days \in 300 .. 430

IsQuarter(s) ==
    /\ s.form \in QuarterlyForms
    /\ s.fiscal_period \in {"Q1", "Q2", "Q3"}
    /\ Instant \/ s.days \in 60 .. 120

PeriodType(s) == IF IsAnnual(s) THEN "annual"
                 ELSE IF IsQuarter(s) THEN "quarter" ELSE "unsupported"

Candidates(F) == {f \in F : PeriodType(f.source) # "unsupported"}
--------------------------------------------------------------------------------
(***************************************************************************)
(* Grouping and CandidateResolver.                                         *)
(***************************************************************************)

\* The unique key of a row: period_type and available_at.
KeyOf(f) == <<PeriodType(f.source), f.filed>>

HasKey(rows, k) == \E row \in rows : KeyOf(row) = k

\* The groups also distinguish period_start, which the key of a row does not.
SameGroup(f, g) ==
    f.filed = g.filed /\ f.source.days = g.source.days /\ KeyOf(f) = KeyOf(g)

Penalty(s) == IF s.form \in Amendments THEN 1 ELSE 0

\* Mutant: the amendment penalty comes before the priority of the concept.
Precedes_FormFirst(s, t) ==
    \/ Penalty(s) < Penalty(t)
    \/ Penalty(s) = Penalty(t) /\ s.concept < t.concept
    \/ Penalty(s) = Penalty(t) /\ s.concept = t.concept /\ s.no < t.no

\* sort_key: concept priority, amendment penalty, accession number and fact_id.
\* Every candidate has an expected unit and the facts of a group have one
\* duration, so the unit penalty and the duration fit never differ.
Precedes(s, t) ==
    \/ s.concept < t.concept
    \/ s.concept = t.concept /\ Penalty(s) < Penalty(t)
    \/ s.concept = t.concept /\ Penalty(s) = Penalty(t) /\ s.no < t.no

\* Mutant: no tie-breaker.
Resolved_AnyBest(F) ==
    {f \in Candidates(F) : \A g \in Candidates(F) :
       SameGroup(f, g) => f.source.concept <= g.source.concept}

\* The winners of all groups.
Resolved(F) ==
    {f \in Candidates(F) : \A g \in Candidates(F) :
       SameGroup(f, g) => ~Precedes(g.source, f.source)}

\* A document is derived: a new filing, or facts of old filings, which a larger
\* registry or an observation reported anew with another frame or value adds.
FactsIngested(c) ==
    /\ derivations < MaxDerivations
    /\ derivations' = derivations + 1
    /\ \E new \in Derivations :
         xbrl_facts' = [xbrl_facts EXCEPT ![c] = @ \cup new]
    /\ displaced' = [displaced EXCEPT ![c] =
         @ \cup (Resolved(xbrl_facts[c]) \ Resolved(xbrl_facts'[c]))]
    /\ UNCHANGED <<metrics, phase, run_status, todo, batch, read, existing, faults>>
--------------------------------------------------------------------------------
(***************************************************************************)
(* materialize.                                                            *)
(***************************************************************************)

\* Mutant: companies that have metrics are taken for done.
BeginRun_NewOnly(r) ==
    /\ phase[r] = "idle"
    /\ phase' = [phase EXCEPT ![r] = "next"]
    /\ run_status' = [run_status EXCEPT ![r] = "running"]
    /\ todo' = [todo EXCEPT ![r] =
         {c \in Companies : xbrl_facts[c] # {} /\ metrics[c] = {}}]
    /\ read' = [read EXCEPT ![r] = [c \in Companies |-> {}]]
    /\ UNCHANGED <<database, batch, existing, faults>>

\* The run row and the companies that have facts.
BeginRun(r) ==
    /\ phase[r] = "idle"
    /\ phase' = [phase EXCEPT ![r] = "next"]
    /\ run_status' = [run_status EXCEPT ![r] = "running"]
    /\ todo' = [todo EXCEPT ![r] = {c \in Companies : xbrl_facts[c] # {}}]
    /\ read' = [read EXCEPT ![r] = [c \in Companies |-> {}]]
    /\ UNCHANGED <<database, batch, existing, faults>>

SelectFacts(r) ==
    /\ phase[r] = "next"
    /\ \E b \in SUBSET todo[r] :
         /\ b # {}
         /\ Cardinality(b) = BatchSize \/ (b = todo[r] /\ Cardinality(b) < BatchSize)
         /\ batch' = [batch EXCEPT ![r] = b]
         /\ todo' = [todo EXCEPT ![r] = @ \ b]
         /\ read' = [read EXCEPT ![r] =
              [c \in Companies |-> IF c \in b THEN xbrl_facts[c] ELSE read[r][c]]]
    /\ phase' = [phase EXCEPT ![r] = "resolve"]
    /\ UNCHANGED <<database, run_status, existing, faults>>

\* The batch is over, or the run.
EndBatch(r, next) ==
    /\ phase' = [phase EXCEPT ![r] = next]
    /\ batch' = [batch EXCEPT ![r] = {}]
    /\ existing' = [existing EXCEPT ![r] = [c \in Companies |-> {}]]

Leave(r) ==
    /\ EndBatch(r, "idle")
    /\ todo' = [todo EXCEPT ![r] = {}]
    /\ UNCHANGED database

\* What the run had read is lost.
Abort(r) ==
    /\ Leave(r)
    /\ read' = [read EXCEPT ![r] = [c \in Companies |-> {}]]

\* A row differs from what the run would write: ValueError, upon which the run
\* is marked failed; the module tells the cause apart.
Conflicting(r) ==
    \E c \in batch[r] : \E w \in Resolved(read[r][c]), row \in metrics[c] :
      KeyOf(row) = KeyOf(w) /\ row # w

SelectExisting(r) ==
    /\ phase[r] = "resolve"
    /\ ~Conflicting(r)
    /\ existing' = [existing EXCEPT ![r] =
         [c \in Companies |-> IF c \in batch[r] THEN metrics[c] ELSE {}]]
    /\ phase' = [phase EXCEPT ![r] = "insert"]
    /\ UNCHANGED <<database, run_status, todo, batch, read, faults>>

ConflictRaised(r) ==
    /\ phase[r] = "resolve"
    /\ Conflicting(r)
    /\ run_status' = [run_status EXCEPT ![r] = "conflict"]
    /\ Abort(r)
    /\ UNCHANGED faults

\* Mutant: available_at is left out of the key.
ToInsert_AnyDate(r, c) ==
    {w \in Resolved(read[r][c]) : \A row \in existing[r][c] :
       PeriodType(row.source) # PeriodType(w.source)}

ToInsert(r, c) == {w \in Resolved(read[r][c]) : ~HasKey(existing[r][c], KeyOf(w))}

\* ON CONFLICT DO NOTHING on uq_canonical_metrics.
Inserted(rows, new) == rows \cup {w \in new : ~HasKey(rows, KeyOf(w))}

\* Of two groups with one key the first in the statement is inserted; the order
\* of the groups is that of the facts, which the query leaves open.
InsertMetrics(r) ==
    /\ phase[r] = "insert"
    /\ \E first \in [batch[r] -> SUBSET UNION {ToInsert(r, c) : c \in batch[r]}] :
         /\ \A c \in batch[r] :
              /\ first[c] \subseteq ToInsert(r, c)
              /\ \A w \in ToInsert(r, c) :
                   Cardinality({v \in first[c] : KeyOf(v) = KeyOf(w)}) = 1
         /\ metrics' = [c \in Companies |->
              IF c \in batch[r] THEN Inserted(metrics[c], first[c]) ELSE metrics[c]]
    /\ EndBatch(r, "next")
    /\ UNCHANGED <<facts, run_status, todo, read, faults>>

FinishRun(r) ==
    /\ phase[r] = "next"
    /\ todo[r] = {}
    /\ run_status' = [run_status EXCEPT ![r] = "succeeded"]
    /\ Leave(r)
    /\ UNCHANGED <<read, faults>>

\* A statement fails: the batch is rolled back, earlier ones are committed.
DatabaseFails(r) ==
    /\ phase[r] # "idle"
    /\ faults < MaxFaults
    /\ faults' = faults + 1
    /\ run_status' = [run_status EXCEPT ![r] = "failed"]
    /\ Abort(r)

Crash(r) ==
    /\ phase[r] # "idle"
    /\ faults < MaxFaults
    /\ faults' = faults + 1
    /\ UNCHANGED run_status
    /\ Abort(r)

RunStep(r) ==
    \/ SelectFacts(r)
    \/ SelectExisting(r)
    \/ ConflictRaised(r)
    \/ InsertMetrics(r)
    \/ FinishRun(r)

Next ==
    \/ \E c \in Companies : FactsIngested(c)
    \/ \E r \in Runs : BeginRun(r) \/ RunStep(r) \/ DatabaseFails(r) \/ Crash(r)

Spec == Init /\ [][Next]_vars

\* The asset keeps being materialised and a run that was started goes on;
\* derivations and faults are never required.
FairSpec == Spec /\ \A r \in Runs : WF_vars(BeginRun(r)) /\ WF_vars(RunStep(r))
--------------------------------------------------------------------------------
(***************************************************************************)
(* Properties.                                                             *)
(***************************************************************************)

\* A run does not find rows that differ from what it would write: the rows of
\* an earlier run are those this run computes from the same facts ("Idempotent:
\* same normalization_version + same facts -> same rows").
RerunIsIdempotent == \A r \in Runs : run_status[r] # "conflict"

\* Two facts of one filing, period type and end with different starts.
TwoStartsFiled ==
    \E c \in Companies : \E f, g \in Candidates(xbrl_facts[c]) :
      KeyOf(f) = KeyOf(g) /\ ~SameGroup(f, g)

\* The exact extent of the exception: a run differs from an earlier one only over
\* a filing with two starts or a fact derived after a worse one of its group, never
\* because of the order of facts, amendments, overlapping runs, later filings or a
\* retry after a failure.
ConflictHasCause ==
    \A r \in Runs : run_status[r] = "conflict" =>
      TwoStartsFiled \/ \E c \in Companies : displaced[c] # {}

\* A row comes from a fact that was known on the date the row was available, and
\* is the best of its filing, or was until a better one was derived: no stored
\* fact with a preferred concept, or an unamended form of the same concept, has
\* been passed over.
RowIsBestOfItsFiling ==
    \A c \in Companies : \A row \in metrics[c] :
      /\ row \in Candidates(xbrl_facts[c])
      /\ row \notin displaced[c] =>
           \A f \in Candidates(xbrl_facts[c]) : SameGroup(f, row) =>
             /\ row.source.concept <= f.source.concept
             /\ row.source.concept = f.source.concept
                  /\ row.source.form \in Amendments => f.source.form \in Amendments

\* Rows are never rewritten or deleted ("Revisions are preserved; old rows are
\* never deleted"), also by runs that overlap.
RowsAreFinal == [][\A c \in Companies : metrics[c] \subseteq metrics'[c]]_vars

Covered(c, F) == \A f \in Candidates(F) : HasKey(metrics[c], KeyOf(f))

\* A run marked succeeded leaves a row for every period and filing date it has
\* read a usable fact of, in every batch.
SucceededRunCoversFacts ==
    \A r \in Runs : run_status[r] = "succeeded" =>
      \A c \in Companies : Covered(c, read[r][c])

AllCovered == \A c \in Companies : Covered(c, xbrl_facts[c])

\* A row on record is no longer what a run would write.
RowIsDisplaced == \E c \in Companies : metrics[c] \cap displaced[c] # {}

\* Every usable fact is eventually represented, whatever finite number of
\* statements and processes fail; unless a filing with two starts, or a row whose
\* fact a late one displaced, stops the runs before they reach it.
MetricsArrive == <>[](AllCovered \/ TwoStartsFiled \/ RowIsDisplaced)
================================================================================
