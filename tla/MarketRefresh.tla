----------------------------- MODULE MarketRefresh -----------------------------
(***************************************************************************)
(* The market refresh job up to the universes (market_refresh_job):        *)
(* company_market_profiles scans the securities of the candidate universe  *)
(* that are due, at most Limit per run and each in a transaction of its    *)
(* own; training_universe decides from the stored profiles, and            *)
(* scoring_universe from the training members.  An asset that fails ends   *)
(* the job; the next run starts from the database again.                   *)
(*                                                                         *)
(* The rows of the memberships are the subject of UniverseMembership; here *)
(* a universe is the security each member has now.                         *)
(***************************************************************************)
EXTENDS UniverseSelection, SequencesExt

CONSTANTS
    Histories,      \* what the provider may have of a security
    Limit,          \* maximum_symbols_per_run
    RefreshAfter,   \* refresh_after_days
    RetryAfter,     \* failed_symbol_retry_after_days
    Volatile,       \* bound: securities that come and go
    MaxFaults       \* bound: wrong answers, errors, crashes

ASSUME RefreshAssumption ==
    /\ Histories \subseteq HistoryType
    /\ Limit \in Nat \ {0}
    /\ RefreshAfter \in Nat
    /\ RetryAfter \in Nat
    /\ Volatile \subseteq Securities
    /\ MaxFaults \in Nat

VARIABLES
    \* the world
    current,        \* securities reported by SEC, of candidate members
    \* the database
    profiles,       \* profiles[s]: row of company_market_profiles
    scanned,        \* securities with a row, ordered by scanned_at
    training,       \* training[c]: security of the membership, or Excluded
    scoring,
    \* the job
    phase,
    queue,          \* targets left
    \* history and environment
    answered,       \* answered[s]: history the last scan got, if it got one
    faults

job == <<phase, queue>>
rows == <<profiles, scanned>>
universes == <<training, scoring>>
vars == <<current, rows, universes, job, answered, faults>>

\* Ages are counted up to the first one that makes no difference any more.
Forever == 1 + CHOOSE n \in {RefreshAfter, RetryAfter, MaximumAge} :
                 \A m \in {RefreshAfter, RetryAfter, MaximumAge} : m <= n

NoRow == [status |-> "missing", statistics |-> NoStatistics, age |-> Forever]
NoAnswer == [start |-> None, bars |-> << >>, calendar |-> FALSE]

Statuses == {"missing", "success", "no_usable_bars", "instrument_not_found",
             "temporary_failure"}

TypeOK ==
    /\ current \subseteq Securities
    /\ \A s \in Securities : /\ profiles[s].status \in Statuses
                             /\ profiles[s].age \in 0 .. Forever
    /\ scanned \in Seq(Securities)
    /\ training \in [Companies -> Securities \cup {Excluded}]
    /\ scoring \in [Companies -> Securities \cup {Excluded}]
    /\ phase \in {"idle", "profiles", "training", "scoring"}
    /\ queue \in Seq(Securities)
    /\ Len(queue) <= Limit
    /\ faults \in 0 .. MaxFaults

Init ==
    /\ current = Securities
    /\ profiles = [s \in Securities |-> NoRow]
    /\ scanned = << >>
    /\ training = [c \in Companies |-> Excluded]
    /\ scoring = [c \in Companies |-> Excluded]
    /\ phase = "idle"
    /\ queue = << >>
    /\ answered = [s \in Securities |-> NoAnswer]
    /\ faults = 0
--------------------------------------------------------------------------------
(***************************************************************************)
(* The world (external).                                                   *)
(***************************************************************************)

\* Ages are counted in units of many days; a job takes less than one.
TimePasses ==
    /\ phase = "idle"
    /\ \E s \in Securities : profiles[s].age < Forever
    /\ profiles' = [s \in Securities |-> [profiles[s] EXCEPT !.age =
                      IF @ < Forever THEN @ + 1 ELSE @]]
    /\ UNCHANGED <<current, scanned, universes, job, answered, faults>>

\* A security or its company comes or goes.
CatalogChanges(s) ==
    /\ s \in Volatile
    /\ current' = IF s \in current THEN current \ {s} ELSE current \cup {s}
    /\ UNCHANGED <<rows, universes, job, answered, faults>>
--------------------------------------------------------------------------------
(***************************************************************************)
(* company_market_profiles.                                                *)
(***************************************************************************)

\* Mutant: temporary failures are not retried.
Due_SuccessOnly(s) ==
    /\ s \in current
    /\ \/ profiles[s].status = "missing"
       \/ profiles[s].status = "success" /\ profiles[s].age >= RefreshAfter

\* The WHERE clause of list_market_profile_targets: a security the provider
\* does not know, or without usable bars, is not asked for again.
Due(s) ==
    /\ s \in current
    /\ \/ profiles[s].status = "missing"
       \/ profiles[s].status = "success" /\ profiles[s].age >= RefreshAfter
       \/ profiles[s].status = "temporary_failure" /\ profiles[s].age >= RetryAfter

ByTicker(S) == SetToSortSeq(S, LAMBDA s, t : Ticker[s] < Ticker[t])

Limited(q) == SubSeq(q, 1, IF Len(q) < Limit THEN Len(q) ELSE Limit)

\* Mutant: alphabetical order.
Targets_ByTicker == Limited(ByTicker({s \in Securities : Due(s)}))

\* Securities without a row first, then the oldest scan.
Targets ==
    LET missing == {s \in Securities : Due(s) /\ profiles[s].status = "missing"}
    IN  Limited(ByTicker(missing) \o SelectSeq(scanned, Due))

StartJob ==
    /\ phase = "idle"
    /\ phase' = "profiles"
    /\ queue' = Targets
    /\ UNCHANGED <<current, rows, universes, answered, faults>>

\* Mutant: a failure leaves the statistics as they were.
Upsert_KeepStatistics(s, status, statistics) ==
    /\ profiles' = [profiles EXCEPT ![s] =
                      IF status = "temporary_failure" /\ @.status = "success"
                      THEN [@ EXCEPT !.age = 0]
                      ELSE [status |-> status, statistics |-> statistics, age |-> 0]]
    /\ scanned' = Append(SelectSeq(scanned, LAMBDA t : t # s), s)

\* upsert_profile
Upsert(s, status, statistics) ==
    /\ profiles' = [profiles EXCEPT ![s] =
                      [status |-> status, statistics |-> statistics, age |-> 0]]
    /\ scanned' = Append(SelectSeq(scanned, LAMBDA t : t # s), s)

Profile == [h \in Histories |-> Calculate(h)]

\* _profile_one, with any answer of the provider.
ScanTarget ==
    /\ phase = "profiles"
    /\ queue # << >>
    /\ \E h \in Histories :
         /\ Upsert(Head(queue), Profile[h].status, Profile[h].statistics)
         /\ answered' = [answered EXCEPT ![Head(queue)] = h]
    /\ queue' = Tail(queue)
    /\ UNCHANGED <<current, universes, phase, faults>>

\* A temporary error after all retries, or an answer 404.
ScanFails ==
    /\ phase = "profiles"
    /\ queue # << >>
    /\ faults < MaxFaults
    /\ faults' = faults + 1
    /\ \E status \in {"temporary_failure", "instrument_not_found"} :
         Upsert(Head(queue), status, NoStatistics)
    /\ answered' = [answered EXCEPT ![Head(queue)] = NoAnswer]
    /\ queue' = Tail(queue)
    /\ UNCHANGED <<current, universes, phase>>

FinishProfiles ==
    /\ phase = "profiles"
    /\ queue = << >>
    /\ phase' = "training"
    /\ UNCHANGED <<current, rows, universes, queue, answered, faults>>

\* Every other error of the provider or the database, in any of the assets, or
\* the death of the process: what has been committed stays.
JobFails ==
    /\ phase # "idle"
    /\ faults < MaxFaults
    /\ faults' = faults + 1
    /\ phase' = "idle"
    /\ queue' = << >>
    /\ UNCHANGED <<current, rows, universes, answered>>
--------------------------------------------------------------------------------
(***************************************************************************)
(* training_universe and scoring_universe.                                 *)
(***************************************************************************)

Train ==
    /\ phase = "training"
    /\ training' = [c \in Companies |-> TrainingDecision(profiles, current, c)]
    /\ phase' = "scoring"
    /\ UNCHANGED <<current, rows, scoring, queue, answered, faults>>

\* Mutant: members that leave the training universe stay.
Score_OnlyAdds ==
    /\ phase = "scoring"
    /\ IF AmbiguousTicker(training) THEN UNCHANGED scoring
       ELSE scoring' = [c \in Companies |->
              IF training[c] = Excluded THEN scoring[c] ELSE ScoringDecision(training, c)]
    /\ phase' = "idle"
    /\ UNCHANGED <<current, rows, training, queue, answered, faults>>

\* An ambiguous manual ticker raises ValueError.
Score ==
    /\ phase = "scoring"
    /\ IF AmbiguousTicker(training) THEN UNCHANGED scoring
       ELSE scoring' = [c \in Companies |-> ScoringDecision(training, c)]
    /\ phase' = "idle"
    /\ UNCHANGED <<current, rows, training, queue, answered, faults>>

JobStep == StartJob \/ ScanTarget \/ FinishProfiles \/ Train \/ Score

Next ==
    \/ TimePasses
    \/ \E s \in Securities : CatalogChanges(s)
    \/ JobStep
    \/ ScanFails
    \/ JobFails

Spec == Init /\ [][Next]_vars

\* Time passes between jobs, the job is scheduled and goes on; nothing else is
\* required.
FairSpec == Spec /\ SF_vars(TimePasses) /\ WF_vars(JobStep)
--------------------------------------------------------------------------------
(***************************************************************************)
(* Properties.                                                             *)
(***************************************************************************)

(***************************************************************************)
(* What the requirements say of the bars themselves.  A median lies in the *)
(* middle, so that half of the values decide which way it can be.          *)
(***************************************************************************)

Usable(h) == {d \in Sessions : h.bars[d].close > 0}

\* The last bars with a volume, and those of them with enough of it.
Traded(h) ==
    {d \in Usable(h) : /\ h.bars[d].volume > 0
                       /\ Cardinality({e \in Usable(h) : e > d}) < LiquidityLookback}
Busy(h) == {d \in Traded(h) : DollarVolume(h, d) >= MinimumVolume}

Covered(h) ==
    /\ h.calendar => Cardinality(Sessions \ Usable(h)) <= MaximumMissing
    /\ h.start # None
    /\ \E d \in Usable(h) : d - h.start >= MinimumHistory
    /\ Traded(h) # {}

MayQualify ==
    {h \in Histories : Covered(h) /\ 2 * Cardinality(Busy(h)) >= Cardinality(Traded(h))}
MustQualify ==
    {h \in Histories : Covered(h) /\ 2 * Cardinality(Busy(h)) > Cardinality(Traded(h))}

Volume(h) == Profile[h].statistics.volume

Known(s) == s \in current /\ answered[s] # NoAnswer /\ profiles[s].age <= MaximumAge

\* When the training universe is decided, a member is represented by a current
\* security whose latest scan is recent and found a history that meets the
\* requirements: nothing that an older scan found is used after a failure.  The
\* requirement on missing sessions is waived if they could not be looked up.
MembersQualify ==
    [][phase = "training" /\ phase' = "scoring" =>
         \A c \in Companies : training'[c] # Excluded =>
           Known(training'[c]) /\ answered[training'[c]] \in MayQualify]_vars

\* A company that has such a security and enough reports is left out only for
\* another current security that is at least as liquid.
OnlyDisplaced ==
    [][phase = "training" /\ phase' = "scoring" =>
         \A s \in Securities :
           /\ Known(s)
           /\ answered[s] \in MustQualify
           /\ DataProfile[Company[s]].annual >= MinimumAnnual
           /\ DataProfile[Company[s]].coverage >= MinimumCoverage
           /\ training'[Company[s]] = Excluded
           => \E t \in Securities \ {s} :
                /\ Company[t] = Company[s]
                /\ Known(t)
                /\ Volume(answered[t]) >= Volume(answered[s])]_vars

\* The order and the limit of the targets starve nobody: a security that is due
\* is scanned or stops being due, whatever finite number of runs fail.
DueIsScanned == \A s \in Securities : []<>~Due(s)

\* The scoring universe follows the training universe: again and again nobody is
\* scored but members, by the security that represents them, although jobs fail
\* between the two assets; unless two members share a manual ticker for ever,
\* which stops the scoring universe for all of them.
ScoringFollows ==
    ([]<>~AmbiguousTicker(training)) =>
      []<>(\A c \in Companies : scoring[c] \in {training[c], Excluded})

GivenUp(s) == profiles[s].status \in {"instrument_not_found", "no_usable_bars"}

\* Security s is looked at, and what the latest scans of its company's
\* securities have found, if anything, meets the requirements.
Sound(s) ==
    /\ s \in current /\ ~GivenUp(s)
    /\ \A t \in Securities :
         Company[t] = Company[s] /\ ~GivenUp(t) =>
           answered[t] \in MustQualify \cup {NoAnswer}

\* A company whose prices meet the requirements whenever the provider answers
\* returns to the training universe again and again, whatever failures there
\* were, unless its security has been given up.
Recovers ==
    \A s \in Securities :
      /\ DataProfile[Company[s]].annual >= MinimumAnnual
      /\ DataProfile[Company[s]].coverage >= MinimumCoverage
      => (<>[]Sound(s) => []<>(training[Company[s]] # Excluded))
================================================================================
