--------------------------- MODULE UniverseSelection ---------------------------
(***************************************************************************)
(* The pure functions between a provider's price history and the universes:*)
(* the statistics of a market profile (MarketProfileCalculator), the       *)
(* choice of the security that represents a company                        *)
(* (EligibleSecuritySelector), and the decisions of the training and the   *)
(* scoring universe (TrainingUniverseEvaluator, ScoringUniverseEvaluator). *)
(*                                                                         *)
(* A history is [start, bars, calendar]: the provider's start date, or     *)
(* None, the bar of every session of the requested window, or NoBar, and   *)
(* whether the exchange's sessions can be looked up.  Sessions are         *)
(* 1 .. LastSession; dates before the window are not positive.  Amounts    *)
(* are small natural numbers and None is NULL.                             *)
(***************************************************************************)
EXTENDS Integers, FiniteSets, Sequences

CONSTANTS
    Companies,
    Securities,
    Company,                \* Company[s]: the company that issued s
    Ticker,                 \* Ticker[s]: a number, in alphabetical order
    LastSession,            \* sessions of the calendar in the window
    LiquidityLookback,      \* liquidity_lookback_sessions
    DataProfile,            \* DataProfile[c]: row of company_data_profiles
    MinimumAnnual,          \* minimum_annual_periods
    MinimumCoverage,        \* minimum_canonical_metric_coverage
    MinimumHistory,         \* minimum_price_history_years, in sessions
    MinimumVolume,          \* minimum_median_daily_dollar_volume
    MaximumMissing,         \* maximum_missing_trading_day_ratio, in sessions
    MaximumAge,             \* maximum_market_profile_age_days
    InBuckets,              \* companies with a SIC code of an included bucket
    IncludeCiks, IncludeTickers, ExcludeCiks, ExcludeTickers    \* manual_*

None == -1
NoBar == [close |-> None, adjusted |-> None, volume |-> None]
Excluded == "excluded"
\* No row of company_data_profiles.
NoData == [annual |-> None, coverage |-> None]

Sessions == 1 .. LastSession

Amount == Nat \cup {None}

HistoryType ==
    [start: Int,
     bars: [Sessions -> [close: Amount, adjusted: Amount, volume: Amount]],
     calendar: BOOLEAN]

ASSUME SelectionAssumption ==
    /\ IsFiniteSet(Companies)
    /\ IsFiniteSet(Securities)
    /\ Excluded \notin Securities
    /\ Company \in [Securities -> Companies]
    /\ Ticker \in [Securities -> Nat]
    /\ LastSession \in Nat
    /\ LiquidityLookback \in Nat \ {0}
    /\ DataProfile \in [Companies -> [annual: Nat, coverage: Nat] \cup {NoData}]
    /\ {MinimumAnnual, MinimumCoverage, MinimumHistory, MinimumVolume,
        MaximumMissing, MaximumAge} \subseteq Nat
    /\ InBuckets \cup IncludeCiks \cup ExcludeCiks \subseteq Companies
    /\ IncludeTickers \cup ExcludeTickers \subseteq Nat
--------------------------------------------------------------------------------
(***************************************************************************)
(* MarketProfileCalculator.calculate.                                      *)
(***************************************************************************)

\* _valid_bars
Valid(h) == {d \in Sessions : h.bars[d].close > 0}

Latest(h) == CHOOSE d \in Valid(h) : \A e \in Valid(h) : e <= d

\* bars_sorted[-lookback_sessions:]
Recent(h) ==
    {d \in Valid(h) : Cardinality({e \in Valid(h) : e > d}) < LiquidityLookback}

DollarVolume(h, d) == h.bars[d].close * h.bars[d].volume

\* The place of d when the days S are sorted by dollar volume.
Place(h, S, d) ==
    Cardinality({e \in S : \/ DollarVolume(h, e) < DollarVolume(h, d)
                           \/ DollarVolume(h, e) = DollarVolume(h, d) /\ e <= d})

\* Twice the median dollar volume of the recent bars with volume.
MedianVolume(h) ==
    LET traded == {d \in Recent(h) : h.bars[d].volume > 0}
        n == Cardinality(traded)
        volume(k) == DollarVolume(h, CHOOSE d \in traded : Place(h, traded, d) = k)
    IN  IF n = 0 THEN None ELSE volume((n + 1) \div 2) + volume(n \div 2 + 1)

\* missing_trading_day_ratio times the number of sessions; None if the exchange
\* has no calendar or its calendar cannot be read for the window.
MissingDays(h) == IF h.calendar /\ Sessions # {} THEN Cardinality(Sessions \ Valid(h))
                  ELSE None

NoStatistics == [history |-> None, volume |-> None, missing |-> None, close |-> None]

Calculate(h) ==
    IF Valid(h) = {} THEN [status |-> "no_usable_bars", statistics |-> NoStatistics]
    ELSE [status |-> "success",
          statistics |->
            [history |-> IF h.start = None THEN None ELSE Latest(h) - h.start,
             volume |-> MedianVolume(h),
             missing |-> MissingDays(h),
             close |-> LET bar == h.bars[Latest(h)]
                       IN  IF bar.adjusted # None THEN bar.adjusted ELSE bar.close]]
--------------------------------------------------------------------------------
(***************************************************************************)
(* EligibleSecuritySelector.select and the decision on a company.  rows[s] *)
(* is the stored profile of s, [status, statistics, age], or None.         *)
(***************************************************************************)

\* _is_eligible
Eligible(rows, current, s) ==
    /\ s \in current
    /\ rows[s].status = "success"
    /\ rows[s].age <= MaximumAge
    /\ rows[s].statistics.close # None

Descending(n) == IF n = None THEN <<1, 0>> ELSE <<0, -n>>
Ascending(n) == IF n = None THEN <<1, 0>> ELSE <<0, n>>

\* Mutant: a missing volume sorts first.
Key_NoneFirst(row, s) ==
    << IF row.statistics.volume = None THEN 0 ELSE 1 >>
      \o Descending(row.statistics.volume) \o Descending(row.statistics.history)
      \o Ascending(row.statistics.missing) \o <<row.age, Ticker[s]>>

\* _sort_key; the latest scan is the smallest age.
Key(row, s) ==
    Descending(row.statistics.volume) \o Descending(row.statistics.history)
      \o Ascending(row.statistics.missing) \o <<row.age, Ticker[s]>>

Before(k, l) ==
    \E i \in DOMAIN k : k[i] < l[i] /\ \A j \in 1 .. i - 1 : k[j] = l[j]

\* The order of security_id among securities with one key is not modelled.
Select(rows, eligible) ==
    CHOOSE s \in eligible : \A t \in eligible : ~Before(Key(rows[t], t), Key(rows[s], s))

\* The thresholds on the selected security.
Passes(p) ==
    /\ p.history # None /\ p.history >= MinimumHistory
    /\ p.volume # None /\ p.volume >= 2 * MinimumVolume
    /\ p.missing = None \/ p.missing <= MaximumMissing
    /\ p.close # None

\* TrainingUniverseEvaluator.evaluate on a member of the candidate universe:
\* the security that represents c, or Excluded.
TrainingDecision(rows, current, c) ==
    LET data == DataProfile[c]
        eligible == {s \in Securities : Company[s] = c /\ Eligible(rows, current, s)}
        selected == Select(rows, eligible)
    IN  IF /\ data # NoData
           /\ data.annual >= MinimumAnnual
           /\ data.coverage >= MinimumCoverage
           /\ eligible # {}
           /\ Passes(rows[selected].statistics)
        THEN selected ELSE Excluded
--------------------------------------------------------------------------------
(***************************************************************************)
(* ScoringUniverseEvaluator.  training[c] is the security of the training  *)
(* membership of c, or Excluded.                                           *)
(***************************************************************************)

\* validate_manual_tickers raises.
AmbiguousTicker(training) ==
    \E c, d \in Companies :
      /\ c # d
      /\ training[c] # Excluded /\ training[d] # Excluded
      /\ Ticker[training[c]] = Ticker[training[d]]
      /\ Ticker[training[c]] \in IncludeTickers \cup ExcludeTickers

ScoringDecision(training, c) ==
    LET s == training[c]
    IN  IF /\ s # Excluded
           /\ c \notin ExcludeCiks /\ Ticker[s] \notin ExcludeTickers
           /\ c \in InBuckets \/ c \in IncludeCiks \/ Ticker[s] \in IncludeTickers
        THEN s ELSE Excluded
================================================================================
