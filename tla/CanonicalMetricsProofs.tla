------------------------- MODULE CanonicalMetricsProofs -------------------------
(***************************************************************************)
(* Proofs about CanonicalMetrics, for any finite set of companies, facts   *)
(* derived in any order, and any number of overlapping runs.               *)
(***************************************************************************)
EXTENDS CanonicalMetrics, FiniteSetTheorems, WellFoundedInduction, NaturalsInduction, TLAPS

\* The types the argument needs; the derivations are not bounded here.
Typed ==
    /\ xbrl_facts \in [Companies -> SUBSET Facts]
    /\ displaced \in [Companies -> SUBSET Facts]
    /\ metrics \in [Companies -> SUBSET Facts]
    /\ run_status \in [Runs -> Statuses]
    /\ batch \in [Runs -> SUBSET Companies]
    /\ todo \in [Runs -> SUBSET Companies]
    /\ read \in [Runs -> [Companies -> SUBSET Facts]]

\* A winner among the facts of c, now or before a better one was derived.
Won(c) == Resolved(xbrl_facts[c]) \cup displaced[c]

WinnersAreStored == \A c \in Companies : displaced[c] \subseteq Candidates(xbrl_facts[c])

\* What a run selects from the facts it has read has won.
ReadHasWon ==
    \A r \in Runs, c \in Companies : Resolved(read[r][c]) \subseteq Won(c)

RowsHaveWon == \A c \in Companies : metrics[c] \subseteq Won(c)

MetricsInv ==
    /\ Typed
    /\ WinnersAreStored
    /\ ReadHasWon
    /\ RowsHaveWon

\* Accession number and fact id tell the facts of a date apart.
NumbersIdentify ==
    \A f, g \in Facts : f.filed = g.filed /\ f.source.no = g.source.no => f = g

--------------------------------------------------------------------------------
(* Resolution. *)

LEMMA SourceFields ==
    ASSUME NEW f \in Facts
    PROVE  /\ f.source.concept \in Nat /\ f.source.no \in Nat
           /\ Penalty(f.source) \in {0, 1}
           /\ Penalty(f.source) = 1 <=> f.source.form \in Amendments
<1>1. f.source \in SourceType
  BY CanonicalAssumption
<1> QED
  BY <1>1 DEF SourceType, Penalty

LEMMA SameGroupIsSymmetric == \A f, g : SameGroup(f, g) => SameGroup(g, f)
BY DEF SameGroup

\* A group has one winner.
LEMMA OneWinner ==
    ASSUME NumbersIdentify, NEW F \in SUBSET Facts,
           NEW f \in Resolved(F), NEW g \in Resolved(F), SameGroup(f, g)
    PROVE  f = g
<1>1. f \in Candidates(F) /\ g \in Candidates(F)
  BY DEF Resolved
<1>2. f \in Facts /\ g \in Facts
  BY <1>1 DEF Candidates
<1>3. ~Precedes(g.source, f.source) /\ ~Precedes(f.source, g.source)
  BY <1>1, SameGroupIsSymmetric DEF Resolved
<1>4. f.source.no = g.source.no
  BY <1>2, <1>3, SourceFields DEF Precedes
<1> QED
  BY <1>2, <1>4 DEF NumbersIdentify, SameGroup

--------------------------------------------------------------------------------
(* Steps. *)

\* Facts change by a derivation, rows by an insert.
LEMMA DatabaseSteps ==
    ASSUME [Next]_vars
    PROVE  \/ UNCHANGED <<xbrl_facts, displaced, metrics>>
           \/ \E c \in Companies : FactsIngested(c)
           \/ \E r \in Runs : InsertMetrics(r)
<1>1. ASSUME NEW r \in Runs,
             BeginRun(r) \/ SelectFacts(r) \/ SelectExisting(r) \/ ConflictRaised(r)
               \/ FinishRun(r) \/ DatabaseFails(r) \/ Crash(r)
      PROVE  UNCHANGED <<xbrl_facts, displaced, metrics>>
  BY <1>1 DEF BeginRun, SelectFacts, SelectExisting, ConflictRaised, FinishRun, DatabaseFails,
              Crash, Abort, Leave, database, facts
<1>2. CASE UNCHANGED vars
  BY <1>2 DEF vars, database, facts
<1> QED
  BY <1>1, <1>2 DEF Next, RunStep

\* Facts stay, and a winner that a derivation displaces is remembered.
LEMMA Deriving ==
    ASSUME Typed, WinnersAreStored, NEW c \in Companies, FactsIngested(c)
    PROVE  /\ xbrl_facts' \in [Companies -> SUBSET Facts]
           /\ displaced' \in [Companies -> SUBSET Facts]
           /\ \A d \in Companies :
                /\ xbrl_facts[d] \subseteq xbrl_facts'[d]
                /\ Won(d) \subseteq Won(d)'
                /\ displaced'[d] \subseteq Candidates(xbrl_facts'[d])
<1>1. PICK new \in Derivations : xbrl_facts' = [xbrl_facts EXCEPT ![c] = @ \cup new]
  BY DEF FactsIngested
<1>2. displaced' = [displaced EXCEPT ![c] =
        @ \cup (Resolved(xbrl_facts[c]) \ Resolved(xbrl_facts'[c]))]
  BY DEF FactsIngested
<1>3. new \subseteq Facts
  BY DEF Facts
<1>4. /\ xbrl_facts' \in [Companies -> SUBSET Facts]
      /\ xbrl_facts'[c] = xbrl_facts[c] \cup new
      /\ \A d \in Companies \ {c} : xbrl_facts'[d] = xbrl_facts[d]
  BY <1>1, <1>3 DEF Typed
<1>5. Resolved(xbrl_facts[c]) \subseteq Candidates(xbrl_facts[c])
  BY DEF Resolved
<1>6. Candidates(xbrl_facts[c]) \subseteq Candidates(xbrl_facts'[c])
  BY <1>4 DEF Candidates
<1>7. Resolved(xbrl_facts[c]) \subseteq Facts
  BY <1>5 DEF Candidates, Typed
<1> DEFINE lost == Resolved(xbrl_facts[c]) \ Resolved(xbrl_facts'[c])
<1>8. displaced' = [displaced EXCEPT ![c] = @ \cup lost]
  BY <1>2
<1>9. lost \subseteq Facts
  BY <1>7
<1>10. /\ displaced' \in [Companies -> SUBSET Facts]
       /\ displaced'[c] = displaced[c] \cup lost
       /\ \A d \in Companies \ {c} : displaced'[d] = displaced[d]
  <2> HIDE DEF lost
  <2> QED
    BY <1>8, <1>9 DEF Typed
<1>11. ASSUME NEW d \in Companies
       PROVE  /\ xbrl_facts[d] \subseteq xbrl_facts'[d]
              /\ Won(d) \subseteq Won(d)'
              /\ displaced'[d] \subseteq Candidates(xbrl_facts'[d])
  <2>1. CASE d = c
    <3>1. displaced[c] \subseteq Candidates(xbrl_facts[c])
      BY DEF WinnersAreStored
    <3>2. Won(c) \subseteq Resolved(xbrl_facts'[c]) \cup displaced'[c]
      BY <1>10 DEF Won
    <3> QED
      BY <1>4, <1>5, <1>6, <1>10, <2>1, <3>1, <3>2 DEF Won
  <2>2. CASE d # c
    <3>1. xbrl_facts'[d] = xbrl_facts[d] /\ displaced'[d] = displaced[d]
      BY <1>4, <1>10, <2>2
    <3> QED
      BY <3>1 DEF Won, WinnersAreStored
  <2> QED
    BY <2>1, <2>2
<1> QED
  BY <1>4, <1>10, <1>11

\* An insert adds winners of what was read and keeps every row.
LEMMA Inserting ==
    ASSUME MetricsInv, NEW r \in Runs, InsertMetrics(r)
    PROVE  \A c \in Companies : /\ metrics[c] \subseteq metrics'[c]
                                /\ metrics'[c] \subseteq metrics[c] \cup Resolved(read[r][c])
<1>1. PICK first \in [batch[r] -> SUBSET UNION {ToInsert(r, c) : c \in batch[r]}] :
        /\ \A c \in batch[r] : first[c] \subseteq ToInsert(r, c)
        /\ metrics' = [c \in Companies |->
             IF c \in batch[r] THEN Inserted(metrics[c], first[c]) ELSE metrics[c]]
  BY DEF InsertMetrics
<1>2. \A c \in batch[r] : first[c] \subseteq Resolved(read[r][c])
  BY <1>1 DEF ToInsert
<1> QED
  BY <1>1, <1>2 DEF Inserted

--------------------------------------------------------------------------------
(* The invariant. *)

LEMMA TypedNext == MetricsInv /\ [Next]_vars => Typed'
<1> SUFFICES ASSUME MetricsInv, [Next]_vars PROVE Typed'
  OBVIOUS
<1>1. Typed
  BY DEF MetricsInv
<1>2. CASE UNCHANGED vars
  BY <1>1, <1>2 DEF vars, database, facts, Typed
<1>3. ASSUME NEW c \in Companies, FactsIngested(c) PROVE Typed'
  BY <1>1, <1>3, Deriving DEF FactsIngested, Typed, MetricsInv
<1>4. ASSUME NEW r \in Runs, BeginRun(r) PROVE Typed'
  <2>1. [c \in Companies |-> {}] \in [Companies -> SUBSET Facts]
    OBVIOUS
  <2>2. /\ read' \in [Runs -> [Companies -> SUBSET Facts]]
        /\ todo' \in [Runs -> SUBSET Companies]
        /\ run_status' \in [Runs -> Statuses]
    BY <1>1, <1>4, <2>1 DEF BeginRun, Typed, Statuses
  <2> QED
    BY <1>1, <1>4, <2>2 DEF BeginRun, Typed, database, facts
<1>5. ASSUME NEW r \in Runs, SelectFacts(r) PROVE Typed'
  <2>1. PICK b \in SUBSET todo[r] :
          /\ batch' = [batch EXCEPT ![r] = b]
          /\ todo' = [todo EXCEPT ![r] = @ \ b]
          /\ read' = [read EXCEPT ![r] =
               [c \in Companies |-> IF c \in b THEN xbrl_facts[c] ELSE read[r][c]]]
    BY <1>5 DEF SelectFacts
  <2> DEFINE now == [c \in Companies |-> IF c \in b THEN xbrl_facts[c] ELSE read[r][c]]
  <2>2. now \in [Companies -> SUBSET Facts]
    BY <1>1 DEF Typed
  <2>3. read' = [read EXCEPT ![r] = now]
    BY <2>1
  <2> HIDE DEF now
  <2>4. read' \in [Runs -> [Companies -> SUBSET Facts]]
    BY <1>1, <2>2, <2>3 DEF Typed
  <2>5. b \subseteq Companies
    BY <1>1 DEF Typed
  <2>6. /\ batch' \in [Runs -> SUBSET Companies]
        /\ todo' \in [Runs -> SUBSET Companies]
    BY <1>1, <2>1, <2>5 DEF Typed
  <2> QED
    BY <1>1, <1>5, <2>4, <2>6 DEF SelectFacts, Typed, database, facts
<1>6. ASSUME NEW r \in Runs, InsertMetrics(r) PROVE Typed'
  <2>1. \A c \in Companies : metrics'[c] \subseteq metrics[c] \cup Resolved(read[r][c])
    BY <1>6, Inserting
  <2>2. \A c \in Companies : Resolved(read[r][c]) \subseteq Facts /\ metrics[c] \subseteq Facts
    BY <1>1 DEF Typed, Resolved, Candidates
  <2>3. \E F : metrics' = [c \in Companies |-> F[c]]
    <3>1. PICK first : metrics' = [c \in Companies |->
             IF c \in batch[r] THEN Inserted(metrics[c], first[c]) ELSE metrics[c]]
      BY <1>6 DEF InsertMetrics
    <3>2. metrics' = [c \in Companies |-> metrics'[c]]
      BY <3>1
    <3> QED
      BY <3>2
  <2>4. metrics' \in [Companies -> SUBSET Facts]
    BY <2>1, <2>2, <2>3
  <2>5. batch' \in [Runs -> SUBSET Companies]
    BY <1>1, <1>6 DEF InsertMetrics, EndBatch, Typed
  <2> QED
    BY <1>1, <1>6, <2>4, <2>5 DEF InsertMetrics, Typed, facts
<1>7. ASSUME NEW r \in Runs, Leave(r), run_status' \in [Runs -> Statuses],
             read' \in [Runs -> [Companies -> SUBSET Facts]]
      PROVE  Typed'
  <2>1. /\ batch' \in [Runs -> SUBSET Companies]
        /\ todo' \in [Runs -> SUBSET Companies]
    BY <1>1, <1>7 DEF Leave, EndBatch, Typed
  <2> QED
    BY <1>1, <1>7, <2>1 DEF Leave, Typed, database, facts
<1>8. ASSUME NEW r \in Runs, Abort(r), run_status' \in [Runs -> Statuses] PROVE Typed'
  <2>1. [c \in Companies |-> {}] \in [Companies -> SUBSET Facts]
    OBVIOUS
  <2>2. read' \in [Runs -> [Companies -> SUBSET Facts]]
    BY <1>1, <1>8, <2>1 DEF Abort, Typed
  <2> QED
    BY <1>7, <1>8, <2>2 DEF Abort
<1>9. ASSUME NEW r \in Runs, SelectExisting(r) PROVE Typed'
  BY <1>1, <1>9 DEF SelectExisting, Typed, database, facts
<1>10. ASSUME NEW r \in Runs, FinishRun(r) PROVE Typed'
  <2>1. run_status' \in [Runs -> Statuses] /\ UNCHANGED read
    BY <1>1, <1>10 DEF FinishRun, Typed, Statuses
  <2> QED
    BY <1>1, <1>7, <1>10, <2>1 DEF FinishRun, Typed
<1>11. ASSUME NEW r \in Runs, ConflictRaised(r) \/ DatabaseFails(r) \/ Crash(r) PROVE Typed'
  <2>1. run_status' \in [Runs -> Statuses]
    BY <1>1, <1>11 DEF ConflictRaised, DatabaseFails, Crash, Typed, Statuses
  <2> QED
    BY <1>8, <1>11, <2>1 DEF ConflictRaised, DatabaseFails, Crash
<1> QED
  BY <1>2, <1>3, <1>4, <1>5, <1>6, <1>9, <1>10, <1>11 DEF Next, RunStep

LEMMA FactsStay ==
    ASSUME MetricsInv, [Next]_vars, NEW c \in Companies
    PROVE  /\ xbrl_facts[c] \subseteq xbrl_facts'[c]
           /\ displaced'[c] \subseteq Candidates(xbrl_facts'[c])
           /\ Won(c) \subseteq Won(c)'
<1>1. Typed /\ WinnersAreStored
  BY DEF MetricsInv
<1>2. CASE UNCHANGED <<xbrl_facts, displaced>>
  BY <1>1, <1>2 DEF Won, WinnersAreStored
<1>3. ASSUME NEW r \in Runs, InsertMetrics(r) PROVE UNCHANGED <<xbrl_facts, displaced>>
  BY <1>3 DEF InsertMetrics, facts
<1> QED
  BY <1>1, <1>2, <1>3, Deriving, DatabaseSteps

\* A displaced fact stays displaced.
LEMMA DisplacedStays ==
    ASSUME Typed, [Next]_vars, NEW c \in Companies
    PROVE  displaced[c] \subseteq displaced'[c]
<1>1. ASSUME NEW d \in Companies, FactsIngested(d) PROVE displaced[c] \subseteq displaced'[c]
  BY <1>1 DEF FactsIngested, Typed
<1>2. ASSUME NEW r \in Runs, InsertMetrics(r) PROVE displaced' = displaced
  BY <1>2 DEF InsertMetrics, facts
<1> QED
  BY <1>1, <1>2, DatabaseSteps

\* A batch is read at one moment, and what is derived later displaces openly.
LEMMA ReadNext == MetricsInv /\ [Next]_vars => ReadHasWon'
<1> SUFFICES ASSUME MetricsInv, [Next]_vars, NEW q \in Runs, NEW c \in Companies
             PROVE  Resolved(read'[q][c]) \subseteq Won(c)'
  BY DEF ReadHasWon, Resolved, Candidates
<1>1. Typed /\ Resolved(read[q][c]) \subseteq Won(c)
  BY DEF MetricsInv, ReadHasWon
<1>2. Won(c) \subseteq Won(c)'
  BY FactsStay
<1>3. CASE read'[q][c] = read[q][c]
  BY <1>1, <1>2, <1>3
<1>4. CASE read'[q][c] = {}
  BY <1>4 DEF Resolved, Candidates
<1>5. CASE read'[q][c] = xbrl_facts[c]
  BY <1>2, <1>5 DEF Won
<1>6. read'[q][c] \in {read[q][c], {}, xbrl_facts[c]}
  <2>1. ASSUME NEW r \in Runs, BeginRun(r) \/ Abort(r)
        PROVE  read'[q][c] \in {read[q][c], {}, xbrl_facts[c]}
    <3>1. read' = [read EXCEPT ![r] = [d \in Companies |-> {}]]
      BY <2>1 DEF BeginRun, Abort
    <3>2. read'[q] = IF q = r THEN [d \in Companies |-> {}] ELSE read[q]
      BY <1>1, <3>1 DEF Typed
    <3> QED
      BY <3>2
  <2>2. ASSUME NEW r \in Runs, SelectFacts(r)
        PROVE  read'[q][c] \in {read[q][c], {}, xbrl_facts[c]}
    <3>1. PICK b : read' = [read EXCEPT ![r] =
             [d \in Companies |-> IF d \in b THEN xbrl_facts[d] ELSE read[r][d]]]
      BY <2>2 DEF SelectFacts
    <3>2. read'[q] = IF q = r
                     THEN [d \in Companies |-> IF d \in b THEN xbrl_facts[d] ELSE read[r][d]]
                     ELSE read[q]
      BY <1>1, <3>1 DEF Typed
    <3> QED
      BY <3>2
  <2>3. ASSUME NEW r \in Runs, SelectExisting(r) \/ InsertMetrics(r) \/ FinishRun(r)
        PROVE  read' = read
    BY <2>3 DEF SelectExisting, InsertMetrics, FinishRun
  <2>4. ASSUME NEW r \in Runs, ConflictRaised(r) \/ DatabaseFails(r) \/ Crash(r)
        PROVE  Abort(r)
    BY <2>4 DEF ConflictRaised, DatabaseFails, Crash
  <2>5. CASE UNCHANGED vars \/ \E d \in Companies : FactsIngested(d)
    BY <2>5 DEF vars, FactsIngested
  <2> QED
    BY <2>1, <2>2, <2>3, <2>4, <2>5 DEF Next, RunStep
<1> QED
  BY <1>3, <1>4, <1>5, <1>6

LEMMA RowsStay ==
    ASSUME MetricsInv, [Next]_vars, NEW c \in Companies
    PROVE  metrics[c] \subseteq metrics'[c]
<1>1. ASSUME NEW d \in Companies, FactsIngested(d) PROVE metrics' = metrics
  BY <1>1 DEF FactsIngested
<1> QED
  BY <1>1, Inserting, DatabaseSteps

LEMMA RowsNext == MetricsInv /\ [Next]_vars => RowsHaveWon'
<1> SUFFICES ASSUME MetricsInv, [Next]_vars, NEW c \in Companies
             PROVE  metrics'[c] \subseteq Won(c)'
  BY DEF RowsHaveWon
<1>1. metrics[c] \subseteq Won(c) /\ Won(c) \subseteq Won(c)'
  BY FactsStay DEF MetricsInv, RowsHaveWon
<1>2. CASE metrics' = metrics
  BY <1>1, <1>2
<1>3. ASSUME NEW r \in Runs, InsertMetrics(r) PROVE metrics'[c] \subseteq Won(c)'
  <2>1. metrics'[c] \subseteq metrics[c] \cup Resolved(read[r][c])
    BY <1>3, Inserting
  <2>2. Resolved(read[r][c]) \subseteq Won(c)
    BY DEF MetricsInv, ReadHasWon
  <2> QED
    BY <1>1, <2>1, <2>2
<1>4. ASSUME NEW d \in Companies, FactsIngested(d) PROVE metrics' = metrics
  BY <1>4 DEF FactsIngested
<1> QED
  BY <1>2, <1>3, <1>4, DatabaseSteps

ConflictCaused == TwoStartsFiled \/ \E c \in Companies : displaced[c] # {}

LEMMA ConflictNext ==
    NumbersIdentify /\ MetricsInv /\ ConflictHasCause /\ [Next]_vars => ConflictHasCause'
<1> SUFFICES ASSUME NumbersIdentify, MetricsInv, ConflictHasCause, [Next]_vars,
                    NEW q \in Runs, run_status'[q] = "conflict"
             PROVE  ConflictCaused'
  BY DEF ConflictHasCause, ConflictCaused
<1>1. Typed
  BY DEF MetricsInv
<1>2. ASSUME ConflictCaused PROVE ConflictCaused'
  <2>1. ASSUME NEW c \in Companies, displaced[c] # {} PROVE displaced'[c] # {}
    BY <1>1, <2>1, DisplacedStays
  <2>2. CASE TwoStartsFiled
    <3>1. PICK c \in Companies : \E f, g \in Candidates(xbrl_facts[c]) :
            KeyOf(f) = KeyOf(g) /\ ~SameGroup(f, g)
      BY <2>2 DEF TwoStartsFiled
    <3>2. PICK f \in Candidates(xbrl_facts[c]), g \in Candidates(xbrl_facts[c]) :
            KeyOf(f) = KeyOf(g) /\ ~SameGroup(f, g)
      BY <3>1
    <3>3. f \in Candidates(xbrl_facts'[c]) /\ g \in Candidates(xbrl_facts'[c])
      BY FactsStay DEF Candidates
    <3> QED
      BY <3>2, <3>3 DEF ConflictCaused, TwoStartsFiled, Candidates
  <2> QED
    BY <1>2, <2>1, <2>2 DEF ConflictCaused
<1>3. CASE run_status[q] = "conflict"
  BY <1>2, <1>3 DEF ConflictHasCause, ConflictCaused
<1>4. CASE ConflictRaised(q)
  <2>1. PICK c \in batch[q] : \E v \in Resolved(read[q][c]), x \in metrics[c] :
          KeyOf(x) = KeyOf(v) /\ x # v
    BY <1>4 DEF ConflictRaised, Conflicting
  <2>2. PICK w \in Resolved(read[q][c]), row \in metrics[c] : KeyOf(row) = KeyOf(w) /\ row # w
    BY <2>1
  <2>3. c \in Companies
    BY <1>1 DEF Typed
  <2>4. w \in Won(c) /\ row \in Won(c)
    BY <2>2, <2>3 DEF MetricsInv, ReadHasWon, RowsHaveWon
  <2>5. CASE displaced[c] # {}
    BY <1>2, <2>3, <2>5 DEF ConflictCaused
  <2>6. CASE displaced[c] = {}
    <3>1. w \in Resolved(xbrl_facts[c]) /\ row \in Resolved(xbrl_facts[c])
      BY <2>4, <2>6 DEF Won
    <3>2. xbrl_facts[c] \in SUBSET Facts
      BY <1>1, <2>3 DEF Typed
    <3>3. ~SameGroup(row, w)
      BY <2>2, <3>1, <3>2, OneWinner
    <3>4. row \in Candidates(xbrl_facts[c]) /\ w \in Candidates(xbrl_facts[c])
      BY <3>1 DEF Resolved
    <3> QED
      BY <1>2, <2>2, <2>3, <3>3, <3>4 DEF ConflictCaused, TwoStartsFiled
  <2> QED
    BY <2>5, <2>6
<1>5. run_status[q] = "conflict" \/ ConflictRaised(q)
  <2>1. CASE UNCHANGED vars \/ \E d \in Companies : FactsIngested(d)
    BY <2>1 DEF vars, FactsIngested
  <2>2. ASSUME NEW r \in Runs, BeginRun(r) \/ FinishRun(r) \/ DatabaseFails(r)
        PROVE  run_status[q] = "conflict"
    BY <1>1, <2>2 DEF BeginRun, FinishRun, DatabaseFails, Typed
  <2>3. ASSUME NEW r \in Runs, SelectFacts(r) \/ SelectExisting(r) \/ InsertMetrics(r) \/ Crash(r)
        PROVE  run_status[q] = "conflict"
    BY <2>3 DEF SelectFacts, SelectExisting, InsertMetrics, Crash
  <2>4. ASSUME NEW r \in Runs, ConflictRaised(r), r # q PROVE run_status[q] = "conflict"
    BY <1>1, <2>4 DEF ConflictRaised, Typed
  <2> QED
    BY <2>1, <2>2, <2>3, <2>4 DEF Next, RunStep
<1> QED
  BY <1>3, <1>4, <1>5

LEMMA MetricsInvariant == Spec => []MetricsInv
<1>1. Init => MetricsInv
  BY DEF Init, MetricsInv, Typed, WinnersAreStored, ReadHasWon, RowsHaveWon, Resolved,
         Candidates, Statuses
<1>2. MetricsInv /\ [Next]_vars => WinnersAreStored'
  BY FactsStay DEF WinnersAreStored, Candidates
<1>3. MetricsInv /\ [Next]_vars => MetricsInv'
  BY <1>2, TypedNext, ReadNext, RowsNext DEF MetricsInv
<1> QED
  BY <1>1, <1>3, PTL DEF Spec

--------------------------------------------------------------------------------
(* The theorems. *)

\* Whatever runs overlap and whatever is derived when, a row is the fact its filing
\* prescribes, the preferred concept and unamended where there is a choice, or was
\* until a better fact was derived.
THEOREM BestOfFiling == Spec => []RowIsBestOfItsFiling
<1>1. ASSUME MetricsInv, NEW c \in Companies, NEW row \in metrics[c]
      PROVE  /\ row \in Candidates(xbrl_facts[c])
             /\ row \notin displaced[c] =>
                  \A f \in Candidates(xbrl_facts[c]) : SameGroup(f, row) =>
                    /\ row.source.concept <= f.source.concept
                    /\ row.source.concept = f.source.concept
                         /\ row.source.form \in Amendments => f.source.form \in Amendments
  <2>1. row \in Won(c) /\ xbrl_facts[c] \subseteq Facts
    BY <1>1 DEF MetricsInv, RowsHaveWon, Typed
  <2>2. row \in Candidates(xbrl_facts[c]) /\ row \in Facts
    BY <1>1, <2>1 DEF MetricsInv, WinnersAreStored, Won, Resolved, Candidates
  <2>3. ASSUME row \notin displaced[c], NEW f \in Candidates(xbrl_facts[c]), SameGroup(f, row)
        PROVE  /\ row.source.concept <= f.source.concept
               /\ row.source.concept = f.source.concept
                    /\ row.source.form \in Amendments => f.source.form \in Amendments
    <3>1. f \in Facts /\ ~Precedes(f.source, row.source)
      BY <2>1, <2>3, SameGroupIsSymmetric DEF Won, Resolved, Candidates
    <3> QED
      BY <2>2, <3>1, SourceFields DEF Precedes
  <2> QED
    BY <2>2, <2>3
<1>2. MetricsInv => RowIsBestOfItsFiling
  BY <1>1 DEF RowIsBestOfItsFiling
<1> QED
  BY <1>2, MetricsInvariant, PTL

\* A run conflicts with an earlier one only over a filing with two starts or a fact
\* derived after a worse one of its group.
THEOREM ConflictCause == NumbersIdentify /\ Spec => []ConflictHasCause
<1>1. Init => ConflictHasCause
  BY DEF Init, ConflictHasCause
<1>2. NumbersIdentify /\ [Next]_vars => NumbersIdentify'
  BY DEF NumbersIdentify, Facts
<1> QED
  BY <1>1, <1>2, ConflictNext, MetricsInvariant, PTL DEF Spec

\* No run deletes or rewrites a row.
THEOREM RowsFinal == Spec => RowsAreFinal
<1>1. MetricsInv /\ [Next]_vars => [\A c \in Companies : metrics[c] \subseteq metrics'[c]]_vars
  BY RowsStay
<1> QED
  BY <1>1, MetricsInvariant, PTL DEF Spec, RowsAreFinal
--------------------------------------------------------------------------------
(* What a run has read is represented. *)

Covers(rows, F) == \A f \in Candidates(F) : HasKey(rows, KeyOf(f))

\* The rows of the companies cover what a run has read, except in its current
\* batch, and the rows it found are still there; p, status, bat, found and seen
\* are a run's phase, status, batch, existing rows and facts read.
CoverOf(p, status, bat, found, seen, rows) ==
    /\ p # "idle" => status = "running"
    /\ p \notin {"resolve", "insert"} => bat = {}
    /\ p # "idle" \/ status = "succeeded" =>
         \A c \in Companies \ bat : Covers(rows[c], seen[c])
    /\ p = "insert" => \A c \in bat : found[c] \subseteq rows[c]

CoverInv ==
    /\ phase \in [Runs -> {"idle", "next", "resolve", "insert"}]
    /\ DOMAIN existing = Runs
    /\ \A r \in Runs :
         CoverOf(phase[r], run_status[r], batch[r], existing[r], read[r], metrics)

\* A non-empty set has a member on which a natural-valued function is least.
LEMMA LeastValue ==
    ASSUME NEW G, G # {}, NEW rank \in [G -> Nat]
    PROVE  \E x \in G : \A y \in G : rank[x] <= rank[y]
<1> DEFINE T == {rank[x] : x \in G}
<1>1. T \subseteq Nat /\ T # {}
  OBVIOUS
<1> HIDE DEF T
<1>2. PICK n \in T : \A m \in T : ~ (<<m, n>> \in OpToRel(<, Nat))
  BY <1>1, NatLessThanWellFounded, WFMin
<1>3. ASSUME NEW m \in T PROVE n <= m
  <2>1. m \in Nat /\ n \in Nat
    BY <1>1
  <2>2. ~ (m < n)
    BY <1>2, <2>1, Zenon DEF OpToRel
  <2> QED
    BY <2>1, <2>2
<1>4. PICK x \in G : n = rank[x]
  BY DEF T
<1>5. \A y \in G : rank[y] \in T
  BY DEF T
<1> QED
  BY <1>3, <1>4, <1>5

LEMMA GroupsAreClasses ==
    /\ \A f : SameGroup(f, f)
    /\ \A f, g, h : SameGroup(f, g) /\ SameGroup(f, h) => SameGroup(g, h)
BY DEF SameGroup

\* Every candidate's group has a winner: the least number among the least
\* penalties among the least concepts.
LEMMA GroupHasWinner ==
    ASSUME NEW F \in SUBSET Facts, NEW f \in Candidates(F)
    PROVE  \E w \in Resolved(F) : KeyOf(w) = KeyOf(f)
<1> DEFINE G == {g \in Candidates(F) : SameGroup(f, g)}
<1>1. f \in G /\ G \subseteq Facts
  BY GroupsAreClasses DEF Candidates
<1>2. \A g \in G : /\ g.source.concept \in Nat /\ g.source.no \in Nat
                   /\ Penalty(g.source) \in Nat
  BY <1>1, SourceFields
<1> DEFINE concepts == [g \in G |-> g.source.concept]
<1>3. PICK a \in G : \A g \in G : concepts[a] <= concepts[g]
  <2>1. G # {} /\ concepts \in [G -> Nat]
    BY <1>1, <1>2
  <2> HIDE DEF G, concepts
  <2> QED
    BY <2>1, LeastValue
<1> DEFINE H == {g \in G : g.source.concept = a.source.concept}
           penalties == [g \in H |-> Penalty(g.source)]
<1>4. PICK b \in H : \A g \in H : penalties[b] <= penalties[g]
  <2>1. H # {} /\ penalties \in [H -> Nat]
    BY <1>2
  <2> HIDE DEF H, penalties
  <2> QED
    BY <2>1, LeastValue
<1> DEFINE I == {g \in H : Penalty(g.source) = Penalty(b.source)}
           numbers == [g \in I |-> g.source.no]
<1>5. PICK w \in I : \A g \in I : numbers[w] <= numbers[g]
  <2>1. I # {} /\ numbers \in [I -> Nat]
    BY <1>2
  <2> HIDE DEF I, numbers
  <2> QED
    BY <2>1, LeastValue
<1>6. w \in Candidates(F) /\ SameGroup(f, w)
  OBVIOUS
<1>7. ASSUME NEW g \in Candidates(F), SameGroup(w, g) PROVE ~Precedes(g.source, w.source)
  <2>1. g \in G
    BY <1>6, <1>7, GroupsAreClasses DEF SameGroup
  <2>2. a.source.concept <= g.source.concept
    BY <1>3, <2>1
  <2>3. g.source.concept = a.source.concept => Penalty(b.source) <= Penalty(g.source)
    BY <1>4, <2>1
  <2>4. g.source.concept = a.source.concept /\ Penalty(g.source) = Penalty(b.source)
          => w.source.no <= g.source.no
    BY <1>5, <2>1
  <2>5. w.source.concept = a.source.concept /\ Penalty(w.source) = Penalty(b.source)
    OBVIOUS
  <2>6. /\ a.source.concept \in Nat /\ g.source.concept \in Nat
        /\ Penalty(b.source) \in Nat /\ Penalty(g.source) \in Nat
        /\ w.source.no \in Nat /\ g.source.no \in Nat
    BY <1>2, <2>1
  <2> HIDE DEF G, H, I
  <2> QED
    BY <2>2, <2>3, <2>4, <2>5, <2>6 DEF Precedes
<1> QED
  BY <1>6, <1>7 DEF Resolved, SameGroup

\* Rows stay, so what is covered stays covered.
LEMMA CoverStays ==
    ASSUME MetricsInv, [Next]_vars, NEW r \in Runs,
           CoverOf(phase[r], run_status[r], batch[r], existing[r], read[r], metrics)
    PROVE  CoverOf(phase[r], run_status[r], batch[r], existing[r], read[r], metrics')
<1>1. batch[r] \subseteq Companies
  BY DEF MetricsInv, Typed
<1>2. \A c \in Companies : metrics[c] \subseteq metrics'[c]
  BY RowsStay
<1> QED
  BY <1>1, <1>2 DEF CoverOf, Covers, HasKey

\* An insert leaves a row for every key of the batch.
LEMMA InsertCovers ==
    ASSUME MetricsInv, CoverInv, NEW r \in Runs, InsertMetrics(r), NEW c \in batch[r]
    PROVE  Covers(metrics'[c], read[r][c])
<1>1. c \in Companies /\ read[r][c] \in SUBSET Facts
  BY DEF MetricsInv, Typed
<1>2. PICK first \in [batch[r] -> SUBSET UNION {ToInsert(r, d) : d \in batch[r]}] :
        /\ \A d \in batch[r] :
             \A w \in ToInsert(r, d) :
               Cardinality({v \in first[d] : KeyOf(v) = KeyOf(w)}) = 1
        /\ metrics' = [d \in Companies |->
             IF d \in batch[r] THEN Inserted(metrics[d], first[d]) ELSE metrics[d]]
  BY DEF InsertMetrics
<1>3. metrics'[c] = Inserted(metrics[c], first[c])
  BY <1>1, <1>2
<1>4. existing[r][c] \subseteq metrics[c]
  BY DEF CoverInv, CoverOf, InsertMetrics
<1> SUFFICES ASSUME NEW f \in Candidates(read[r][c])
             PROVE  HasKey(metrics'[c], KeyOf(f))
  BY DEF Covers
<1>5. PICK w \in Resolved(read[r][c]) : KeyOf(w) = KeyOf(f)
  BY <1>1, GroupHasWinner
<1>6. CASE HasKey(existing[r][c], KeyOf(w))
  BY <1>3, <1>4, <1>5, <1>6 DEF HasKey, Inserted
<1>7. CASE ~HasKey(existing[r][c], KeyOf(w))
  <2>1. Cardinality({v \in first[c] : KeyOf(v) = KeyOf(w)}) = 1
    BY <1>2, <1>7 DEF ToInsert
  <2>2. {v \in first[c] : KeyOf(v) = KeyOf(w)} # {}
    <3> DEFINE V == {v \in first[c] : KeyOf(v) = KeyOf(w)}
    <3>1. Cardinality(V) = 1 /\ Cardinality({}) = 0
      BY <2>1, FS_EmptySet
    <3> HIDE DEF V
    <3>2. V # {}
      BY <3>1
    <3> QED
      BY <3>2 DEF V
  <2>3. PICK v \in first[c] : KeyOf(v) = KeyOf(w)
    BY <2>2
  <2> QED
    BY <1>3, <1>5, <2>3 DEF HasKey, Inserted
<1> QED
  BY <1>6, <1>7

LEMMA CoverRun ==
    ASSUME MetricsInv, CoverInv, [Next]_vars, NEW r \in Runs,
           BeginRun(r) \/ RunStep(r) \/ DatabaseFails(r) \/ Crash(r)
    PROVE  CoverInv'
<1>1. Typed
  BY DEF MetricsInv
<1> DEFINE Cover(q) ==
      CoverOf(phase'[q], run_status'[q], batch'[q], existing'[q], read'[q], metrics')
<1>2. CoverOf(phase[r], run_status[r], batch[r], existing[r], read[r], metrics')
  BY CoverStays DEF CoverInv
<1>3. /\ phase' \in [Runs -> {"idle", "next", "resolve", "insert"}]
      /\ DOMAIN existing' = Runs
  BY DEF CoverInv, BeginRun, RunStep, SelectFacts, SelectExisting, ConflictRaised,
     InsertMetrics, FinishRun, DatabaseFails, Crash, Abort, Leave, EndBatch
<1>4. ASSUME NEW q \in Runs, q # r PROVE Cover(q)
  <2>1. /\ phase'[q] = phase[q] /\ run_status'[q] = run_status[q]
        /\ batch'[q] = batch[q] /\ existing'[q] = existing[q] /\ read'[q] = read[q]
    BY <1>1, <1>4 DEF CoverInv, Typed, BeginRun, RunStep, SelectFacts, SelectExisting,
       ConflictRaised, InsertMetrics, FinishRun, DatabaseFails, Crash, Abort, Leave, EndBatch
  <2> QED
    BY <2>1, CoverStays DEF CoverInv
<1>5. CASE BeginRun(r)
  <2>1. /\ phase[r] = "idle" /\ phase'[r] = "next" /\ run_status'[r] = "running"
        /\ batch' = batch /\ \A c \in Companies : read'[r][c] = {}
    BY <1>1, <1>5 DEF BeginRun, CoverInv, Typed
  <2>2. Cover(r)
    BY <1>2, <2>1 DEF CoverOf, Covers, Candidates
  <2> QED
    BY <1>3, <1>4, <2>2 DEF CoverInv
<1>6. CASE SelectFacts(r)
  <2>1. PICK b :
          /\ batch' = [batch EXCEPT ![r] = b]
          /\ read' = [read EXCEPT ![r] =
               [c \in Companies |-> IF c \in b THEN xbrl_facts[c] ELSE read[r][c]]]
    BY <1>6 DEF SelectFacts
  <2>2. /\ phase[r] = "next" /\ phase'[r] = "resolve" /\ run_status' = run_status
        /\ batch'[r] = b /\ \A c \in Companies \ b : read'[r][c] = read[r][c]
    BY <1>1, <1>6, <2>1 DEF SelectFacts, CoverInv, Typed
  <2>3. Cover(r)
    BY <1>2, <2>2 DEF CoverOf
  <2> QED
    BY <1>3, <1>4, <2>3 DEF CoverInv
<1>7. CASE SelectExisting(r)
  <2>1. /\ phase[r] = "resolve" /\ phase'[r] = "insert" /\ UNCHANGED <<run_status, batch, read>>
        /\ \A c \in batch[r] : existing'[r][c] = metrics[c]
        /\ metrics' = metrics /\ batch[r] \subseteq Companies
    BY <1>1, <1>7 DEF SelectExisting, CoverInv, Typed, database, facts
  <2>2. Cover(r)
    BY <1>2, <2>1 DEF CoverOf
  <2> QED
    BY <1>3, <1>4, <2>2 DEF CoverInv
<1>8. CASE InsertMetrics(r)
  <2>1. /\ phase[r] = "insert" /\ phase'[r] = "next" /\ UNCHANGED <<run_status, read>>
        /\ batch'[r] = {}
    BY <1>1, <1>8 DEF InsertMetrics, EndBatch, CoverInv, Typed
  <2>2. \A c \in batch[r] : Covers(metrics'[c], read[r][c])
    BY <1>8, InsertCovers
  <2>3. Cover(r)
    BY <1>2, <2>1, <2>2 DEF CoverOf
  <2> QED
    BY <1>3, <1>4, <2>3 DEF CoverInv
<1>9. CASE FinishRun(r)
  <2>1. /\ phase[r] = "next" /\ phase'[r] = "idle" /\ UNCHANGED read
        /\ batch'[r] = {} /\ batch[r] = {}
    BY <1>1, <1>2, <1>9 DEF FinishRun, Leave, EndBatch, CoverInv, Typed, CoverOf
  <2>2. Cover(r)
    BY <1>2, <2>1 DEF CoverOf
  <2> QED
    BY <1>3, <1>4, <2>2 DEF CoverInv
<1>10. CASE ConflictRaised(r) \/ DatabaseFails(r) \/ Crash(r)
  <2>1. /\ phase[r] # "idle" /\ phase'[r] = "idle" /\ batch'[r] = {}
        /\ run_status'[r] \in {run_status[r], "conflict", "failed"}
    BY <1>1, <1>10 DEF ConflictRaised, DatabaseFails, Crash, Abort, Leave, EndBatch,
       CoverInv, Typed
  <2>2. Cover(r)
    BY <1>2, <2>1 DEF CoverOf
  <2> QED
    BY <1>3, <1>4, <2>2 DEF CoverInv
<1> QED
  BY <1>5, <1>6, <1>7, <1>8, <1>9, <1>10 DEF RunStep

LEMMA CoverNext == MetricsInv /\ CoverInv /\ [Next]_vars => CoverInv'
<1> SUFFICES ASSUME MetricsInv, CoverInv, [Next]_vars PROVE CoverInv'
  OBVIOUS
<1>1. CASE UNCHANGED vars \/ \E c \in Companies : FactsIngested(c)
  <2>1. UNCHANGED <<phase, run_status, batch, existing, read>>
    BY <1>1 DEF vars, FactsIngested
  <2> QED
    BY <2>1, CoverStays DEF CoverInv
<1> QED
  BY <1>1, CoverRun DEF Next

\* A run marked succeeded leaves a row for every period and filing date of which
\* it has read a usable fact, whatever runs overlap with it.
THEOREM FactsCovered == Spec => []SucceededRunCoversFacts
<1>1. Init => CoverInv
  BY DEF Init, CoverInv, CoverOf
<1>2. CoverInv => SucceededRunCoversFacts
  <2> SUFFICES ASSUME CoverInv, NEW r \in Runs, run_status[r] = "succeeded",
                      NEW c \in Companies
               PROVE  Covered(c, read[r][c])
    BY DEF SucceededRunCoversFacts
  <2>1. phase[r] = "idle" /\ batch[r] = {}
    BY DEF CoverInv, CoverOf
  <2> QED
    BY <2>1 DEF CoverInv, CoverOf, Covers, Covered
<1> QED
  BY <1>1, <1>2, CoverNext, MetricsInvariant, PTL DEF Spec
================================================================================
