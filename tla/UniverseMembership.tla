-------------------------- MODULE UniverseMembership --------------------------
(***************************************************************************)
(* Effective-dated membership of companies in the candidate, training and  *)
(* scoring universes (the three *UniverseService.materialize methods and   *)
(* UniverseRepository).                                                    *)
(*                                                                         *)
(* A run of one universe's asset finds or creates the universe definition, *)
(* evaluates every company from its inputs, loads the active memberships   *)
(* and writes the difference, each in a transaction of its own.  The       *)
(* training universe reads the candidate memberships, the scoring universe *)
(* the training ones.                                                      *)
(*                                                                         *)
(* The evaluators are pure functions of tables that other assets maintain; *)
(* here they are the variables listed, chosen and themed, which change at  *)
(* any moment.  Dates are 1 .. MaxDate; 0 is NULL.                         *)
(***************************************************************************)
EXTENDS Integers, FiniteSets

CONSTANTS
    Companies,
    Securities,      \* securities a company may be represented by
    Materialised,    \* the universes whose assets are materialised
    Runs,            \* processes that materialise them
    MaxDate,         \* bound: the last date of the model
    MaxConfig,       \* bound: criteria hashes are 1 .. MaxConfig
    Overlap,         \* may two runs of one universe overlap?
    SameDay          \* the universes materialised repeatedly on one date

Universes == {"candidate", "training", "scoring"}
Dates == 1 .. MaxDate

\* security_id NULL (candidate rows) and a negative decision.
NoSecurity == "NULL"
Excluded == "excluded"
Decisions == Securities \cup {NoSecurity, Excluded}

ASSUME UniverseAssumption ==
    /\ IsFiniteSet(Companies)
    /\ NoSecurity \notin Securities
    /\ Excluded \notin Securities
    /\ Materialised \subseteq Universes
    /\ MaxDate \in Nat \ {0}
    /\ MaxConfig \in Nat \ {0}
    /\ Overlap \in BOOLEAN
    /\ SameDay \subseteq Universes

VARIABLES
    \* the world
    today,
    config,        \* criteria hash of the deployed configuration
    listed,        \* listed[c]: the candidate evaluator accepts c
    chosen,        \* chosen[c]: security the training evaluator selects
    themed,        \* themed[c]: the scoring evaluator accepts c
    \* the database
    definition,    \* definition[u]: criteria hash of the row, 0 if none
    memberships,   \* memberships[u][c][d]: the row with included_from = d
    \* the runs
    phase,         \* phase[r]: where materialize is
    universe,      \* universe[r]: what r materialises
    as_of_date,    \* as_of_date[r]
    criteria,      \* criteria[r]: config when r started
    decision,      \* decision[r][c]: security to include, or Excluded
    twice,         \* twice[r]: companies read once per open parent row
    active,        \* active[r][c]: the active membership r loaded, or Excluded
    \* the environment
    last_run       \* last_run[u]: as_of_date of the latest run of u begun

world == <<today, config, listed, chosen, themed>>
database == <<definition, memberships>>
run == <<universe, as_of_date, criteria, last_run>>
loaded == <<decision, twice, active>>
vars == <<world, database, phase, run, loaded>>

NoRow == [security |-> Excluded, until |-> 0]
Row == [security: Securities \cup {NoSecurity}, until: 0 .. MaxDate]

AllExcluded == [c \in Companies |-> Excluded]

TypeOK ==
    /\ today \in Dates
    /\ config \in 1 .. MaxConfig
    /\ listed \in [Companies -> BOOLEAN]
    /\ chosen \in [Companies -> Securities \cup {Excluded}]
    /\ themed \in [Companies -> BOOLEAN]
    /\ definition \in [Universes -> 0 .. MaxConfig]
    /\ memberships \in [Universes -> [Companies -> [Dates -> Row \cup {NoRow}]]]
    /\ phase \in [Runs -> {"idle", "define", "create", "load", "active", "persist"}]
    /\ universe \in [Runs -> Universes]
    /\ as_of_date \in [Runs -> Dates]
    /\ criteria \in [Runs -> 1 .. MaxConfig]
    /\ decision \in [Runs -> [Companies -> Decisions]]
    /\ twice \in [Runs -> SUBSET Companies]
    /\ active \in [Runs -> [Companies -> Decisions]]
    /\ last_run \in [Universes -> 0 .. MaxDate]

Init ==
    /\ today = 1
    /\ config = 1
    /\ listed = [c \in Companies |-> FALSE]
    /\ chosen = AllExcluded
    /\ themed = [c \in Companies |-> FALSE]
    /\ definition = [u \in Universes |-> 0]
    /\ memberships = [u \in Universes |->
                        [c \in Companies |-> [d \in Dates |-> NoRow]]]
    /\ phase = [r \in Runs |-> "idle"]
    /\ universe = [r \in Runs |-> "candidate"]
    /\ as_of_date = [r \in Runs |-> 1]
    /\ criteria = [r \in Runs |-> 1]
    /\ decision = [r \in Runs |-> AllExcluded]
    /\ twice = [r \in Runs |-> {}]
    /\ active = [r \in Runs |-> AllExcluded]
    /\ last_run = [u \in Universes |-> 0]
--------------------------------------------------------------------------------
(***************************************************************************)
(* The world (external to these services).                                 *)
(***************************************************************************)

NextDay ==
    /\ today < MaxDate
    /\ today' = today + 1
    /\ UNCHANGED <<config, listed, chosen, themed, database, phase, run,
                   loaded>>

Redeploy ==
    /\ config < MaxConfig
    /\ config' = config + 1
    /\ UNCHANGED <<today, listed, chosen, themed, database, phase, run,
                   loaded>>

\* Filings, profiles or classifications of a company change (those that no
\* materialised universe reads are left alone).
UpstreamChanges(c) ==
    /\ \/ /\ listed' = [listed EXCEPT ![c] = ~ @]
          /\ UNCHANGED <<chosen, themed>>
       \/ /\ "training" \in Materialised
          /\ \E s \in Securities \cup {Excluded} : chosen' = [chosen EXCEPT ![c] = s]
          /\ UNCHANGED <<listed, themed>>
       \/ /\ "scoring" \in Materialised
          /\ themed' = [themed EXCEPT ![c] = ~ @]
          /\ UNCHANGED <<listed, chosen>>
    /\ UNCHANGED <<today, config, database, phase, run, loaded>>
--------------------------------------------------------------------------------
(***************************************************************************)
(* Rows of one company in one universe: a function from included_from.     *)
(***************************************************************************)

\* included_until IS NULL
Open(rows) == {d \in Dates : rows[d] # NoRow /\ rows[d].until = 0}

OpenSecurities(rows) == {rows[d].security : d \in Open(rows)}

\* ON CONFLICT DO NOTHING: the key is (universe, company, included_from).
InsertMembership(rows, date, security) ==
    IF rows[date] = NoRow
    THEN [rows EXCEPT ![date] = [security |-> security, until |-> 0]]
    ELSE rows

\* Mutant: the end date is the last day of membership, not the day after.
CloseMembership_NextDay(rows, date) ==
    [d \in Dates |-> IF d \in Open(rows)
                     THEN [rows[d] EXCEPT !.until = date + 1] ELSE rows[d]]

CloseMembership(rows, date) ==
    [d \in Dates |-> IF d \in Open(rows) THEN [rows[d] EXCEPT !.until = date]
                     ELSE rows[d]]
--------------------------------------------------------------------------------
(***************************************************************************)
(* materialize.                                                            *)
(***************************************************************************)

BeginRun(r, u) ==
    /\ phase[r] = "idle"
    /\ Overlap \/ \A q \in Runs : phase[q] # "idle" => universe[q] # u
    /\ u \in SameDay \/ last_run[u] < today
    /\ phase' = [phase EXCEPT ![r] = "define"]
    /\ universe' = [universe EXCEPT ![r] = u]
    /\ as_of_date' = [as_of_date EXCEPT ![r] = today]
    /\ criteria' = [criteria EXCEPT ![r] = config]
    /\ last_run' = [last_run EXCEPT ![u] = today]
    /\ UNCHANGED <<world, database, loaded>>

\* materialize has returned or raised: its local variables are gone.
Leave(r) ==
    /\ phase' = [phase EXCEPT ![r] = "idle"]
    /\ universe' = [universe EXCEPT ![r] = "candidate"]
    /\ as_of_date' = [as_of_date EXCEPT ![r] = 1]
    /\ criteria' = [criteria EXCEPT ![r] = 1]
    /\ decision' = [decision EXCEPT ![r] = AllExcluded]
    /\ twice' = [twice EXCEPT ![r] = {}]
    /\ active' = [active EXCEPT ![r] = AllExcluded]
    /\ UNCHANGED <<world, definition, last_run>>

\* Mutant: a definition with another hash is accepted.
FindDefinition_AnyHash(r) ==
    /\ phase[r] = "define"
    /\ phase' = [phase EXCEPT ![r] =
                   IF definition[universe[r]] = 0 THEN "create" ELSE "load"]
    /\ UNCHANGED <<world, database, run, loaded>>

FindDefinition(r) ==
    /\ phase[r] = "define"
    /\ \/ /\ definition[universe[r]] \in {0, criteria[r]}
          /\ phase' = [phase EXCEPT ![r] =
                         IF definition[universe[r]] = 0 THEN "create" ELSE "load"]
          /\ UNCHANGED <<world, database, run, loaded>>
       \/ /\ definition[universe[r]] \notin {0, criteria[r]}
          /\ Leave(r)                  \* ValueError: criteria_hash differs
          /\ UNCHANGED memberships

\* The unique constraint on (name, version) refuses a second definition.
CreateDefinition(r) ==
    /\ phase[r] = "create"
    /\ \/ /\ definition[universe[r]] = 0
          /\ definition' = [definition EXCEPT ![universe[r]] = criteria[r]]
          /\ phase' = [phase EXCEPT ![r] = "load"]
          /\ UNCHANGED <<world, memberships, run, loaded>>
       \/ /\ definition[universe[r]] # 0
          /\ Leave(r)
          /\ UNCHANGED memberships

\* Mutant: companies are read without the parent universe.
Decide_AnyCompany(u, c) ==
    CASE u = "candidate" -> IF listed[c] THEN {NoSecurity} ELSE {Excluded}
      [] u = "training" -> {chosen[c]}
      [] u = "scoring" -> IF themed[c] THEN {chosen[c]} ELSE {Excluded}

\* What the evaluator may decide on company c.  With two open training rows the
\* scoring inputs take the security of either (membership_by_company).
Decide(u, c) ==
    CASE u = "candidate" -> IF listed[c] THEN {NoSecurity} ELSE {Excluded}
      [] u = "training" ->
           IF Open(memberships["candidate"][c]) # {} THEN {chosen[c]} ELSE {Excluded}
      [] u = "scoring" ->
           LET found == OpenSecurities(memberships["training"][c])
           IN  IF themed[c] /\ found # {} THEN found ELSE {Excluded}

\* A company with two open parent rows comes twice in the inputs.
ParentRows(u, c) ==
    CASE u = "candidate" -> 1
      [] u = "training" -> Cardinality(Open(memberships["candidate"][c]))
      [] u = "scoring" -> Cardinality(Open(memberships["training"][c]))

LoadInputs(r) ==
    /\ phase[r] = "load"
    /\ \E d \in [Companies -> Decisions] :
         /\ \A c \in Companies : d[c] \in Decide(universe[r], c)
         /\ decision' = [decision EXCEPT ![r] = d]
    /\ twice' = [twice EXCEPT ![r] =
                   {c \in Companies : ParentRows(universe[r], c) > 1}]
    /\ phase' = [phase EXCEPT ![r] = "active"]
    /\ UNCHANGED <<world, database, run, active>>

\* active_by_company keeps one of the open rows of a company.
LoadActive(r) ==
    /\ phase[r] = "active"
    /\ \E a \in [Companies -> Decisions] :
         /\ \A c \in Companies :
              LET found == OpenSecurities(memberships[universe[r]][c])
              IN  IF found = {} THEN a[c] = Excluded ELSE a[c] \in found
         /\ active' = [active EXCEPT ![r] = a]
    /\ phase' = [phase EXCEPT ![r] = "persist"]
    /\ UNCHANGED <<world, database, run, decision, twice>>

\* Mutant: a changed security is inserted without closing the old row.
Updated_KeepOld(r, c) ==
    LET rows == memberships[universe[r]][c]  new == decision[r][c]  old == active[r][c]
    IN  CASE new = old -> rows
          [] new # old /\ new = Excluded -> CloseMembership(rows, as_of_date[r])
          [] OTHER -> InsertMembership(rows, as_of_date[r], new)

\* newly_included, security_changes and newly_excluded.  The second time a
\* security change is applied it closes the row the first has inserted.
Updated(r, c) ==
    LET rows == memberships[universe[r]][c]
        date == as_of_date[r]
        new == decision[r][c]
        old == active[r][c]
        Change(rs) == InsertMembership(CloseMembership(rs, date), date, new)
    IN  CASE new = old -> rows
          [] new # old /\ old = Excluded -> InsertMembership(rows, date, new)
          [] new # old /\ new = Excluded -> CloseMembership(rows, date)
          [] OTHER -> IF c \in twice[r] THEN Change(Change(rows)) ELSE Change(rows)

\* One transaction for the whole difference.
Persist(r) ==
    /\ phase[r] = "persist"
    /\ memberships' = [memberships EXCEPT ![universe[r]] =
                         [c \in Companies |-> Updated(r, c)]]
    /\ Leave(r)

\* An exception or the death of the process: the open transaction is undone.
RunFails(r) ==
    /\ phase[r] # "idle"
    /\ Leave(r)
    /\ UNCHANGED memberships

RunStep(r) ==
    \/ FindDefinition(r)
    \/ CreateDefinition(r)
    \/ LoadInputs(r)
    \/ LoadActive(r)
    \/ Persist(r)
    \/ RunFails(r)

Next ==
    \/ NextDay
    \/ Redeploy
    \/ \E c \in Companies : UpstreamChanges(c)
    \/ \E r \in Runs : RunStep(r) \/ \E u \in Materialised : BeginRun(r, u)

Spec == Init /\ [][Next]_vars
--------------------------------------------------------------------------------
(***************************************************************************)
(* Properties.                                                             *)
(***************************************************************************)

\* The dates at which row d of rows is in force.
Covers(rows, d, date) ==
    /\ rows[d] # NoRow
    /\ d <= date
    /\ rows[d].until = 0 \/ date < rows[d].until

\* The memberships implement effective dating: whatever runs of the three
\* universes do, every company's rows of a universe are closed and opened at
\* dates that do not go back, so that a query as of a date finds one security
\* at most and past answers never change.  Overlapping runs of one universe are
\* excepted (two of them may insert a row each).
History ==
    [s \in Universes \X Companies |->
       {[value |-> memberships[s[1]][s[2]][d].security, from |-> d,
         until |-> memberships[s[1]][s[2]][d].until] :
          d \in {e \in Dates : memberships[s[1]][s[2]][e] # NoRow}}]

Dating == INSTANCE EffectiveDating
    WITH Subjects <- Universes \X Companies,
         Values <- Securities \cup {NoSecurity},
         history <- History

ImplementsDating == Dating!HistorySpec

\* Consumers that ask for today's members by date and consumers that ask for
\* the rows without an end see the same rows.
ConsumersAgree ==
    \A u \in Universes, c \in Companies, d \in Dates :
      d \in Open(memberships[u][c]) <=> Covers(memberships[u][c], d, today)

\* Every member of a universe was a member of the parent universe, with the
\* same security where the parent names one.
MembersComeFromParent ==
    \A c \in Companies, d \in Dates :
      /\ memberships["training"][c][d] # NoRow =>
           \E p \in Dates : memberships["candidate"][c][p] # NoRow
      /\ memberships["scoring"][c][d] # NoRow =>
           \E p \in Dates : memberships["training"][c][p].security
                              = memberships["scoring"][c][d].security

\* Rows of a universe are only written by runs with the criteria of its
\* definition, and a definition never changes.
DefinitionIsBinding ==
    [][\A u \in Universes :
         /\ definition[u] # 0 => definition'[u] = definition[u]
         /\ memberships'[u] # memberships[u] =>
              \E r \in Runs : universe[r] = u /\ criteria[r] = definition[u]]_vars

\* When a run commits, the open rows of a company are the one it decided on, or
\* none.  They are exactly that, except that a decision that is new on the date
\* of an earlier row leaves the company without a membership: closing empties
\* that row and the insert meets its key and does nothing.
RunAppliesDecision ==
    [][\A r \in Runs :
         Persist(r) =>
           \A c \in Companies :
             LET unchanged == decision[r][c] = active[r][c]
                 free == memberships[universe[r]][c][as_of_date[r]] = NoRow
             IN  OpenSecurities(memberships'[universe[r]][c])
                   = IF unchanged \/ free THEN {decision[r][c]} \ {Excluded}
                     ELSE {}]_vars
================================================================================
