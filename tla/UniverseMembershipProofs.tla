------------------------ MODULE UniverseMembershipProofs ------------------------
(***************************************************************************)
(* Proofs about UniverseMembership, for any finite set of companies and    *)
(* any number of securities, runs, dates and configurations.               *)
(***************************************************************************)
EXTENDS UniverseMembership, FiniteSetTheorems, TLAPS

Rows == [Dates -> Row \cup {NoRow}]

\* No row names a date that has not come.
RowsArePast ==
    \A u \in Universes, c \in Companies, d \in Dates :
      memberships[u][c][d] # NoRow => d <= today /\ memberships[u][c][d].until <= today

DatesArePast == \A r \in Runs : as_of_date[r] <= today

\* A run that is past the definition works with the criteria on record.
CriteriaAreBound ==
    \A r \in Runs : phase[r] \in {"load", "active", "persist"} =>
      definition[universe[r]] = criteria[r]

\* A positive decision of universe u is about a company the parent has listed.
HasParent(u, c, s) ==
    /\ u = "training" => \E p \in Dates : memberships["candidate"][c][p] # NoRow
    /\ u = "scoring" => \E p \in Dates : memberships["training"][c][p].security = s

DecisionsHaveParents ==
    \A r \in Runs, c \in Companies :
      phase[r] \in {"active", "persist"} /\ decision[r][c] # Excluded =>
        HasParent(universe[r], c, decision[r][c])

UniverseInv ==
    /\ TypeOK
    /\ RowsArePast
    /\ DatesArePast
    /\ CriteriaAreBound
    /\ DecisionsHaveParents
    /\ MembersComeFromParent

--------------------------------------------------------------------------------
(* The rows of one company. *)

\* What a run of date date that includes security s may do to them: add the row
\* of its date, end open rows, and nothing else.
Kept(old, new, date, s) ==
    /\ new \in Rows
    /\ \A d \in Dates :
         /\ old[d] # NoRow => /\ new[d] # NoRow
                              /\ new[d].security = old[d].security
                              /\ new[d].until \in {old[d].until, date}
         /\ old[d] = NoRow /\ new[d] # NoRow => /\ d = date
                                                /\ new[d].security = s
                                                /\ new[d].until \in {0, date}

LEMMA Inserting ==
    ASSUME NEW rows \in Rows, NEW date \in Dates, NEW s \in Securities \cup {NoSecurity}
    PROVE  /\ InsertMembership(rows, date, s) \in Rows
           /\ \A d \in Dates :
                InsertMembership(rows, date, s)[d] =
                  IF d = date /\ rows[date] = NoRow THEN [security |-> s, until |-> 0]
                  ELSE rows[d]
<1>1. [security |-> s, until |-> 0] \in Row
  BY UniverseAssumption DEF Row
<1> QED
  BY <1>1 DEF InsertMembership, Rows

LEMMA Closing ==
    ASSUME NEW rows \in Rows, NEW date \in Dates
    PROVE  /\ CloseMembership(rows, date) \in Rows
           /\ \A d \in Dates :
                CloseMembership(rows, date)[d] =
                  IF rows[d] # NoRow /\ rows[d].until = 0
                  THEN [security |-> rows[d].security, until |-> date] ELSE rows[d]
<1>1. ASSUME NEW d \in Dates, rows[d] # NoRow
      PROVE  /\ [rows[d] EXCEPT !.until = date] = [security |-> rows[d].security, until |-> date]
             /\ [rows[d] EXCEPT !.until = date] \in Row
  <2>1. rows[d] \in Row /\ date \in 0 .. MaxDate
    BY <1>1, UniverseAssumption DEF Rows, Dates
  <2> QED
    BY <2>1 DEF Row
<1> QED
  BY <1>1 DEF CloseMembership, Open, Rows

LEMMA KeptTwice ==
    ASSUME NEW a \in Rows, NEW b, NEW c, NEW date, NEW s,
           Kept(a, b, date, s), Kept(b, c, date, s)
    PROVE  Kept(a, c, date, s)
BY DEF Kept

LEMMA KeptByInsert ==
    ASSUME NEW rows \in Rows, NEW date \in Dates, NEW s \in Securities \cup {NoSecurity}
    PROVE  Kept(rows, InsertMembership(rows, date, s), date, s)
<1> DEFINE new == InsertMembership(rows, date, s)
<1>1. /\ new \in Rows
      /\ \A d \in Dates : new[d] = IF d = date /\ rows[date] = NoRow
                                   THEN [security |-> s, until |-> 0] ELSE rows[d]
  BY Inserting
<1> HIDE DEF new
<1>2. ASSUME NEW d \in Dates
      PROVE  /\ rows[d] # NoRow => new[d] = rows[d]
             /\ rows[d] = NoRow /\ new[d] # NoRow =>
                  d = date /\ new[d].security = s /\ new[d].until = 0
  BY <1>1
<1>3. Kept(rows, new, date, s)
  BY <1>1, <1>2 DEF Kept
<1> QED
  BY <1>3 DEF new

LEMMA KeptByClose ==
    ASSUME NEW rows \in Rows, NEW date \in Dates, NEW s
    PROVE  Kept(rows, CloseMembership(rows, date), date, s)
<1> DEFINE new == CloseMembership(rows, date)
<1>1. /\ new \in Rows
      /\ \A d \in Dates : new[d] = IF rows[d] # NoRow /\ rows[d].until = 0
                                   THEN [security |-> rows[d].security, until |-> date]
                                   ELSE rows[d]
  BY Closing
<1> HIDE DEF new
<1>2. ASSUME NEW d \in Dates
      PROVE  /\ rows[d] = NoRow => new[d] = NoRow
             /\ rows[d] # NoRow => /\ new[d].security = rows[d].security
                                   /\ new[d].until \in {rows[d].until, date}
  <2>1. CASE rows[d] # NoRow /\ rows[d].until = 0
    <3>1. new[d] = [security |-> rows[d].security, until |-> date]
      BY <1>1, <2>1
    <3> QED
      BY <2>1, <3>1
  <2>2. CASE ~(rows[d] # NoRow /\ rows[d].until = 0)
    BY <1>1, <2>2
  <2> QED
    BY <2>1, <2>2
<1>3. ASSUME NEW d \in Dates, rows[d] # NoRow PROVE new[d] # NoRow
  <2>1. rows[d].security # Excluded
    BY <1>3, UniverseAssumption DEF Rows, Row, NoSecurity, Excluded
  <2> QED
    BY <1>2, <1>3, <2>1 DEF NoRow
<1>4. Kept(rows, new, date, s)
  BY <1>1, <1>2, <1>3 DEF Kept
<1> QED
  BY <1>4 DEF new

\* What a run writes for one company.
LEMMA UpdatedKeeps ==
    ASSUME TypeOK, NEW r \in Runs, NEW c \in Companies
    PROVE  Kept(memberships[universe[r]][c], Updated(r, c), as_of_date[r], decision[r][c])
<1> DEFINE rows == memberships[universe[r]][c]
           date == as_of_date[r]
           new == decision[r][c]
           old == active[r][c]
           Change(rs) == InsertMembership(CloseMembership(rs, date), date, new)
<1>1. rows \in Rows /\ date \in Dates /\ new \in Decisions /\ old \in Decisions
  BY DEF TypeOK, Rows
<1>2. new # Excluded => new \in Securities \cup {NoSecurity}
  BY <1>1 DEF Decisions
<1>3. ASSUME NEW rs \in Rows, new # Excluded
      PROVE  Kept(rs, Change(rs), date, new) /\ Change(rs) \in Rows
  <2>1. Kept(rs, CloseMembership(rs, date), date, new)
    BY <1>1, KeptByClose
  <2>2. CloseMembership(rs, date) \in Rows
    BY <2>1 DEF Kept
  <2>3. Kept(CloseMembership(rs, date), Change(rs), date, new)
    BY <1>1, <1>2, <1>3, <2>2, KeptByInsert
  <2> HIDE DEF Change
  <2>4. Kept(rs, Change(rs), date, new)
    BY <2>1, <2>3, KeptTwice
  <2> QED
    BY <2>4 DEF Kept
<1>4. CASE new = old
  <2>1. Updated(r, c) = rows
    BY <1>4 DEF Updated
  <2> QED
    BY <1>1, <2>1 DEF Kept
<1>5. CASE new # old /\ old = Excluded
  <2>1. Updated(r, c) = InsertMembership(rows, date, new)
    BY <1>5 DEF Updated
  <2> QED
    BY <1>1, <1>2, <1>5, <2>1, KeptByInsert
<1>6. CASE new # old /\ old # Excluded /\ new = Excluded
  <2>1. Updated(r, c) = CloseMembership(rows, date)
    BY <1>6 DEF Updated
  <2> QED
    BY <1>1, <2>1, KeptByClose
<1>7. CASE new # old /\ old # Excluded /\ new # Excluded
  <2>1. Updated(r, c) = IF c \in twice[r] THEN Change(Change(rows)) ELSE Change(rows)
    BY <1>7 DEF Updated
  <2>2. Kept(rows, Change(rows), date, new) /\ Change(rows) \in Rows
    BY <1>1, <1>3, <1>7
  <2>3. Kept(Change(rows), Change(Change(rows)), date, new)
    BY <1>3, <1>7, <2>2
  <2> HIDE DEF Change
  <2>4. Kept(rows, Change(Change(rows)), date, new)
    BY <1>1, <2>2, <2>3, KeptTwice
  <2> QED
    BY <2>1, <2>2, <2>4
<1> QED
  BY <1>4, <1>5, <1>6, <1>7

--------------------------------------------------------------------------------
(* Which steps write what. *)

\* Rows are written by the commit of a run of their universe.
LEMMA Written ==
    ASSUME TypeOK, [Next]_vars
    PROVE  \/ memberships' = memberships
           \/ \E r \in Runs :
                /\ Persist(r)
                /\ \A u \in Universes : u # universe[r] => memberships'[u] = memberships[u]
                /\ \A c \in Companies : memberships'[universe[r]][c] = Updated(r, c)
<1>1. CASE UNCHANGED vars \/ NextDay \/ Redeploy \/ \E c \in Companies : UpstreamChanges(c)
  BY <1>1 DEF vars, NextDay, Redeploy, UpstreamChanges, database
<1>2. ASSUME NEW r \in Runs, NEW u \in Materialised, BeginRun(r, u)
      PROVE  memberships' = memberships
  BY <1>2 DEF BeginRun, database
<1>3. ASSUME NEW r \in Runs, RunStep(r), ~Persist(r) PROVE memberships' = memberships
  BY <1>3 DEF RunStep, FindDefinition, CreateDefinition, LoadInputs, LoadActive, RunFails,
              database
<1>4. ASSUME NEW r \in Runs, Persist(r)
      PROVE  /\ \A u \in Universes : u # universe[r] => memberships'[u] = memberships[u]
             /\ \A c \in Companies : memberships'[universe[r]][c] = Updated(r, c)
  <2>1. memberships' = [memberships EXCEPT ![universe[r]] =
                          [c \in Companies |-> Updated(r, c)]]
    BY <1>4 DEF Persist
  <2> QED
    BY <2>1 DEF TypeOK
<1> QED
  BY <1>1, <1>2, <1>3, <1>4 DEF Next

\* Every row of a company is kept, or continued by a run of its universe.
LEMMA RowsKept ==
    ASSUME TypeOK, [Next]_vars, NEW u \in Universes, NEW c \in Companies
    PROVE  \/ memberships'[u][c] = memberships[u][c]
           \/ \E r \in Runs :
                /\ Persist(r) /\ universe[r] = u
                /\ memberships'[u][c] = Updated(r, c)
                /\ Kept(memberships[u][c], memberships'[u][c], as_of_date[r], decision[r][c])
BY Written, UpdatedKeeps

\* A definition is created once, by a run with its criteria.
LEMMA Defined ==
    ASSUME TypeOK, [Next]_vars, NEW u \in Universes, definition'[u] # definition[u]
    PROVE  definition[u] = 0
<1>1. ASSUME NEW r \in Runs, CreateDefinition(r) PROVE definition[u] = 0
  BY <1>1 DEF CreateDefinition, Leave, TypeOK
<1>2. CASE UNCHANGED vars \/ NextDay \/ Redeploy \/ \E c \in Companies : UpstreamChanges(c)
  BY <1>2 DEF vars, NextDay, Redeploy, UpstreamChanges, database
<1>3. ASSUME NEW r \in Runs, NEW v \in Materialised, BeginRun(r, v)
      PROVE  definition' = definition
  BY <1>3 DEF BeginRun, database
<1>4. ASSUME NEW r \in Runs, RunStep(r), ~CreateDefinition(r) PROVE definition' = definition
  BY <1>4 DEF RunStep, FindDefinition, LoadInputs, LoadActive, Persist, RunFails, Leave,
              database
<1> QED
  BY <1>1, <1>2, <1>3, <1>4 DEF Next

\* What a step does to the local state of run q: nothing, or it is q's own.
Untouched(q) ==
    /\ phase'[q] = phase[q] /\ universe'[q] = universe[q]
    /\ as_of_date'[q] = as_of_date[q] /\ criteria'[q] = criteria[q]
    /\ decision'[q] = decision[q] /\ twice'[q] = twice[q] /\ active'[q] = active[q]

Left(q) ==
    /\ phase'[q] = "idle" /\ as_of_date'[q] = 1
    /\ decision'[q] = AllExcluded /\ twice'[q] = {} /\ active'[q] = AllExcluded

LEMMA Leaves ==
    ASSUME TypeOK, NEW r \in Runs, Leave(r)
    PROVE  Left(r) /\ \A q \in Runs \ {r} : Untouched(q)
BY DEF Leave, Left, Untouched, TypeOK

LEMMA Begins ==
    ASSUME TypeOK, NEW r \in Runs, NEW u \in Materialised, BeginRun(r, u)
    PROVE  /\ \A q \in Runs \ {r} : Untouched(q)
           /\ phase'[r] = "define" /\ universe'[r] = u /\ as_of_date'[r] = today
           /\ twice'[r] = twice[r]
           /\ UNCHANGED <<world, database>>
BY DEF BeginRun, Untouched, TypeOK, loaded

\* A step of run r that stays within the run.
Proceeds(r) ==
    /\ phase[r] # "idle" /\ phase'[r] # "idle"
    /\ UNCHANGED <<world, run, memberships>>
    /\ \A q \in Runs \ {r} : Untouched(q)

LEMMA Proceeding ==
    ASSUME TypeOK, NEW r \in Runs,
           (FindDefinition(r) /\ ~Leave(r)) \/ (CreateDefinition(r) /\ ~Leave(r))
             \/ LoadInputs(r) \/ LoadActive(r)
    PROVE  Proceeds(r)
<1>1. CASE FindDefinition(r) /\ ~Leave(r)
  BY <1>1 DEF FindDefinition, Proceeds, Untouched, TypeOK, run, database, loaded
<1>2. CASE CreateDefinition(r) /\ ~Leave(r)
  BY <1>2 DEF CreateDefinition, Proceeds, Untouched, TypeOK, run, loaded
<1>3. CASE LoadInputs(r)
  BY <1>3 DEF LoadInputs, Proceeds, Untouched, TypeOK, run, database
<1>4. CASE LoadActive(r)
  BY <1>4 DEF LoadActive, Proceeds, Untouched, TypeOK, run, database
<1> QED
  BY <1>1, <1>2, <1>3, <1>4

Outside == UNCHANGED <<database, phase, run, loaded>> /\ today <= today'

LEMMA Steps ==
    ASSUME TypeOK, [Next]_vars
    PROVE  \/ Outside
           \/ \E r \in Runs, u \in Materialised : BeginRun(r, u)
           \/ \E r \in Runs : Proceeds(r) /\ (FindDefinition(r) \/ CreateDefinition(r)
                                               \/ LoadInputs(r) \/ LoadActive(r))
           \/ \E r \in Runs : Leave(r) /\ (Persist(r) \/ UNCHANGED memberships)
<1>1. CASE UNCHANGED vars \/ NextDay \/ Redeploy \/ \E c \in Companies : UpstreamChanges(c)
  BY <1>1 DEF vars, world, NextDay, Redeploy, UpstreamChanges, Outside, TypeOK, Dates
<1>2. ASSUME NEW r \in Runs, RunStep(r)
      PROVE  \/ Proceeds(r) /\ (FindDefinition(r) \/ CreateDefinition(r)
                                  \/ LoadInputs(r) \/ LoadActive(r))
             \/ Leave(r) /\ (Persist(r) \/ UNCHANGED memberships)
  <2>1. CASE FindDefinition(r) /\ Leave(r)
    BY <2>1 DEF FindDefinition, database
  <2>2. CASE CreateDefinition(r) /\ Leave(r)
    BY <2>2 DEF CreateDefinition
  <2>3. CASE Persist(r) \/ RunFails(r)
    BY <2>3 DEF Persist, RunFails
  <2> QED
    BY <1>2, <2>1, <2>2, <2>3, Proceeding DEF RunStep
<1> QED
  BY <1>1, <1>2 DEF Next

--------------------------------------------------------------------------------
(* The invariant. *)

\* What an evaluator decides is a decision, and about a company of the parent.
LEMMA Deciding ==
    ASSUME TypeOK, NEW u \in Universes, NEW c \in Companies, NEW s \in Decide(u, c)
    PROVE  s \in Decisions /\ (s # Excluded => HasParent(u, c, s))
<1>1. CASE u = "candidate"
  BY <1>1 DEF Decide, Decisions, HasParent
<1>2. CASE u = "training"
  BY <1>2 DEF Decide, Decisions, HasParent, TypeOK, Open
<1>3. CASE u = "scoring"
  <2>1. s = Excluded \/ s \in OpenSecurities(memberships["training"][c])
    BY <1>3 DEF Decide
  <2>2. CASE s = Excluded
    BY <2>2 DEF Decisions
  <2>3. CASE s \in OpenSecurities(memberships["training"][c])
    <3>1. PICK p \in Dates : /\ memberships["training"][c][p] # NoRow
                             /\ memberships["training"][c][p].security = s
      BY <2>3 DEF OpenSecurities, Open
    <3>2. memberships["training"][c][p] \in Row
      BY <3>1 DEF TypeOK, Universes
    <3> QED
      BY <1>3, <3>1, <3>2 DEF Row, Decisions, HasParent
  <2> QED
    BY <2>1, <2>2, <2>3
<1> QED
  BY <1>1, <1>2, <1>3 DEF Universes

LEMMA MembershipsTyped ==
    ASSUME TypeOK, [Next]_vars
    PROVE  memberships' \in [Universes -> [Companies -> [Dates -> Row \cup {NoRow}]]]
<1>1. CASE memberships' = memberships
  BY <1>1 DEF TypeOK
<1>2. ASSUME NEW r \in Runs, Persist(r)
      PROVE  memberships' \in [Universes -> [Companies -> [Dates -> Row \cup {NoRow}]]]
  <2>1. memberships' = [memberships EXCEPT ![universe[r]] =
                          [c \in Companies |-> Updated(r, c)]]
    BY <1>2 DEF Persist
  <2>2. \A c \in Companies : Updated(r, c) \in [Dates -> Row \cup {NoRow}]
    BY UpdatedKeeps DEF Kept, Rows
  <2>3. [c \in Companies |-> Updated(r, c)] \in [Companies -> [Dates -> Row \cup {NoRow}]]
    BY <2>2
  <2> QED
    BY <2>1, <2>3 DEF TypeOK
<1> QED
  BY <1>1, <1>2, Written

LEMMA TypeNext == TypeOK /\ [Next]_vars => TypeOK'
<1> SUFFICES ASSUME TypeOK, [Next]_vars PROVE TypeOK'
  OBVIOUS
<1>1. memberships' \in [Universes -> [Companies -> [Dates -> Row \cup {NoRow}]]]
  BY MembershipsTyped
<1>2. CASE UNCHANGED vars
  BY <1>2 DEF vars, world, database, run, loaded, TypeOK
<1>3. CASE NextDay \/ Redeploy
  <2>1. today' \in Dates /\ config' \in 1 .. MaxConfig
    BY <1>3, UniverseAssumption DEF NextDay, Redeploy, TypeOK, Dates
  <2> QED
    BY <1>3, <2>1 DEF NextDay, Redeploy, database, run, loaded, TypeOK
<1>4. ASSUME NEW c \in Companies, UpstreamChanges(c) PROVE TypeOK'
  <2>1. /\ listed' \in [Companies -> BOOLEAN]
        /\ themed' \in [Companies -> BOOLEAN]
    BY <1>4 DEF UpstreamChanges, TypeOK
  <2>2. chosen' \in [Companies -> Securities \cup {Excluded}]
    BY <1>4 DEF UpstreamChanges, TypeOK
  <2> QED
    BY <1>4, <2>1, <2>2 DEF UpstreamChanges, TypeOK, database, run, loaded
<1>5. ASSUME NEW r \in Runs, NEW u \in Materialised, BeginRun(r, u) PROVE TypeOK'
  <2>1. u \in Universes /\ today \in 0 .. MaxDate
    BY UniverseAssumption DEF TypeOK, Dates
  <2>2. /\ phase' \in [Runs -> {"idle", "define", "create", "load", "active", "persist"}]
        /\ universe' \in [Runs -> Universes]
        /\ as_of_date' \in [Runs -> Dates]
        /\ criteria' \in [Runs -> 1 .. MaxConfig]
        /\ last_run' \in [Universes -> 0 .. MaxDate]
    BY <1>5, <2>1 DEF BeginRun, TypeOK
  <2> QED
    BY <1>5, <2>2 DEF BeginRun, TypeOK, world, database, loaded
<1>6. ASSUME NEW r \in Runs, Leave(r) PROVE TypeOK'
  <2>1. /\ phase' \in [Runs -> {"idle", "define", "create", "load", "active", "persist"}]
        /\ universe' \in [Runs -> Universes]
        /\ as_of_date' \in [Runs -> Dates]
        /\ criteria' \in [Runs -> 1 .. MaxConfig]
    BY <1>6, UniverseAssumption DEF Leave, TypeOK, Dates, Universes
  <2>2. AllExcluded \in [Companies -> Decisions]
    BY DEF AllExcluded, Decisions
  <2>3. /\ decision' \in [Runs -> [Companies -> Decisions]]
        /\ twice' \in [Runs -> SUBSET Companies]
        /\ active' \in [Runs -> [Companies -> Decisions]]
    BY <1>6, <2>2 DEF Leave, TypeOK
  <2> QED
    BY <1>1, <1>6, <2>1, <2>3 DEF Leave, TypeOK, world
<1>7. ASSUME NEW r \in Runs, FindDefinition(r) \/ CreateDefinition(r), ~Leave(r) PROVE TypeOK'
  <2>1. /\ phase' \in [Runs -> {"idle", "define", "create", "load", "active", "persist"}]
        /\ UNCHANGED <<world, run, loaded>>
    BY <1>7 DEF FindDefinition, CreateDefinition, TypeOK
  <2>2. universe[r] \in Universes /\ criteria[r] \in 0 .. MaxConfig
    BY UniverseAssumption DEF TypeOK
  <2>3. definition' \in [Universes -> 0 .. MaxConfig]
    BY <1>7, <2>2 DEF FindDefinition, CreateDefinition, TypeOK, database
  <2> QED
    BY <1>1, <2>1, <2>3 DEF TypeOK, world, run, loaded
<1>8. ASSUME NEW r \in Runs, LoadInputs(r) PROVE TypeOK'
  <2>1. PICK d \in [Companies -> Decisions] : decision' = [decision EXCEPT ![r] = d]
    BY <1>8 DEF LoadInputs
  <2>2. /\ phase' \in [Runs -> {"idle", "define", "create", "load", "active", "persist"}]
        /\ decision' \in [Runs -> [Companies -> Decisions]]
        /\ twice' \in [Runs -> SUBSET Companies]
    BY <1>8, <2>1 DEF LoadInputs, TypeOK
  <2> QED
    BY <1>8, <2>2 DEF LoadInputs, TypeOK, world, database, run
<1>9. ASSUME NEW r \in Runs, LoadActive(r) PROVE TypeOK'
  <2>1. PICK a \in [Companies -> Decisions] : active' = [active EXCEPT ![r] = a]
    BY <1>9 DEF LoadActive
  <2>2. /\ phase' \in [Runs -> {"idle", "define", "create", "load", "active", "persist"}]
        /\ active' \in [Runs -> [Companies -> Decisions]]
    BY <1>9, <2>1 DEF LoadActive, TypeOK
  <2> QED
    BY <1>9, <2>2 DEF LoadActive, TypeOK, world, database, run
<1> QED
  BY <1>2, <1>3, <1>4, <1>5, <1>6, <1>7, <1>8, <1>9
     DEF Next, RunStep, Persist, RunFails

LEMMA PastNext == UniverseInv /\ [Next]_vars => RowsArePast' /\ DatesArePast'
<1> SUFFICES ASSUME UniverseInv, [Next]_vars PROVE RowsArePast' /\ DatesArePast'
  OBVIOUS
<1>1. TypeOK /\ TypeOK' /\ RowsArePast /\ DatesArePast
  BY TypeNext DEF UniverseInv
<1>2. today <= today'
  <2>1. today' = today \/ today <= today'
    BY <1>1, Steps DEF Outside, BeginRun, Proceeds, Leave, world
  <2>2. today \in Int
    BY <1>1 DEF TypeOK, Dates
  <2> QED
    BY <2>1, <2>2
<1>3. /\ today \in Nat /\ today' \in Nat
      /\ \A r \in Runs : as_of_date[r] \in Nat /\ as_of_date[r] <= today
  BY <1>1 DEF TypeOK, Dates, DatesArePast
<1>4. ASSUME NEW u \in Universes, NEW c \in Companies, NEW d \in Dates,
             memberships'[u][c][d] # NoRow
      PROVE  d <= today' /\ memberships'[u][c][d].until <= today'
  <2>1. memberships[u][c][d] \in Row \cup {NoRow}
    BY <1>1 DEF TypeOK
  <2>7. d \in Nat
    BY DEF Dates
  <2>2. memberships[u][c][d] # NoRow =>
          d <= today /\ memberships[u][c][d].until <= today
    BY <1>1 DEF RowsArePast
  <2>3. memberships[u][c][d] \in Row => memberships[u][c][d].until \in Nat
    BY UniverseAssumption DEF Row
  <2>4. CASE memberships'[u][c] = memberships[u][c]
    <3>1. memberships[u][c][d] # NoRow /\ memberships'[u][c][d] = memberships[u][c][d]
      BY <1>4, <2>4
    <3>2. /\ memberships[u][c][d].until \in Nat
          /\ d <= today /\ memberships[u][c][d].until <= today
      BY <2>1, <2>2, <2>3, <3>1
    <3> QED
      BY <1>2, <1>3, <2>7, <3>1, <3>2
  <2>5. ASSUME NEW r \in Runs,
               Kept(memberships[u][c], memberships'[u][c], as_of_date[r], decision[r][c])
        PROVE  d <= today' /\ memberships'[u][c][d].until <= today'
    <3>1. CASE memberships[u][c][d] = NoRow
      <4>1. d = as_of_date[r] /\ memberships'[u][c][d].until \in {0, as_of_date[r]}
        BY <1>4, <2>5, <3>1 DEF Kept
      <4> QED
        BY <1>2, <1>3, <4>1
    <3>2. CASE memberships[u][c][d] # NoRow
      <4>1. memberships'[u][c][d].until \in {memberships[u][c][d].until, as_of_date[r]}
        BY <2>5, <3>2 DEF Kept
      <4> QED
        <5>1. /\ memberships[u][c][d].until \in Nat
              /\ d <= today /\ memberships[u][c][d].until <= today
          BY <2>1, <2>2, <2>3, <3>2
        <5> QED
          BY <1>2, <1>3, <2>7, <4>1, <5>1
    <3> QED
      BY <3>1, <3>2
  <2> QED
    BY <1>1, <2>4, <2>5, RowsKept
<1>5. ASSUME NEW q \in Runs PROVE as_of_date'[q] <= today'
  <2>1. as_of_date'[q] \in {as_of_date[q], today, 1}
    <3>1. CASE Outside
      BY <3>1 DEF Outside, run
    <3>2. ASSUME NEW r \in Runs, NEW u \in Materialised, BeginRun(r, u)
          PROVE  as_of_date'[q] \in {as_of_date[q], today, 1}
      BY <1>1, <3>2 DEF BeginRun, TypeOK
    <3>3. ASSUME NEW r \in Runs, Proceeds(r) PROVE as_of_date'[q] = as_of_date[q]
      BY <3>3 DEF Proceeds, run
    <3>4. ASSUME NEW r \in Runs, Leave(r) PROVE as_of_date'[q] \in {as_of_date[q], today, 1}
      BY <1>1, <3>4 DEF Leave, TypeOK
    <3> QED
      BY <1>1, <3>1, <3>2, <3>3, <3>4, Steps
  <2>2. 1 <= today'
    BY <1>1 DEF TypeOK, Dates
  <2> QED
    BY <1>2, <1>3, <2>1, <2>2
<1> QED
  BY <1>4, <1>5 DEF RowsArePast, DatesArePast

LEMMA BoundNext == UniverseInv /\ [Next]_vars => CriteriaAreBound'
<1> SUFFICES ASSUME UniverseInv, [Next]_vars, NEW q \in Runs,
                    phase'[q] \in {"load", "active", "persist"}
             PROVE  definition'[universe'[q]] = criteria'[q]
  BY DEF CriteriaAreBound
<1>1. TypeOK /\ CriteriaAreBound
  BY DEF UniverseInv
<1>2. CASE Untouched(q)
  <2>1. /\ definition[universe[q]] = criteria[q] /\ universe[q] \in Universes
        /\ criteria[q] \in 1 .. MaxConfig
    BY <1>1, <1>2 DEF Untouched, CriteriaAreBound, TypeOK
  <2>2. definition'[universe[q]] = definition[universe[q]]
    BY <1>1, <2>1, Defined
  <2> QED
    BY <1>2, <2>1, <2>2 DEF Untouched
<1>3. CASE Outside
  BY <1>2, <1>3 DEF Outside, Untouched, run, loaded
<1>4. ASSUME NEW r \in Runs, NEW u \in Materialised, BeginRun(r, u) PROVE Untouched(q)
  BY <1>1, <1>4, Begins
<1>5. ASSUME NEW r \in Runs, Leave(r) PROVE Untouched(q)
  BY <1>1, <1>5, Leaves DEF Left
<1>6. CASE Proceeds(q) /\ (FindDefinition(q) \/ CreateDefinition(q))
  <2>1. UNCHANGED <<universe, criteria>> /\ phase'[q] = "load"
    BY <1>1, <1>6 DEF Proceeds, run, FindDefinition, CreateDefinition, Leave, TypeOK
  <2>2. CASE FindDefinition(q)
    <3>1. definition[universe[q]] \in {0, criteria[q]} /\ definition[universe[q]] # 0
      BY <1>1, <1>6, <2>1, <2>2 DEF FindDefinition, Proceeds, Leave, TypeOK
    <3>2. UNCHANGED definition
      BY <2>2 DEF FindDefinition, database, Leave
    <3> QED
      BY <2>1, <3>1, <3>2
  <2>3. CASE CreateDefinition(q)
    <3>1. definition' = [definition EXCEPT ![universe[q]] = criteria[q]]
      BY <1>1, <1>6, <2>3 DEF CreateDefinition, Proceeds, Leave, TypeOK
    <3> QED
      BY <1>1, <2>1, <3>1 DEF TypeOK
  <2> QED
    BY <1>6, <2>2, <2>3
<1>7. CASE LoadInputs(q) \/ LoadActive(q)
  <2>1. phase[q] \in {"load", "active"} /\ UNCHANGED <<universe, criteria, definition>>
    BY <1>7 DEF LoadInputs, LoadActive, run, database
  <2> QED
    BY <1>1, <2>1 DEF CriteriaAreBound
<1>8. ASSUME NEW r \in Runs, r # q, Proceeds(r) PROVE Untouched(q)
  BY <1>8 DEF Proceeds
<1> QED
  BY <1>1, <1>2, <1>3, <1>4, <1>5, <1>6, <1>7, <1>8, Steps

\* A row, once written, stays with its security.
LEMMA RowStays ==
    ASSUME TypeOK, [Next]_vars, NEW u \in Universes, NEW c \in Companies, NEW d \in Dates,
           memberships[u][c][d] # NoRow
    PROVE  /\ memberships'[u][c][d] # NoRow
           /\ memberships'[u][c][d].security = memberships[u][c][d].security
BY RowsKept DEF Kept

LEMMA ParentStays ==
    ASSUME TypeOK, [Next]_vars, NEW u \in Universes, NEW c \in Companies, NEW s,
           s # Excluded, HasParent(u, c, s)
    PROVE  HasParent(u, c, s)'
<1>1. "candidate" \in Universes /\ "training" \in Universes
  BY DEF Universes
<1>2. ASSUME u = "training" PROVE \E p \in Dates : memberships'["candidate"][c][p] # NoRow
  BY <1>1, <1>2, RowStays DEF HasParent
<1>3. ASSUME u = "scoring" PROVE \E p \in Dates : memberships'["training"][c][p].security = s
  <2>1. PICK p \in Dates : memberships["training"][c][p].security = s
    BY <1>3 DEF HasParent
  <2>2. memberships["training"][c][p] # NoRow
    BY <2>1 DEF NoRow
  <2> QED
    BY <1>1, <2>1, <2>2, RowStays
<1> QED
  BY <1>2, <1>3 DEF HasParent

LEMMA DecisionsNext == UniverseInv /\ [Next]_vars => DecisionsHaveParents'
<1> SUFFICES ASSUME UniverseInv, [Next]_vars, NEW q \in Runs, NEW c \in Companies,
                    phase'[q] \in {"active", "persist"}, decision'[q][c] # Excluded
             PROVE  /\ universe'[q] = "training" =>
                         \E p \in Dates : memberships'["candidate"][c][p] # NoRow
                    /\ universe'[q] = "scoring" =>
                         \E p \in Dates : memberships'["training"][c][p].security
                                            = decision'[q][c]
  BY DEF DecisionsHaveParents, HasParent
<1> DEFINE Goal == /\ universe'[q] = "training" =>
                        \E p \in Dates : memberships'["candidate"][c][p] # NoRow
                   /\ universe'[q] = "scoring" =>
                        \E p \in Dates : memberships'["training"][c][p].security
                                           = decision'[q][c]
<1>1. TypeOK /\ DecisionsHaveParents /\ universe[q] \in Universes
  BY DEF UniverseInv, TypeOK
<1>0. ASSUME NEW u \in Universes, NEW s, s # Excluded, HasParent(u, c, s)
      PROVE  /\ u = "training" => \E p \in Dates : memberships'["candidate"][c][p] # NoRow
             /\ u = "scoring" => \E p \in Dates : memberships'["training"][c][p].security = s
  <2>1. HasParent(u, c, s)'
    BY <1>1, <1>0, ParentStays
  <2> QED
    BY <2>1 DEF HasParent
<1>2. ASSUME HasParent(universe[q], c, decision'[q][c]), universe'[q] = universe[q]
      PROVE  Goal
  BY <1>1, <1>2, <1>0
<1>3. CASE Untouched(q)
  BY <1>1, <1>2, <1>3 DEF Untouched, DecisionsHaveParents
<1>4. CASE Outside
  BY <1>3, <1>4 DEF Outside, Untouched, run, loaded
<1>5. ASSUME NEW r \in Runs, NEW u \in Materialised, BeginRun(r, u) PROVE Untouched(q)
  BY <1>1, <1>5, Begins
<1>6. ASSUME NEW r \in Runs, Leave(r) PROVE Untouched(q)
  BY <1>1, <1>6, Leaves DEF Left
<1>7. ASSUME NEW r \in Runs, r # q, Proceeds(r) PROVE Untouched(q)
  BY <1>7 DEF Proceeds
<1>8. CASE LoadInputs(q)
  <2>1. PICK d \in [Companies -> Decisions] :
          /\ \A e \in Companies : d[e] \in Decide(universe[q], e)
          /\ decision' = [decision EXCEPT ![q] = d]
    BY <1>8 DEF LoadInputs
  <2>2. decision'[q][c] = d[c]
    BY <1>1, <2>1 DEF TypeOK
  <2>3. HasParent(universe[q], c, decision'[q][c])
    BY <1>1, <2>1, <2>2, Deciding
  <2> QED
    BY <1>2, <1>8, <2>3 DEF LoadInputs, run
<1>9. CASE LoadActive(q)
  <2>1. phase[q] = "active" /\ decision'[q] = decision[q] /\ universe'[q] = universe[q]
    BY <1>9 DEF LoadActive, run
  <2> QED
    BY <1>1, <1>2, <2>1 DEF DecisionsHaveParents
<1>10. ASSUME Proceeds(q), FindDefinition(q) \/ CreateDefinition(q) PROVE FALSE
  BY <1>1, <1>10 DEF Proceeds, FindDefinition, CreateDefinition, Leave, TypeOK
<1> QED
  BY <1>1, <1>3, <1>4, <1>5, <1>6, <1>7, <1>8, <1>9, <1>10, Steps

\* A new row comes from the decision of its run.
LEMMA NewRow ==
    ASSUME UniverseInv, [Next]_vars, NEW u \in Universes, NEW c \in Companies, NEW d \in Dates,
           memberships[u][c][d] = NoRow, memberships'[u][c][d] # NoRow
    PROVE  /\ memberships'[u][c][d].security # Excluded
           /\ HasParent(u, c, memberships'[u][c][d].security)
<1>1. TypeOK
  BY DEF UniverseInv
<1>2. PICK r \in Runs :
        /\ Persist(r) /\ universe[r] = u
        /\ Kept(memberships[u][c], memberships'[u][c], as_of_date[r], decision[r][c])
  BY <1>1, RowsKept
<1>3. /\ memberships'[u][c][d].security = decision[r][c]
      /\ memberships'[u][c][d] \in Row
  BY <1>2 DEF Kept, Rows
<1>4. memberships'[u][c][d].security # Excluded
  BY <1>3, UniverseAssumption DEF Row, NoSecurity, Excluded
<1>5. phase[r] = "persist"
  BY <1>2 DEF Persist
<1> QED
  BY <1>2, <1>3, <1>4, <1>5 DEF UniverseInv, DecisionsHaveParents

LEMMA ParentsNext == UniverseInv /\ [Next]_vars => MembersComeFromParent'
<1> SUFFICES ASSUME UniverseInv, [Next]_vars, NEW c \in Companies, NEW d \in Dates
             PROVE  /\ memberships'["training"][c][d] # NoRow =>
                         \E p \in Dates : memberships'["candidate"][c][p] # NoRow
                    /\ memberships'["scoring"][c][d] # NoRow =>
                         \E p \in Dates : memberships'["training"][c][p].security
                                            = memberships'["scoring"][c][d].security
  BY DEF MembersComeFromParent
<1>1. /\ TypeOK /\ MembersComeFromParent
      /\ "candidate" \in Universes /\ "training" \in Universes /\ "scoring" \in Universes
  BY DEF UniverseInv, Universes
<1>2. ASSUME NEW u \in Universes, memberships'[u][c][d] # NoRow
      PROVE  /\ memberships'[u][c][d].security # Excluded
             /\ HasParent(u, c, memberships'[u][c][d].security)
  <2>1. CASE memberships[u][c][d] = NoRow
    BY <1>2, <2>1, NewRow
  <2>2. CASE memberships[u][c][d] # NoRow
    <3>1. memberships'[u][c][d].security = memberships[u][c][d].security
      BY <1>1, <2>2, RowStays
    <3>2. memberships[u][c][d].security # Excluded
      BY <1>1, <2>2, UniverseAssumption DEF TypeOK, Row, NoSecurity, Excluded
    <3>3. HasParent(u, c, memberships[u][c][d].security)
      BY <1>1, <2>2 DEF MembersComeFromParent, HasParent
    <3> QED
      BY <3>1, <3>2, <3>3
  <2> QED
    BY <2>1, <2>2
<1>3. ASSUME NEW u \in Universes, NEW s, s # Excluded, HasParent(u, c, s)
      PROVE  /\ u = "training" => \E p \in Dates : memberships'["candidate"][c][p] # NoRow
             /\ u = "scoring" => \E p \in Dates : memberships'["training"][c][p].security = s
  BY <1>1, <1>3, ParentStays DEF HasParent
<1>4. memberships'["training"][c][d] # NoRow =>
        \E p \in Dates : memberships'["candidate"][c][p] # NoRow
  BY <1>1, <1>2, <1>3
<1>5. memberships'["scoring"][c][d] # NoRow =>
        \E p \in Dates : memberships'["training"][c][p].security
                           = memberships'["scoring"][c][d].security
  BY <1>1, <1>2, <1>3
<1> QED
  BY <1>4, <1>5

LEMMA UniverseInit == Init => UniverseInv
<1> SUFFICES ASSUME Init PROVE UniverseInv
  OBVIOUS
<1>1. TypeOK
  <2>1. /\ 1 \in Dates /\ 1 \in 1 .. MaxConfig /\ 0 \in 0 .. MaxDate /\ 0 \in 0 .. MaxConfig
        /\ "candidate" \in Universes
    BY UniverseAssumption DEF Dates, Universes
  <2>2. /\ AllExcluded \in [Companies -> Securities \cup {Excluded}]
        /\ AllExcluded \in [Companies -> Decisions]
    BY DEF AllExcluded, Decisions
  <2> QED
    BY <2>1, <2>2 DEF Init, TypeOK
<1>2. today = 1 /\ \A r \in Runs : as_of_date[r] = 1 /\ phase[r] = "idle"
  BY DEF Init
<1>3. \A u \in Universes, c \in Companies, d \in Dates : memberships[u][c][d] = NoRow
  BY DEF Init
<1>4. "training" \in Universes /\ "scoring" \in Universes
  BY DEF Universes
<1> QED
  BY <1>1, <1>2, <1>3, <1>4 DEF UniverseInv, RowsArePast, DatesArePast, CriteriaAreBound,
     DecisionsHaveParents, MembersComeFromParent

LEMMA UniverseNext == UniverseInv /\ [Next]_vars => UniverseInv'
BY TypeNext, PastNext, BoundNext, DecisionsNext, ParentsNext DEF UniverseInv

LEMMA UniverseInvariant == Spec => []UniverseInv
BY UniverseInit, UniverseNext, PTL DEF Spec

\* The variables keep their types.
THEOREM TypeCorrect == Spec => []TypeOK
<1>1. UniverseInv => TypeOK
  BY DEF UniverseInv
<1> QED
  BY UniverseInvariant, <1>1, PTL

\* However the runs of the three universes interleave, overlap and fail, a member of
\* the training universe has been a candidate, and a scored security was the
\* company's security in the training universe.
THEOREM ParentsHold == Spec => []MembersComeFromParent
<1>1. UniverseInv => MembersComeFromParent
  BY DEF UniverseInv
<1> QED
  BY UniverseInvariant, <1>1, PTL

\* Readers by date and readers of open rows see the same members, in every state.
THEOREM ReadersAgree == Spec => []ConsumersAgree
<1>1. UniverseInv => ConsumersAgree
  <2> SUFFICES ASSUME UniverseInv, NEW u \in Universes, NEW c \in Companies, NEW d \in Dates
               PROVE  d \in Open(memberships[u][c]) <=> Covers(memberships[u][c], d, today)
    BY DEF ConsumersAgree
  <2>1. memberships[u][c][d] # NoRow => /\ memberships[u][c][d].until \in Nat /\ today \in Nat
                                        /\ d <= today /\ memberships[u][c][d].until <= today
    BY UniverseAssumption DEF UniverseInv, RowsArePast, TypeOK, Row, Dates
  <2> QED
    BY <2>1 DEF Open, Covers
<1> QED
  BY UniverseInvariant, <1>1, PTL

\* Two deployments with different criteria never write into one universe version.
THEOREM DefinitionBinds == Spec => DefinitionIsBinding
<1>1. ASSUME UniverseInv, [Next]_vars, NEW u \in Universes
      PROVE  /\ definition[u] # 0 => definition'[u] = definition[u]
             /\ memberships'[u] # memberships[u] =>
                  \E r \in Runs : universe[r] = u /\ criteria[r] = definition[u]
  <2>1. TypeOK
    BY <1>1 DEF UniverseInv
  <2>2. ASSUME NEW r \in Runs, Persist(r) PROVE criteria[r] = definition[universe[r]]
    BY <1>1, <2>2 DEF UniverseInv, CriteriaAreBound, Persist
  <2> QED
    BY <1>1, <2>1, <2>2, Defined, Written
<1>2. UniverseInv /\ [Next]_vars =>
        [\A u \in Universes :
           /\ definition[u] # 0 => definition'[u] = definition[u]
           /\ memberships'[u] # memberships[u] =>
                \E r \in Runs : universe[r] = u /\ criteria[r] = definition[u]]_vars
  BY <1>1
<1> QED
  BY UniverseInvariant, <1>2, PTL DEF Spec, DefinitionIsBinding

--------------------------------------------------------------------------------
(* Runs of one universe that do not overlap.                               *)

Exclusive ==
    \A r, q \in Runs :
      phase[r] # "idle" /\ phase[q] # "idle" /\ universe[r] = universe[q] => r = q

\* What a run finds in its universe has been written on its date or before.
RowsPrecedeRun ==
    \A r \in Runs : phase[r] # "idle" =>
      \A c \in Companies, d \in Dates :
        LET x == memberships[universe[r]][c][d]
        IN  x # NoRow => d <= as_of_date[r] /\ x.until <= as_of_date[r]

OneOpen ==
    \A u \in Universes, c \in Companies : \A d, e \in Open(memberships[u][c]) : d = e

\* What a run has loaded is still so when it writes.
ActiveIsCurrent ==
    \A r \in Runs, c \in Companies : phase[r] = "persist" =>
      LET found == OpenSecurities(memberships[universe[r]][c])
      IN  IF found = {} THEN active[r][c] = Excluded ELSE active[r][c] \in found

NoneTwice == \A r \in Runs : twice[r] = {}

AloneInv ==
    /\ UniverseInv
    /\ Exclusive
    /\ RowsPrecedeRun
    /\ OneOpen
    /\ ActiveIsCurrent
    /\ NoneTwice

LEMMA OpenAfterClose ==
    ASSUME NEW rows \in Rows, NEW date \in Dates
    PROVE  Open(CloseMembership(rows, date)) = {}
<1> DEFINE new == CloseMembership(rows, date)
<1>1. \A d \in Dates : new[d] = IF rows[d] # NoRow /\ rows[d].until = 0
                                THEN [security |-> rows[d].security, until |-> date]
                                ELSE rows[d]
  BY Closing
<1> HIDE DEF new
<1>2. ASSUME NEW d \in Dates, new[d] # NoRow PROVE new[d].until # 0
  <2>1. CASE rows[d] # NoRow /\ rows[d].until = 0
    <3>1. new[d] = [security |-> rows[d].security, until |-> date]
      BY <1>1, <2>1
    <3> QED
      BY <3>1 DEF Dates
  <2>2. CASE ~(rows[d] # NoRow /\ rows[d].until = 0)
    BY <1>1, <1>2, <2>2
  <2> QED
    BY <2>1, <2>2
<1>3. Open(new) = {}
  BY <1>2 DEF Open
<1> QED
  BY <1>3 DEF new

LEMMA CloseNothing ==
    ASSUME NEW rows \in Rows, NEW date \in Dates, Open(rows) = {}
    PROVE  CloseMembership(rows, date) = rows
<1>1. /\ CloseMembership(rows, date) \in Rows
      /\ \A d \in Dates : CloseMembership(rows, date)[d] = rows[d]
  BY Closing DEF Open
<1> QED
  BY <1>1 DEF Rows

\* After the open rows are closed, an insert opens the row of its date or nothing.
LEMMA OpenAfterInsert ==
    ASSUME NEW rows \in Rows, NEW date \in Dates, NEW s \in Securities \cup {NoSecurity},
           Open(rows) = {}
    PROVE  /\ Open(InsertMembership(rows, date, s)) = IF rows[date] = NoRow THEN {date} ELSE {}
           /\ OpenSecurities(InsertMembership(rows, date, s)) =
                IF rows[date] = NoRow THEN {s} ELSE {}
<1> DEFINE new == InsertMembership(rows, date, s)
<1>1. \A d \in Dates : new[d] = IF d = date /\ rows[date] = NoRow
                                THEN [security |-> s, until |-> 0] ELSE rows[d]
  BY Inserting
<1> HIDE DEF new
<1>2. CASE rows[date] # NoRow
  <2>1. Open(new) = {}
    BY <1>1, <1>2 DEF Open
  <2>2. OpenSecurities(new) = {}
    BY <2>1 DEF OpenSecurities
  <2> QED
    BY <1>2, <2>1, <2>2 DEF new
<1>3. CASE rows[date] = NoRow
  <2>1. new[date] = [security |-> s, until |-> 0]
    BY <1>1, <1>3
  <2>2. s # Excluded
    BY UniverseAssumption DEF NoSecurity, Excluded
  <2>3. new[date] # NoRow /\ new[date].until = 0 /\ new[date].security = s
    BY <2>1, <2>2 DEF NoRow
  <2>4. \A d \in Dates : d # date => new[d] = rows[d]
    BY <1>1
  <2>5. Open(new) = {date}
    BY <2>3, <2>4 DEF Open
  <2>6. OpenSecurities(new) = {s}
    BY <2>3, <2>5 DEF OpenSecurities
  <2> QED
    BY <1>3, <2>5, <2>6 DEF new
<1> QED
  BY <1>2, <1>3

LEMMA OpenOnce ==
    ASSUME AloneInv, NEW u \in Universes, NEW c \in Companies
    PROVE  Cardinality(Open(memberships[u][c])) <= 1
<1>1. CASE Open(memberships[u][c]) = {}
  BY <1>1, FS_EmptySet
<1>2. ASSUME NEW d \in Open(memberships[u][c]) PROVE Cardinality(Open(memberships[u][c])) <= 1
  <2>1. Open(memberships[u][c]) = {d}
    BY <1>2 DEF AloneInv, OneOpen
  <2> QED
    BY <2>1, FS_Singleton
<1> QED
  BY <1>1, <1>2

\* What a run writes: the open row is closed, and then another may be opened.
LEMMA UpdatedOnce ==
    ASSUME AloneInv, NEW r \in Runs, phase[r] = "persist", NEW c \in Companies
    PROVE  LET rows == memberships[universe[r]][c]
               date == as_of_date[r]
               new == decision[r][c]
           IN  /\ rows \in Rows /\ date \in Dates
               /\ new = active[r][c] =>
                    /\ Updated(r, c) = rows
                    /\ OpenSecurities(rows) = {new} \ {Excluded}
               /\ new # active[r][c] /\ new = Excluded =>
                    Updated(r, c) = CloseMembership(rows, date)
               /\ new # active[r][c] /\ new # Excluded =>
                    /\ new \in Securities \cup {NoSecurity}
                    /\ Updated(r, c) = InsertMembership(CloseMembership(rows, date), date, new)
<1> DEFINE rows == memberships[universe[r]][c]
           date == as_of_date[r]
           new == decision[r][c]
           old == active[r][c]
<1>1. /\ rows \in Rows /\ date \in Dates /\ new \in Decisions /\ universe[r] \in Universes
      /\ c \notin twice[r]
  BY DEF AloneInv, UniverseInv, TypeOK, Rows, NoneTwice
<1>2. IF OpenSecurities(rows) = {} THEN old = Excluded ELSE old \in OpenSecurities(rows)
  BY DEF AloneInv, ActiveIsCurrent
<1>3. Excluded \notin OpenSecurities(rows)
  BY <1>1, UniverseAssumption DEF OpenSecurities, Open, Rows, Row, NoSecurity, Excluded
<1>4. \A d, e \in Open(rows) : d = e
  BY <1>1 DEF AloneInv, OneOpen
<1>5. ASSUME new = old PROVE Updated(r, c) = rows /\ OpenSecurities(rows) = {new} \ {Excluded}
  <2>1. Updated(r, c) = rows
    BY <1>5 DEF Updated
  <2>2. OpenSecurities(rows) = {new} \ {Excluded}
    BY <1>2, <1>3, <1>4, <1>5 DEF OpenSecurities
  <2> QED
    BY <2>1, <2>2
<1>6. ASSUME new # old, new = Excluded PROVE Updated(r, c) = CloseMembership(rows, date)
  BY <1>6 DEF Updated
<1>7. ASSUME new # old, new # Excluded
      PROVE  /\ new \in Securities \cup {NoSecurity}
             /\ Updated(r, c) = InsertMembership(CloseMembership(rows, date), date, new)
  <2>1. CASE old = Excluded
    <3>1. Updated(r, c) = InsertMembership(rows, date, new)
      BY <1>7, <2>1 DEF Updated
    <3>2. Open(rows) = {}
      BY <1>2, <1>3, <2>1 DEF OpenSecurities
    <3>3. CloseMembership(rows, date) = rows
      BY <1>1, <3>2, CloseNothing
    <3> QED
      BY <1>1, <1>7, <3>1, <3>3 DEF Decisions
  <2>2. CASE old # Excluded
    BY <1>1, <1>7, <2>2 DEF Updated, Decisions
  <2> QED
    BY <2>1, <2>2
<1> QED
  BY <1>1, <1>5, <1>6, <1>7

\* While a run lives nobody else writes in its universe.
LEMMA RowsOfRun ==
    ASSUME AloneInv, [Next]_vars, NEW q \in Runs, phase[q] # "idle"
    PROVE  Persist(q) \/ memberships'[universe[q]] = memberships[universe[q]]
<1>1. TypeOK /\ universe[q] \in Universes
  BY DEF AloneInv, UniverseInv, TypeOK
<1>2. ASSUME NEW r \in Runs, Persist(r), universe[r] = universe[q] PROVE r = q
  BY <1>2 DEF AloneInv, Exclusive, Persist
<1> QED
  BY <1>1, <1>2, Written

\* The kinds of steps, for a run that is alive afterwards.
LEMMA Survives ==
    ASSUME TypeOK, [Next]_vars, NEW q \in Runs, phase'[q] # "idle"
    PROVE  \/ Untouched(q)
           \/ \E u \in Materialised : BeginRun(q, u)
           \/ Proceeds(q) /\ (FindDefinition(q) \/ CreateDefinition(q)
                                \/ LoadInputs(q) \/ LoadActive(q))
<1>1. CASE Outside
  BY <1>1 DEF Outside, Untouched, run, loaded
<1>2. ASSUME NEW r \in Runs, NEW u \in Materialised, BeginRun(r, u), r # q PROVE Untouched(q)
  BY <1>2, Begins
<1>3. ASSUME NEW r \in Runs, Proceeds(r), r # q PROVE Untouched(q)
  BY <1>3 DEF Proceeds
<1>4. ASSUME NEW r \in Runs, Leave(r) PROVE Untouched(q)
  BY <1>4, Leaves DEF Left
<1> QED
  BY <1>1, <1>2, <1>3, <1>4, Steps

LEMMA ExclusiveNext == ~Overlap /\ AloneInv /\ [Next]_vars => Exclusive'
<1> SUFFICES ASSUME ~Overlap, AloneInv, [Next]_vars, NEW r \in Runs, NEW q \in Runs, r # q,
                    phase'[r] # "idle", phase'[q] # "idle"
             PROVE  universe'[r] # universe'[q]
  BY DEF Exclusive
<1>1. TypeOK
  BY DEF AloneInv, UniverseInv
<1>2. ASSUME NEW s \in Runs, phase'[s] # "idle", ~(\E u \in Materialised : BeginRun(s, u))
      PROVE  phase[s] # "idle" /\ universe'[s] = universe[s]
  BY <1>1, <1>2, Survives DEF Untouched, Proceeds, run
<1>3. ASSUME NEW s \in Runs, NEW t \in Runs, s # t, NEW u \in Materialised, BeginRun(s, u),
             phase'[t] # "idle"
      PROVE  universe'[s] # universe'[t]
  <2>1. Untouched(t) /\ universe'[s] = u
    BY <1>1, <1>3, Begins
  <2> QED
    BY <1>3, <2>1 DEF BeginRun, Untouched
<1>4. CASE \E u \in Materialised : BeginRun(r, u)
  BY <1>3, <1>4
<1>5. CASE \E u \in Materialised : BeginRun(q, u)
  BY <1>3, <1>5
<1>6. CASE /\ ~ \E u \in Materialised : BeginRun(r, u)
           /\ ~ \E u \in Materialised : BeginRun(q, u)
  BY <1>2, <1>6 DEF AloneInv, Exclusive
<1> QED
  BY <1>4, <1>5, <1>6

LEMMA PrecedeNext == AloneInv /\ [Next]_vars => RowsPrecedeRun'
<1> SUFFICES ASSUME AloneInv, [Next]_vars, NEW q \in Runs, phase'[q] # "idle",
                    NEW c \in Companies, NEW d \in Dates,
                    memberships'[universe'[q]][c][d] # NoRow
             PROVE  /\ d <= as_of_date'[q]
                    /\ memberships'[universe'[q]][c][d].until <= as_of_date'[q]
  BY DEF RowsPrecedeRun
<1>1. TypeOK
  BY DEF AloneInv, UniverseInv
<1>2. ASSUME phase[q] # "idle", universe'[q] = universe[q], as_of_date'[q] = as_of_date[q]
      PROVE  /\ d <= as_of_date'[q]
             /\ memberships'[universe'[q]][c][d].until <= as_of_date'[q]
  <2>1. ~Persist(q)
    BY <1>1, Leaves DEF Persist, Left
  <2>2. memberships'[universe[q]] = memberships[universe[q]]
    BY <1>2, <2>1, RowsOfRun
  <2>3. memberships[universe[q]][c][d] # NoRow =>
          d <= as_of_date[q] /\ memberships[universe[q]][c][d].until <= as_of_date[q]
    BY <1>2 DEF AloneInv, RowsPrecedeRun
  <2> QED
    BY <1>2, <2>2, <2>3
<1>3. CASE phase[q] # "idle" /\ (Untouched(q) \/ Proceeds(q))
  BY <1>2, <1>3 DEF Untouched, Proceeds, run
<1>4. ASSUME NEW u \in Materialised, BeginRun(q, u)
      PROVE  /\ d <= as_of_date'[q]
             /\ memberships'[universe'[q]][c][d].until <= as_of_date'[q]
  <2>1. universe'[q] = u /\ as_of_date'[q] = today /\ memberships' = memberships
    BY <1>1, <1>4, Begins DEF database
  <2>2. u \in Universes
    BY UniverseAssumption
  <2> QED
    BY <2>1, <2>2 DEF AloneInv, UniverseInv, RowsArePast
<1>5. phase[q] # "idle" \/ \E u \in Materialised : BeginRun(q, u)
  BY <1>1, Survives DEF Untouched, Proceeds
<1> QED
  BY <1>1, <1>3, <1>4, <1>5, Survives

LEMMA OpenNext == AloneInv /\ [Next]_vars => OneOpen'
<1> SUFFICES ASSUME AloneInv, [Next]_vars, NEW u \in Universes, NEW c \in Companies
             PROVE  \A d, e \in Open(memberships'[u][c]) : d = e
  BY DEF OneOpen, Open
<1>1. TypeOK
  BY DEF AloneInv, UniverseInv
<1>2. CASE memberships'[u][c] = memberships[u][c]
  BY <1>2 DEF AloneInv, OneOpen, Open
<1>3. ASSUME NEW r \in Runs, Persist(r), universe[r] = u, memberships'[u][c] = Updated(r, c)
      PROVE  \A d, e \in Open(memberships'[u][c]) : d = e
  <2> DEFINE rows == memberships[u][c]
             date == as_of_date[r]
             new == decision[r][c]
  <2>1. /\ rows \in Rows /\ date \in Dates
        /\ new = active[r][c] => Updated(r, c) = rows
        /\ new # active[r][c] /\ new = Excluded => Updated(r, c) = CloseMembership(rows, date)
        /\ new # active[r][c] /\ new # Excluded =>
             /\ new \in Securities \cup {NoSecurity}
             /\ Updated(r, c) = InsertMembership(CloseMembership(rows, date), date, new)
    BY <1>3, UpdatedOnce DEF Persist
  <2>2. CloseMembership(rows, date) \in Rows /\ Open(CloseMembership(rows, date)) = {}
    BY <2>1, Closing, OpenAfterClose
  <2>3. CASE new = active[r][c]
    BY <1>2, <1>3, <2>1, <2>3
  <2>4. CASE new # active[r][c] /\ new = Excluded
    <3>1. Open(memberships'[u][c]) = {}
      BY <1>3, <2>1, <2>2, <2>4
    <3> QED
      BY <3>1
  <2>5. CASE new # active[r][c] /\ new # Excluded
    <3>1. Open(memberships'[u][c]) \in {{}, {date}}
      BY <1>3, <2>1, <2>2, <2>5, OpenAfterInsert
    <3> QED
      BY <3>1
  <2> QED
    BY <2>3, <2>4, <2>5
<1> QED
  BY <1>1, <1>2, <1>3, RowsKept

LEMMA ActiveNext == AloneInv /\ [Next]_vars => ActiveIsCurrent'
<1> SUFFICES ASSUME AloneInv, [Next]_vars, NEW q \in Runs, phase'[q] = "persist",
                    NEW c \in Companies
             PROVE  IF OpenSecurities(memberships'[universe'[q]][c]) = {}
                    THEN active'[q][c] = Excluded
                    ELSE active'[q][c] \in OpenSecurities(memberships'[universe'[q]][c])
  BY DEF ActiveIsCurrent, OpenSecurities, Open
<1>1. TypeOK
  BY DEF AloneInv, UniverseInv
<1>2. ~Persist(q)
  BY <1>1, Leaves DEF Persist, Left
<1>3. CASE Untouched(q)
  <2>1. memberships'[universe[q]] = memberships[universe[q]]
    BY <1>2, <1>3, RowsOfRun DEF Untouched
  <2>2. IF OpenSecurities(memberships[universe[q]][c]) = {}
        THEN active[q][c] = Excluded
        ELSE active[q][c] \in OpenSecurities(memberships[universe[q]][c])
    BY <1>3 DEF Untouched, AloneInv, ActiveIsCurrent
  <2> QED
    BY <1>3, <2>1, <2>2 DEF Untouched
<1>4. CASE LoadActive(q)
  <2>1. PICK a \in [Companies -> Decisions] :
          /\ \A e \in Companies :
               LET found == OpenSecurities(memberships[universe[q]][e])
               IN  IF found = {} THEN a[e] = Excluded ELSE a[e] \in found
          /\ active' = [active EXCEPT ![q] = a]
    BY <1>4 DEF LoadActive
  <2>2. active'[q][c] = a[c] /\ UNCHANGED <<memberships, universe>>
    BY <1>1, <1>4, <2>1 DEF LoadActive, TypeOK, run, database
  <2> QED
    BY <2>1, <2>2
<1>5. ASSUME Proceeds(q), FindDefinition(q) \/ CreateDefinition(q) \/ LoadInputs(q)
      PROVE FALSE
  BY <1>1, <1>5 DEF Proceeds, FindDefinition, CreateDefinition, LoadInputs, Leave, TypeOK
<1>6. ASSUME NEW u \in Materialised, BeginRun(q, u) PROVE FALSE
  BY <1>1, <1>6, Begins
<1> QED
  BY <1>1, <1>3, <1>4, <1>5, <1>6, Survives

LEMMA TwiceNext == AloneInv /\ [Next]_vars => NoneTwice'
<1> SUFFICES ASSUME AloneInv, [Next]_vars, NEW q \in Runs PROVE twice'[q] = {}
  BY DEF NoneTwice
<1>1. TypeOK /\ twice[q] = {}
  BY DEF AloneInv, UniverseInv, NoneTwice
<1>2. CASE Outside
  BY <1>1, <1>2 DEF Outside, loaded
<1>3. ASSUME NEW r \in Runs, NEW u \in Materialised, BeginRun(r, u) PROVE twice'[q] = {}
  BY <1>1, <1>3 DEF BeginRun, loaded
<1>4. ASSUME NEW r \in Runs, Leave(r) PROVE twice'[q] = {}
  BY <1>1, <1>4 DEF Leave, TypeOK
<1>5. ASSUME NEW r \in Runs, LoadInputs(r) PROVE twice'[q] = {}
  <2>1. twice' = [twice EXCEPT ![r] = {c \in Companies : ParentRows(universe[r], c) > 1}]
    BY <1>5 DEF LoadInputs
  <2>2. ASSUME NEW c \in Companies PROVE ~(ParentRows(universe[r], c) > 1)
    <3>1. universe[r] \in Universes /\ "candidate" \in Universes /\ "training" \in Universes
      BY <1>1 DEF TypeOK, Universes
    <3>2. /\ Cardinality(Open(memberships["candidate"][c])) <= 1
          /\ Cardinality(Open(memberships["training"][c])) <= 1
      BY <3>1, OpenOnce
    <3>3. /\ Cardinality(Open(memberships["candidate"][c])) \in Nat
          /\ Cardinality(Open(memberships["training"][c])) \in Nat
      <4>1. IsFiniteSet(Dates)
        BY UniverseAssumption, FS_Interval DEF Dates
      <4>2. IsFiniteSet(Open(memberships["candidate"][c])) /\ IsFiniteSet(Open(memberships["training"][c]))
        BY <4>1, FS_Subset DEF Open
      <4> QED
        BY <4>2, FS_CardinalityType
    <3> QED
      BY <3>1, <3>2, <3>3 DEF ParentRows, Universes
  <2> QED
    BY <1>1, <2>1, <2>2 DEF TypeOK
<1>6. ASSUME NEW r \in Runs, Proceeds(r),
             FindDefinition(r) \/ CreateDefinition(r) \/ LoadActive(r)
      PROVE  twice'[q] = {}
  BY <1>1, <1>6 DEF FindDefinition, CreateDefinition, LoadActive, Leave, TypeOK, loaded
<1> QED
  BY <1>1, <1>2, <1>3, <1>4, <1>5, <1>6, Steps

LEMMA AloneInvariant == ~Overlap /\ Spec => []AloneInv
<1> SUFFICES ASSUME ~Overlap PROVE Spec => []AloneInv
  OBVIOUS
<1>1. Init => AloneInv
  <2>1. Init => Exclusive /\ RowsPrecedeRun /\ OneOpen /\ ActiveIsCurrent /\ NoneTwice
    BY DEF Init, Exclusive, RowsPrecedeRun, OneOpen, ActiveIsCurrent, NoneTwice, Open
  <2> QED
    BY <2>1, UniverseInit DEF AloneInv
<1>2. AloneInv /\ [Next]_vars => AloneInv'
  BY UniverseNext, ExclusiveNext, PrecedeNext, OpenNext, ActiveNext, TwiceNext DEF AloneInv
<1> QED
  BY <1>1, <1>2, PTL DEF Spec

--------------------------------------------------------------------------------
(* What a run leaves, and the abstract specification.                      *)

\* After the commit of a run, the open rows of a company are its decision, or none
\* when the row of the date existed already.
THEOREM DecisionApplied == ~Overlap /\ Spec => RunAppliesDecision
<1> SUFFICES ASSUME ~Overlap PROVE Spec => RunAppliesDecision
  OBVIOUS
<1>1. ASSUME AloneInv, NEW r \in Runs, Persist(r), NEW c \in Companies
      PROVE  OpenSecurities(memberships'[universe[r]][c]) =
               IF decision[r][c] = active[r][c]
                    \/ memberships[universe[r]][c][as_of_date[r]] = NoRow
               THEN {decision[r][c]} \ {Excluded} ELSE {}
  <2> DEFINE rows == memberships[universe[r]][c]
             date == as_of_date[r]
             new == decision[r][c]
  <2>1. /\ rows \in Rows /\ date \in Dates
        /\ new = active[r][c] =>
             /\ Updated(r, c) = rows
             /\ OpenSecurities(rows) = {new} \ {Excluded}
        /\ new # active[r][c] /\ new = Excluded => Updated(r, c) = CloseMembership(rows, date)
        /\ new # active[r][c] /\ new # Excluded =>
             /\ new \in Securities \cup {NoSecurity}
             /\ Updated(r, c) = InsertMembership(CloseMembership(rows, date), date, new)
    BY <1>1, UpdatedOnce DEF Persist
  <2>2. memberships'[universe[r]][c] = Updated(r, c)
    BY <1>1 DEF Persist, AloneInv, UniverseInv, TypeOK
  <2>3. /\ CloseMembership(rows, date) \in Rows /\ Open(CloseMembership(rows, date)) = {}
        /\ CloseMembership(rows, date)[date] = NoRow <=> rows[date] = NoRow
    <3>1. Kept(rows, CloseMembership(rows, date), date, Excluded)
      BY <2>1, KeptByClose
    <3>2. CloseMembership(rows, date)[date] =
            IF rows[date] # NoRow /\ rows[date].until = 0
            THEN [security |-> rows[date].security, until |-> date] ELSE rows[date]
      BY <2>1, Closing
    <3> QED
      BY <2>1, <3>1, <3>2, Closing, OpenAfterClose DEF Kept
  <2>4. CASE new = active[r][c]
    BY <2>1, <2>2, <2>4
  <2>5. CASE new # active[r][c] /\ new = Excluded
    <3>1. OpenSecurities(Updated(r, c)) = {}
      BY <2>1, <2>3, <2>5 DEF OpenSecurities
    <3> QED
      BY <2>2, <2>5, <3>1
  <2>6. CASE new # active[r][c] /\ new # Excluded
    <3>1. OpenSecurities(Updated(r, c)) = IF rows[date] = NoRow THEN {new} ELSE {}
      BY <2>1, <2>3, <2>6, OpenAfterInsert
    <3> QED
      BY <2>2, <2>6, <3>1
  <2> QED
    BY <2>4, <2>5, <2>6
<1>2. AloneInv /\ [Next]_vars =>
        [\A r \in Runs : Persist(r) => \A c \in Companies :
           LET unchanged == decision[r][c] = active[r][c]
               free == memberships[universe[r]][c][as_of_date[r]] = NoRow
           IN  OpenSecurities(memberships'[universe[r]][c])
                 = IF unchanged \/ free THEN {decision[r][c]} \ {Excluded} ELSE {}]_vars
  BY <1>1
<1>3. Spec => []AloneInv
  BY AloneInvariant
<1> QED
  BY <1>2, <1>3, PTL DEF Spec, RunAppliesDecision

\* The history of one company's rows.
HistoryOf(rows) ==
    {[value |-> rows[d].security, from |-> d, until |-> rows[d].until] :
       d \in {e \in Dates : rows[e] # NoRow}}

Values == Securities \cup {NoSecurity}
AbstractRow == [value: Values, from: Dates, until: Dates \cup {0}]

LEMMA HistoryTyped ==
    ASSUME NEW rows \in Rows
    PROVE  HistoryOf(rows) \subseteq AbstractRow
<1>1. ASSUME NEW d \in Dates, rows[d] # NoRow
      PROVE  [value |-> rows[d].security, from |-> d, until |-> rows[d].until] \in AbstractRow
  <2>1. rows[d].security \in Values /\ rows[d].until \in Dates \cup {0}
    BY <1>1, UniverseAssumption DEF Rows, Row, Dates, Values
  <2> QED
    BY <2>1 DEF AbstractRow
<1> QED
  BY <1>1 DEF HistoryOf

LEMMA ClosedHistory ==
    ASSUME NEW rows \in Rows, NEW date \in Dates
    PROVE  HistoryOf(CloseMembership(rows, date)) = Dating!Closed(HistoryOf(rows), date)
<1> DEFINE new == CloseMembership(rows, date)
           old(d) == [value |-> rows[d].security, from |-> d, until |-> rows[d].until]
           now(d) == [value |-> new[d].security, from |-> d, until |-> new[d].until]
           end(x) == IF x.until = 0 THEN [x EXCEPT !.until = date] ELSE x
<1>1. ASSUME NEW d \in Dates
      PROVE  /\ new[d] # NoRow <=> rows[d] # NoRow
             /\ rows[d] # NoRow => now(d) = end(old(d))
  <2>1. new[d] = IF rows[d] # NoRow /\ rows[d].until = 0
                 THEN [security |-> rows[d].security, until |-> date] ELSE rows[d]
    BY Closing
  <2>2. new[d] # NoRow <=> rows[d] # NoRow
    <3>1. Kept(rows, new, date, Excluded)
      BY KeptByClose
    <3> HIDE DEF new
    <3> QED
      BY <2>1, <3>1 DEF Kept
  <2> HIDE DEF new
  <2>3. ASSUME rows[d] # NoRow PROVE now(d) = end(old(d))
    <3>1. CASE rows[d].until = 0
      <4>1. new[d].security = rows[d].security /\ new[d].until = date
        BY <2>1, <2>3, <3>1
      <4> QED
        BY <3>1, <4>1
    <3>2. CASE rows[d].until # 0
      BY <2>1, <3>2
    <3> QED
      BY <3>1, <3>2
  <2> QED
    BY <2>2, <2>3
<1>2. HistoryOf(new) = {now(d) : d \in {e \in Dates : new[e] # NoRow}}
  BY DEF HistoryOf
<1>3. HistoryOf(rows) = {old(d) : d \in {e \in Dates : rows[e] # NoRow}}
  BY DEF HistoryOf
<1>4. Dating!Closed(HistoryOf(rows), date) = {end(x) : x \in HistoryOf(rows)}
  BY DEF Dating!Closed
<1> HIDE DEF new, old, now, end
<1>5. HistoryOf(new) = {end(x) : x \in HistoryOf(rows)}
  BY <1>1, <1>2, <1>3
<1> QED
  BY <1>4, <1>5 DEF new

LEMMA InsertedHistory ==
    ASSUME NEW rows \in Rows, NEW date \in Dates, NEW s \in Values
    PROVE  HistoryOf(InsertMembership(rows, date, s)) =
             IF rows[date] = NoRow
             THEN HistoryOf(rows) \cup {[value |-> s, from |-> date, until |-> 0]}
             ELSE HistoryOf(rows)
<1> DEFINE new == InsertMembership(rows, date, s)
           old(d) == [value |-> rows[d].security, from |-> d, until |-> rows[d].until]
           now(d) == [value |-> new[d].security, from |-> d, until |-> new[d].until]
           added == [value |-> s, from |-> date, until |-> 0]
<1>1. \A d \in Dates : new[d] = IF d = date /\ rows[date] = NoRow
                                THEN [security |-> s, until |-> 0] ELSE rows[d]
  BY Inserting DEF Values
<1>2. /\ HistoryOf(new) = {now(d) : d \in {e \in Dates : new[e] # NoRow}}
      /\ HistoryOf(rows) = {old(d) : d \in {e \in Dates : rows[e] # NoRow}}
  BY DEF HistoryOf
<1> HIDE DEF new
<1>3. CASE rows[date] # NoRow
  <2>1. \A d \in Dates : new[d] = rows[d]
    BY <1>1, <1>3
  <2>2. HistoryOf(new) = HistoryOf(rows)
    BY <1>2, <2>1
  <2> QED
    BY <1>3, <2>2 DEF new
<1>4. CASE rows[date] = NoRow
  <2>1. new[date] = [security |-> s, until |-> 0]
    BY <1>1, <1>4
  <2>2. s # Excluded
    BY UniverseAssumption DEF Values, NoSecurity, Excluded
  <2>3. new[date] # NoRow /\ now(date) = added
    BY <2>1, <2>2 DEF NoRow
  <2>4. \A d \in Dates : d # date => new[d] = rows[d] /\ now(d) = old(d)
    BY <1>1
  <2> HIDE DEF now, old, added
  <2>5. HistoryOf(new) = HistoryOf(rows) \cup {added}
    BY <1>2, <1>4, <2>3, <2>4
  <2> QED
    BY <1>4, <2>5 DEF new, added
<1> QED
  BY <1>3, <1>4

LEMMA HistoryIs ==
    /\ History = [s \in Universes \X Companies |-> HistoryOf(memberships[s[1]][s[2]])]
    /\ History' = [s \in Universes \X Companies |-> HistoryOf(memberships'[s[1]][s[2]])]
BY DEF History, HistoryOf

\* A company's rows are kept or revised as the abstract specification allows.
LEMMA RowsRevised ==
    ASSUME AloneInv, [Next]_vars, NEW u \in Universes, NEW c \in Companies
    PROVE  \/ HistoryOf(memberships'[u][c]) = HistoryOf(memberships[u][c])
           \/ Dating!Revised(HistoryOf(memberships[u][c]), HistoryOf(memberships'[u][c]))
<1>1. TypeOK
  BY DEF AloneInv, UniverseInv
<1>2. CASE memberships'[u][c] = memberships[u][c]
  BY <1>2
<1>3. ASSUME NEW r \in Runs, Persist(r), universe[r] = u, memberships'[u][c] = Updated(r, c)
      PROVE  \/ HistoryOf(memberships'[u][c]) = HistoryOf(memberships[u][c])
             \/ Dating!Revised(HistoryOf(memberships[u][c]), HistoryOf(memberships'[u][c]))
  <2> DEFINE rows == memberships[u][c]
             date == as_of_date[r]
             new == decision[r][c]
  <2>1. /\ rows \in Rows /\ date \in Dates
        /\ new = active[r][c] => Updated(r, c) = rows
        /\ new # active[r][c] /\ new = Excluded => Updated(r, c) = CloseMembership(rows, date)
        /\ new # active[r][c] /\ new # Excluded =>
             /\ new \in Securities \cup {NoSecurity}
             /\ Updated(r, c) = InsertMembership(CloseMembership(rows, date), date, new)
    BY <1>3, UpdatedOnce DEF Persist
  <2>2. /\ CloseMembership(rows, date) \in Rows
        /\ HistoryOf(CloseMembership(rows, date)) = Dating!Closed(HistoryOf(rows), date)
    BY <2>1, Closing, ClosedHistory
  <2>3. Dating!Recorded(HistoryOf(rows), date)
    <3>1. \A d \in Dates : rows[d] # NoRow => d <= date /\ rows[d].until <= date
      BY <1>3 DEF AloneInv, RowsPrecedeRun, Persist
    <3>2. ASSUME NEW x \in HistoryOf(rows) PROVE x.from <= date /\ x.until <= date
      <4>1. PICK d \in Dates : /\ rows[d] # NoRow
                               /\ x = [value |-> rows[d].security, from |-> d,
                                       until |-> rows[d].until]
        BY <3>2 DEF HistoryOf
      <4> QED
        BY <3>1, <4>1
    <3> QED
      BY <3>2 DEF Dating!Recorded
  <2>4. CASE new = active[r][c]
    BY <1>3, <2>1, <2>4
  <2>5. CASE new # active[r][c] /\ new = Excluded
    BY <1>3, <2>1, <2>2, <2>3, <2>5 DEF Dating!Revised
  <2>6. CASE new # active[r][c] /\ new # Excluded
    <3>1. HistoryOf(memberships'[u][c]) \in
            {Dating!Closed(HistoryOf(rows), date),
             Dating!Closed(HistoryOf(rows), date)
               \cup {[value |-> new, from |-> date, until |-> 0]}}
      BY <1>3, <2>1, <2>2, <2>6, InsertedHistory DEF Values
    <3> QED
      BY <2>1, <2>3, <2>6, <3>1 DEF Dating!Revised
  <2> QED
    BY <2>4, <2>5, <2>6
<1> QED
  BY <1>1, <1>2, <1>3, RowsKept

\* The memberships of each company in each universe are an effective-dated history,
\* whatever runs of the three universes do, as long as those of one do not overlap.
THEOREM MembershipsImplementDating == ~Overlap /\ Spec => ImplementsDating
<1> SUFFICES ASSUME ~Overlap PROVE Spec => ImplementsDating
  OBVIOUS
<1>1. Init => Dating!HistoryInit
  <2>1. Init => \A u \in Universes, c \in Companies : HistoryOf(memberships[u][c]) = {}
    BY DEF Init, HistoryOf
  <2> QED
    BY <2>1, HistoryIs DEF Dating!HistoryInit
<1>2. AloneInv /\ AloneInv' /\ [Next]_vars => [Dating!HistoryNext]_History
  <2> SUFFICES ASSUME AloneInv, AloneInv', [Next]_vars PROVE Dating!HistoryNext
    OBVIOUS
  <2>1. ASSUME NEW s \in Universes \X Companies
        PROVE  /\ HistoryOf(memberships'[s[1]][s[2]]) \in SUBSET Dating!RowOf
               /\ \/ HistoryOf(memberships'[s[1]][s[2]]) = HistoryOf(memberships[s[1]][s[2]])
                  \/ Dating!Revised(HistoryOf(memberships[s[1]][s[2]]),
                                    HistoryOf(memberships'[s[1]][s[2]]))
    <3>1. s[1] \in Universes /\ s[2] \in Companies
      OBVIOUS
    <3>2. memberships'[s[1]][s[2]] \in Rows
      BY <3>1 DEF AloneInv, UniverseInv, TypeOK, Rows
    <3>3. HistoryOf(memberships'[s[1]][s[2]]) \subseteq AbstractRow
      BY <3>2, HistoryTyped
    <3>4. AbstractRow = Dating!RowOf
      BY DEF AbstractRow, Values, Dating!RowOf
    <3> QED
      BY <3>1, <3>3, <3>4, RowsRevised
  <2>2. History' \in [Universes \X Companies -> SUBSET Dating!RowOf]
    BY <2>1, HistoryIs
  <2>3. \A s \in Universes \X Companies :
          History'[s] = History[s] \/ Dating!Revised(History[s], History'[s])
    BY <2>1, HistoryIs
  <2> QED
    BY <2>2, <2>3 DEF Dating!HistoryNext
<1>3. Spec => []AloneInv
  BY AloneInvariant
<1> QED
  BY <1>1, <1>2, <1>3, PTL DEF Spec, ImplementsDating, Dating!HistorySpec
================================================================================
