------------------------------- MODULE XbrlFacts -------------------------------
(***************************************************************************)
(* Ingestion of XBRL facts (the asset xbrl_facts,                          *)
(* XbrlFactsIngestionService and XbrlFactsRepository).                     *)
(*                                                                         *)
(* A run takes the current CompanyFacts archive and handles the document   *)
(* of every training member in a transaction of its own: register the raw  *)
(* version, read the status of its derivation, claim the derivation,       *)
(* flatten, insert the facts, record the outcome, commit.  Statements of   *)
(* two runs interleave; what a transaction has written is invisible to     *)
(* others until it commits, and a statement that meets another             *)
(* transaction's uncommitted row waits for that transaction to end.        *)
(*                                                                         *)
(* A document is its content hash, a number that grows with every filing;  *)
(* document p reports the filings 1 .. p.  The derivation version v stands *)
(* for the hash of the concept registry, which lists the tags 1 .. v.      *)
(***************************************************************************)
EXTENDS Integers, FiniteSets

CONSTANTS
    Companies,      \* active members of the training universe
    Runs,           \* processes that materialise the asset
    MaxPayload,     \* bound: versions of one company's document
    MaxVersion,     \* bound: derivation versions
    MaxFaults       \* bound: errors and crashes

Payloads == 1 .. MaxPayload
Versions == 1 .. MaxVersion

\* A fact is known by a hash of its filing and its concept (fact_id).
Facts == Payloads \X Versions

ASSUME XbrlAssumption ==
    /\ IsFiniteSet(Companies)
    /\ MaxPayload \in Nat \ {0}
    /\ MaxVersion \in Nat \ {0}
    /\ MaxFaults \in Nat

None == "none"

VARIABLES
    \* the world
    archive,        \* archive[c]: document of c in the SEC archive, 0 if none
    registry,       \* derivation version of the deployed flattener
    \* the database, committed
    raw,            \* raw[c]: registered documents (raw_source_versions)
    derivation,     \* derivation[c][p][v]: status of raw_version_derivations
    lineage,        \* lineage[c][f]: raw_version_id of the stored fact, 0 if none
    \* the runs
    phase,          \* phase[r]: where materialize is
    run_status,     \* run_status[r]: status of the latest ingestion_runs row
    snapshot,       \* snapshot[r]: the archive r works with
    version,        \* version[r]: derivation version of r
    todo,           \* todo[r]: found members not handled yet
    member,         \* member[r]: set with the member in progress
    registered,     \* registered[r]: r's transaction inserted the raw version
    status,         \* status[r]: derivation status r has read
    results,        \* results[r][c]: result of member c
    \* the environment
    faults

world == <<archive, registry>>
database == <<raw, derivation, lineage>>
transaction == <<member, registered, status>>
vars == <<world, database, phase, run_status, snapshot, version, todo,
          transaction, results, faults>>

\* What the flattener of version v finds in document p.
Content(p, v) == {f \in Facts : f[1] <= p /\ f[2] <= v}

InTransaction == {"register", "status", "claim", "write"}
Results == {None, "inserted", "already_succeeded", "failed", "not_found"}

TypeOK ==
    /\ archive \in [Companies -> 0 .. MaxPayload]
    /\ registry \in Versions
    /\ raw \in [Companies -> SUBSET Payloads]
    /\ derivation \in [Companies -> [Payloads -> [Versions ->
                         {None, "running", "succeeded", "failed"}]]]
    /\ lineage \in [Companies -> [Facts -> 0 .. MaxPayload]]
    /\ phase \in [Runs -> {"idle", "next"} \cup InTransaction]
    /\ run_status \in [Runs -> {None, "running", "succeeded", "failed"}]
    /\ snapshot \in [Runs -> [Companies -> 0 .. MaxPayload]]
    /\ version \in [Runs -> Versions]
    /\ todo \in [Runs -> SUBSET Companies]
    /\ member \in [Runs -> SUBSET Companies]
    /\ \A r \in Runs : Cardinality(member[r]) = IF phase[r] \in InTransaction THEN 1 ELSE 0
    /\ registered \in [Runs -> BOOLEAN]
    /\ status \in [Runs -> {None, "running", "succeeded", "failed"}]
    /\ results \in [Runs -> [Companies -> Results]]
    /\ faults \in 0 .. MaxFaults

Init ==
    /\ archive \in [Companies -> 0 .. MaxPayload]
    /\ registry = 1
    /\ raw = [c \in Companies |-> {}]
    /\ derivation = [c \in Companies |-> [p \in Payloads |-> [v \in Versions |-> None]]]
    /\ lineage = [c \in Companies |-> [f \in Facts |-> 0]]
    /\ phase = [r \in Runs |-> "idle"]
    /\ run_status = [r \in Runs |-> None]
    /\ snapshot = [r \in Runs |-> [c \in Companies |-> 0]]
    /\ version = [r \in Runs |-> 1]
    /\ todo = [r \in Runs |-> {}]
    /\ member = [r \in Runs |-> {}]
    /\ registered = [r \in Runs |-> FALSE]
    /\ status = [r \in Runs |-> None]
    /\ results = [r \in Runs |-> [c \in Companies |-> None]]
    /\ faults = 0
--------------------------------------------------------------------------------
(***************************************************************************)
(* The world (external).                                                   *)
(***************************************************************************)

\* SEC publishes an archive with newer documents.
FilingsArrive ==
    /\ \E a \in [Companies -> 0 .. MaxPayload] :
         /\ \A c \in Companies : archive[c] <= a[c]
         /\ archive' = a
    /\ UNCHANGED <<registry, database, phase, run_status, snapshot, version,
                   todo, transaction, results, faults>>

\* A deployment adds a concept to canonical_metrics_v1.yaml.
RegistryGrows ==
    /\ registry < MaxVersion
    /\ registry' = registry + 1
    /\ UNCHANGED <<archive, database, phase, run_status, snapshot, version,
                   todo, transaction, results, faults>>
--------------------------------------------------------------------------------
(***************************************************************************)
(* A run.                                                                  *)
(***************************************************************************)

Missing(a) == {c \in Companies : a[c] = 0}

\* missing_threshold and malformed_threshold, 0.5 each.
OverHalf(S) == 2 * Cardinality(S) > Cardinality(Companies)

\* The run row and the index of archive a; too many missing members end the run.
BeginRunWith(r, a) ==
    /\ phase[r] = "idle"
    /\ snapshot' = [snapshot EXCEPT ![r] = a]
    /\ version' = [version EXCEPT ![r] = registry]
    /\ IF OverHalf(Missing(a))
       THEN /\ run_status' = [run_status EXCEPT ![r] = "failed"]
            /\ results' = [results EXCEPT ![r] = [c \in Companies |-> None]]
            /\ UNCHANGED <<phase, todo>>
       ELSE /\ run_status' = [run_status EXCEPT ![r] = "running"]
            /\ results' = [results EXCEPT ![r] = [c \in Companies |->
                  IF a[c] = 0 THEN "not_found" ELSE None]]
            /\ phase' = [phase EXCEPT ![r] = "next"]
            /\ todo' = [todo EXCEPT ![r] = Companies \ Missing(a)]
    /\ UNCHANGED <<world, database, transaction, faults>>

\* The archive cache may hand out an archive that is not the newest.
BeginRun(r) ==
    \E a \in [Companies -> 0 .. MaxPayload] :
      /\ \A c \in Companies : a[c] <= archive[c]
      /\ BeginRunWith(r, a)

TakeMember(r) ==
    /\ phase[r] = "next"
    /\ \E c \in todo[r] :
         /\ member' = [member EXCEPT ![r] = {c}]
         /\ todo' = [todo EXCEPT ![r] = @ \ {c}]
    /\ phase' = [phase EXCEPT ![r] = "register"]
    /\ UNCHANGED <<world, database, run_status, snapshot, version, registered,
                   status, results, faults>>

\* The transaction of member c ends with a result and the next one is taken.
EndMember(r, c, result) ==
    /\ phase' = [phase EXCEPT ![r] = "next"]
    /\ member' = [member EXCEPT ![r] = {}]
    /\ registered' = [registered EXCEPT ![r] = FALSE]
    /\ status' = [status EXCEPT ![r] = None]
    /\ results' = [results EXCEPT ![r][c] = result]
    /\ UNCHANGED <<world, run_status, snapshot, version, todo>>

\* read_member raises: the member is too large or unreadable.
ReadFails(r) ==
    /\ phase[r] = "register"
    /\ faults < MaxFaults
    /\ faults' = faults + 1
    /\ \E c \in member[r] : EndMember(r, c, "failed")
    /\ UNCHANGED database

\* Another transaction has inserted the same row and has not ended.
RegistrationPending(r, c) ==
    \E q \in Runs \ {r} :
      registered[q] /\ c \in member[q] /\ snapshot[q][c] = snapshot[r][c]

\* INSERT ... ON CONFLICT DO NOTHING into raw_source_versions.
Register(r) ==
    /\ phase[r] = "register"
    /\ \A c \in member[r] :
         /\ ~RegistrationPending(r, c)
         /\ registered' = [registered EXCEPT ![r] = snapshot[r][c] \notin raw[c]]
    /\ phase' = [phase EXCEPT ![r] = "status"]
    /\ UNCHANGED <<world, database, run_status, snapshot, version, todo, member,
                   status, results, faults>>

ReadStatus(r) ==
    /\ phase[r] = "status"
    /\ \A c \in member[r] :
         status' = [status EXCEPT ![r] = derivation[c][snapshot[r][c]][version[r]]]
    /\ phase' = [phase EXCEPT ![r] = "claim"]
    /\ UNCHANGED <<world, database, run_status, snapshot, version, todo, member,
                   registered, results, faults>>

\* Commit: the transaction's registration becomes visible.
CommitRegistration(r, c) ==
    raw' = [raw EXCEPT ![c] = @ \cup {snapshot[r][c]}]

\* Mutant: a failed derivation is not claimed again.
Refused_Failed(s) == s # None

\* Mutant: only the running derivations are refused.
Refused_Running(s) == s = "running"

\* claim_derivation returns False.
Refused(s) == s \in {"succeeded", "running"}

SkipMember(r) ==
    /\ phase[r] = "claim"
    /\ Refused(status[r])
    /\ \E c \in member[r] :
         /\ CommitRegistration(r, c)
         /\ EndMember(r, c, "already_succeeded")
    /\ UNCHANGED <<derivation, lineage, faults>>

\* Another transaction has written the derivation's row and has not ended.
ClaimPending(r, c) ==
    \E q \in Runs \ {r} :
      /\ phase[q] = "write"
      /\ c \in member[q]
      /\ snapshot[q][c] = snapshot[r][c]
      /\ version[q] = version[r]

\* The UPDATE of a failed row, or the INSERT ... ON CONFLICT DO NOTHING of a new
\* one: both take the row and neither looks at the status it now has.
Claim(r) ==
    /\ phase[r] = "claim"
    /\ ~Refused(status[r])
    /\ \A c \in member[r] : ~ClaimPending(r, c)
    /\ phase' = [phase EXCEPT ![r] = "write"]
    /\ UNCHANGED <<world, database, run_status, snapshot, version, todo,
                   transaction, results, faults>>

\* Mutant: a fact found again is attributed to the newer document.
Inserted_Upsert(rows, p, v) ==
    [f \in Facts |-> IF f \in Content(p, v) THEN p ELSE rows[f]]

\* Mutant: only the facts of the newest filing are inserted.
Inserted_LatestOnly(rows, p, v) ==
    [f \in Facts |-> IF f \in Content(p, v) /\ f[1] = p /\ rows[f] = 0 THEN p ELSE rows[f]]

\* ON CONFLICT DO NOTHING on fact_id.
Inserted(rows, p, v) ==
    [f \in Facts |-> IF f \in Content(p, v) /\ rows[f] = 0 THEN p ELSE rows[f]]

\* flatten raises: the failure is recorded and committed.
FlattenFails(r) ==
    /\ phase[r] = "write"
    /\ faults < MaxFaults
    /\ faults' = faults + 1
    /\ \E c \in member[r] :
         /\ CommitRegistration(r, c)
         /\ derivation' = [derivation EXCEPT ![c][snapshot[r][c]][version[r]] = "failed"]
         /\ EndMember(r, c, "failed")
    /\ UNCHANGED lineage

WriteFacts(r) ==
    /\ phase[r] = "write"
    /\ \E c \in member[r] :
         LET p == snapshot[r][c]
         IN  /\ CommitRegistration(r, c)
             /\ lineage' = [lineage EXCEPT ![c] = Inserted(@, p, version[r])]
             /\ derivation' = [derivation EXCEPT ![c][p][version[r]] = "succeeded"]
             /\ EndMember(r, c, "inserted")
    /\ UNCHANGED faults

\* Mutant: facts are committed in chunks, before the outcome is known.
WriteFails_Chunked(r) ==
    /\ phase[r] = "write"
    /\ faults < MaxFaults
    /\ faults' = faults + 1
    /\ \E c \in member[r] :
         /\ CommitRegistration(r, c)
         /\ lineage' = [lineage EXCEPT ![c] = Inserted(@, snapshot[r][c], version[r])]
         /\ derivation' = [derivation EXCEPT ![c][snapshot[r][c]][version[r]] = "failed"]
         /\ EndMember(r, c, "failed")

\* A database error while facts are inserted or the commit: recording the
\* failure in the broken transaction fails too and everything is rolled back.
WriteFails(r) ==
    /\ phase[r] = "write"
    /\ faults < MaxFaults
    /\ faults' = faults + 1
    /\ \E c \in member[r] : EndMember(r, c, "failed")
    /\ UNCHANGED database

\* The run is over; its session is closed, which rolls back what it has not
\* committed.
Leave(r) ==
    /\ phase' = [phase EXCEPT ![r] = "idle"]
    /\ member' = [member EXCEPT ![r] = {}]
    /\ registered' = [registered EXCEPT ![r] = FALSE]
    /\ status' = [status EXCEPT ![r] = None]
    /\ todo' = [todo EXCEPT ![r] = {}]
    /\ UNCHANGED <<world, database, snapshot, version, results>>

Failed(r) == {c \in Companies : results[r][c] = "failed"}

FinishRun(r) ==
    /\ phase[r] = "next"
    /\ todo[r] = {}
    /\ run_status' = [run_status EXCEPT ![r] =
                        IF OverHalf(Failed(r)) THEN "failed" ELSE "succeeded"]
    /\ Leave(r)
    /\ UNCHANGED faults

\* A database error outside the try block of _process_member: the exception
\* leaves materialize and the members not handled yet are not handled.
RunFails(r) ==
    /\ phase[r] \in {"register", "status", "claim"}
    /\ faults < MaxFaults
    /\ faults' = faults + 1
    /\ run_status' = [run_status EXCEPT ![r] = "failed"]
    /\ Leave(r)

\* The process dies and its transaction is rolled back.
Crash(r) ==
    /\ phase[r] # "idle"
    /\ faults < MaxFaults
    /\ faults' = faults + 1
    /\ UNCHANGED run_status
    /\ Leave(r)

RunStep(r) ==
    \/ TakeMember(r)
    \/ Register(r)
    \/ ReadStatus(r)
    \/ SkipMember(r)
    \/ Claim(r)
    \/ WriteFacts(r)
    \/ FinishRun(r)

Fault(r) ==
    \/ ReadFails(r)
    \/ FlattenFails(r)
    \/ WriteFails(r)
    \/ RunFails(r)
    \/ Crash(r)

Next ==
    \/ FilingsArrive
    \/ RegistryGrows
    \/ \E r \in Runs : BeginRun(r) \/ RunStep(r) \/ Fault(r)

Spec == Init /\ [][Next]_vars
--------------------------------------------------------------------------------
(***************************************************************************)
(* Properties.                                                             *)
(***************************************************************************)

Stored(c) == {f \in Facts : lineage[c][f] # 0}

\* A derivation marked succeeded has all its facts in the database: the
\* outcome and the facts are committed together.
SucceededIsComplete ==
    \A c \in Companies, p \in Payloads, v \in Versions :
      derivation[c][p][v] = "succeeded" => Content(p, v) \subseteq Stored(c)

\* A member is skipped as already done only when its facts are stored, also if
\* another run is working on the same document.
SkippedIsStored ==
    \A r \in Runs, c \in Companies :
      results[r][c] = "already_succeeded" =>
        Content(snapshot[r][c], version[r]) \subseteq Stored(c)

\* Every stored fact is attributed to a registered document that has it and was
\* derived successfully.
LineageIsDerived ==
    \A c \in Companies : \A f \in Stored(c) :
      /\ lineage[c][f] \in raw[c]
      /\ \E v \in Versions : /\ f \in Content(lineage[c][f], v)
                             /\ derivation[c][lineage[c][f]][v] = "succeeded"

\* A stored fact stays, attributed to the document it came from.
FactsAreFinal ==
    [][\A c \in Companies, f \in Facts :
         lineage[c][f] # 0 => lineage'[c][f] = lineage[c][f]]_vars

\* A derivation that succeeded is not run again ("Returns False if already
\* succeeded or running").
SucceededIsFinal ==
    [][\A c \in Companies, p \in Payloads, v \in Versions :
         derivation[c][p][v] = "succeeded" => derivation'[c][p][v] = "succeeded"]_vars

\* A run marked succeeded has a result for every member, failed ones in the
\* minority, and has stored the facts of the others.
SucceededRunIsComplete ==
    \A r \in Runs : run_status[r] = "succeeded" =>
      /\ ~OverHalf(Failed(r))
      /\ \A c \in Companies \ Failed(r) :
           IF snapshot[r][c] = 0 THEN results[r][c] = "not_found"
           ELSE Content(snapshot[r][c], version[r]) \subseteq Stored(c)

AllDerived ==
    \A c \in Companies :
      archive[c] # 0 => derivation[c][archive[c]][registry] = "succeeded"

EnoughFound ==
    \E S \in SUBSET Companies :
      ~OverHalf(Companies \ S) /\ \A c \in S : archive[c] # 0
================================================================================
