------------------------------ MODULE SecArchives ------------------------------
(***************************************************************************)
(* The two assets that scan an SEC bulk archive: company_catalog, which    *)
(* writes companies and their SIC classification (CompanyCatalogService,   *)
(* CompanyCatalogRepository), and companyfacts_data_profiles, which writes *)
(* one profile per target company (CompanyDataProfileRepository), a company *)
(* with a security on a configured exchange and an accepted entity type.   *)
(* Both decide from the latest succeeded run and the file on disk whether  *)
(* there is anything to do, download with SecClient, write in batches,     *)
(* record the archive's hash and validator and delete the file.            *)
(*                                                                         *)
(* An archive is the number of its content, which stands for its SHA-256;  *)
(* etag and last_modified are one number.  0 is NULL, no file and no run.  *)
(* Runs of one asset do not overlap; the two assets run concurrently.      *)
(***************************************************************************)
EXTENDS Naturals, FiniteSets

CONSTANTS
    Assets,         \* the assets that run: "catalog", "profiles"
    Companies,
    Codes,          \* SIC codes
    Exchanges,      \* exchanges SEC reports
    Listing,        \* Listing[v][c]: SIC code, "blank" or "absent"
    Venues,         \* Venues[v][c]: exchanges of the securities of c
    Operating,      \* Operating[v]: companies with entity type "operating" or none
    CandidateConfig,\* lists of exchanges in the universe configuration, by key
    RetainArchives, \* "yes", "no" or "undeclared"
    BatchSize,      \* companies per batch
    MaxArchive,     \* bound: contents of an archive
    MaxTag,         \* bound: MaxTag[a] validators of the archive of a
    MaxDate,        \* bound: dates; nothing is published on the last one
    MaxFaults       \* bound: failed statements and downloads, and crashes

Archives == 1 .. MaxArchive
Dates == 1 .. MaxDate

ASSUME SecArchivesAssumption ==
    /\ Assets \subseteq {"catalog", "profiles"}
    /\ IsFiniteSet(Companies)
    /\ Listing \in [Archives -> [Companies -> Codes \cup {"blank", "absent"}]]
    /\ {"blank", "absent"} \cap Codes = {}
    /\ Venues \in [Archives -> [Companies -> SUBSET Exchanges]]
    /\ Operating \in [Archives -> SUBSET Companies]
    /\ \A key \in DOMAIN CandidateConfig : CandidateConfig[key] \subseteq Exchanges
    /\ RetainArchives \in {"yes", "no", "undeclared"}
    /\ BatchSize \in Nat \ {0}
    /\ MaxArchive \in Nat \ {0}
    /\ MaxTag \in [Assets -> Nat \ {0}]
    /\ MaxDate \in Nat \ {0}
    /\ MaxFaults \in Nat

Answer == [hash: 0 .. MaxArchive, etag: Nat]
NoAnswer == [hash |-> 0, etag |-> 0]

\* A run of the profiles that has processed an archive.
ProfileRun == [archive: Archives, targets: SUBSET Companies]

\* effective_to = 0: the active classification.
Classification == [code: Codes, effective_from: Dates, effective_to: {0} \cup Dates]

VARIABLES
    \* the server and the calendar
    served,           \* served[a]: the archive and its validator
    today,
    \* the disk and the database
    file,             \* file[a]: content of the downloaded file
    recorded,         \* recorded[a]: hash and etag of the latest succeeded run
    stored,           \* stored[a][c]: archive the row of c was last written from
    securities,       \* securities[c]: exchanges of the securities of c
    classifications,  \* classifications[c]: sec_sic rows of c
    profile_runs,     \* runs of the profiles marked succeeded (history)
    \* the runs
    phase,
    run_status,       \* status of the latest ingestion_runs row
    previous,         \* previous[a]: hash and etag the run has found
    targets,          \* targets[a]: companies to profile
    result,           \* result[a]: archive and validator the run has downloaded
    observed_at,      \* observed_at[a]: date of the download
    todo,             \* todo[a]: companies of the batches to come
    faults

environment == <<served, today>>
rows_written == <<stored, securities, classifications>>
database == <<recorded, rows_written, profile_runs>>
run == <<previous, targets, result, observed_at>>
vars == <<environment, file, database, phase, run_status, run, todo, faults>>

TypeOK ==
    /\ served \in [Assets -> Answer]
    /\ today \in Dates
    /\ file \in [Assets -> 0 .. MaxArchive]
    /\ recorded \in [Assets -> Answer]
    /\ stored \in [Assets -> [Companies -> 0 .. MaxArchive]]
    /\ securities \in [Companies -> SUBSET Exchanges]
    /\ classifications \in [Companies -> SUBSET Classification]
    /\ profile_runs \in SUBSET ProfileRun
    /\ phase \in [Assets -> {"idle", "check", "write", "delete"}]
    /\ run_status \in [Assets -> {"none", "running", "succeeded", "failed"}]
    /\ previous \in [Assets -> Answer]
    /\ targets \in [Assets -> SUBSET Companies]
    /\ result \in [Assets -> Answer]
    /\ observed_at \in [Assets -> 0 .. MaxDate]
    /\ todo \in [Assets -> SUBSET Companies]
    /\ \A a \in Assets :
         /\ todo[a] # {} => phase[a] = "write"
         /\ phase[a] = "write" => result[a].hash \in Archives \ {previous[a].hash}
    /\ faults \in 0 .. MaxFaults

Init ==
    /\ served = [a \in Assets |-> [hash |-> 1, etag |-> 1]]
    /\ today = 1
    /\ file = [a \in Assets |-> 0]
    /\ recorded = [a \in Assets |-> NoAnswer]
    /\ stored = [a \in Assets |-> [c \in Companies |-> 0]]
    /\ securities = [c \in Companies |-> {}]
    /\ classifications = [c \in Companies |-> {}]
    /\ profile_runs = {}
    /\ phase = [a \in Assets |-> "idle"]
    /\ run_status = [a \in Assets |-> "none"]
    /\ previous = [a \in Assets |-> NoAnswer]
    /\ targets = [a \in Assets |-> {}]
    /\ result = [a \in Assets |-> NoAnswer]
    /\ observed_at = [a \in Assets |-> 0]
    /\ todo = [a \in Assets |-> {}]
    /\ faults = 0
--------------------------------------------------------------------------------
(***************************************************************************)
(* The server and the calendar.                                            *)
(***************************************************************************)

\* SEC publishes an archive, with new content or the same as before.
Publish(a) ==
    /\ today < MaxDate
    /\ served[a].etag < MaxTag[a]
    /\ \E new \in {served[a].hash, served[a].hash + 1} \cap Archives :
         served' = [served EXCEPT ![a] = [hash |-> new, etag |-> @.etag + 1]]
    /\ UNCHANGED <<today, file, database, phase, run_status, run, todo, faults>>

NextDay ==
    /\ today < MaxDate
    /\ today' = today + 1
    /\ UNCHANGED <<served, file, database, phase, run_status, run, todo, faults>>
--------------------------------------------------------------------------------
(***************************************************************************)
(* upsert_sec_sic_classification.                                          *)
(***************************************************************************)

Active(rows) == {row \in rows : row.effective_to = 0}

\* Mutant: the code of the active row is overwritten.
Classified_InPlace(rows, code, date) ==
    {IF row.effective_to = 0 THEN [row EXCEPT !.code = code] ELSE row : row \in rows}
      \cup IF Active(rows) = {}
           THEN {[code |-> code, effective_from |-> date, effective_to |-> 0]} ELSE {}

\* Mutant: the active row is not closed.
Classified_NotClosed(rows, code, date) ==
    rows \cup {[code |-> code, effective_from |-> date, effective_to |-> 0]}

\* The rows after code was observed on date.
Classified(rows, code, date) ==
    IF \E row \in Active(rows) : row.code = code THEN rows
    ELSE {IF row.effective_to = 0 THEN [row EXCEPT !.effective_to = date] ELSE row :
            row \in rows}
           \cup {[code |-> code, effective_from |-> date, effective_to |-> 0]}

\* uq_company_classifications: a code that was given up is reported again on
\* the date it was first observed.
Duplicate(rows, code, date) ==
    /\ \A row \in Active(rows) : row.code # code
    /\ \E row \in rows : row.code = code /\ row.effective_from = date
--------------------------------------------------------------------------------
(***************************************************************************)
(* A run.                                                                  *)
(***************************************************************************)

\* The asset asks for a key the committed configuration does not have.
ProfileExchanges ==
    IF "exchanges" \in DOMAIN CandidateConfig THEN CandidateConfig["exchanges"] ELSE {}

\* list_companyfacts_profile_targets: the entity type is that of the archive the
\* company was last written from.
Eligible(exchanges) ==
    {c \in Companies :
       /\ "catalog" \in Assets
       /\ stored["catalog"][c] # 0
       /\ c \in Operating[stored["catalog"][c]]
       /\ securities[c] \cap exchanges # {}}

\* The profile targets, the run row and the latest succeeded run.
BeginRun(a) ==
    /\ phase[a] = "idle"
    /\ phase' = [phase EXCEPT ![a] = "check"]
    /\ run_status' = [run_status EXCEPT ![a] = "running"]
    /\ previous' = [previous EXCEPT ![a] = recorded[a]]
    /\ targets' = [targets EXCEPT ![a] =
         IF a = "profiles" THEN Eligible(ProfileExchanges) ELSE {}]
    /\ UNCHANGED <<environment, file, database, result, observed_at, todo, faults>>

Close(a, status) ==
    /\ phase' = [phase EXCEPT ![a] = "idle"]
    /\ run_status' = [run_status EXCEPT ![a] = status]
    /\ todo' = [todo EXCEPT ![a] = {}]
    /\ previous' = [previous EXCEPT ![a] = NoAnswer]
    /\ targets' = [targets EXCEPT ![a] = {}]
    /\ result' = [result EXCEPT ![a] = NoAnswer]
    /\ observed_at' = [observed_at EXCEPT ![a] = 0]
    /\ UNCHANGED <<environment, rows_written, profile_runs>>

CachedArchive(a) == previous[a].hash # 0 /\ file[a] = previous[a].hash

\* find_cached_archive: the server is not asked.
LocalHit(a) ==
    /\ phase[a] = "check"
    /\ CachedArchive(a)
    /\ recorded' = [recorded EXCEPT ![a] = previous[a]]
    /\ Close(a, "succeeded")
    /\ UNCHANGED <<file, faults>>

\* HTTP 304 to a conditional request.
NotModified(a) ==
    /\ phase[a] = "check"
    /\ ~CachedArchive(a)
    /\ previous[a].etag = served[a].etag
    /\ recorded' = [recorded EXCEPT ![a] = previous[a]]
    /\ Close(a, "succeeded")
    /\ UNCHANGED <<file, faults>>

Downloads(a) ==
    /\ phase[a] = "check"
    /\ ~CachedArchive(a)
    /\ previous[a].etag # served[a].etag
    /\ file' = [file EXCEPT ![a] = served[a].hash]

Changed(a) == served[a].hash # previous[a].hash

\* The same SHA-256 under a new validator: nothing is parsed, the file stays.
Identical(a) ==
    /\ Downloads(a)
    /\ ~Changed(a)
    /\ recorded' = [recorded EXCEPT ![a] = served[a]]
    /\ Close(a, "succeeded")
    /\ UNCHANGED faults

Download(a) ==
    /\ Downloads(a)
    /\ Changed(a)
    /\ result' = [result EXCEPT ![a] = served[a]]
    /\ observed_at' = [observed_at EXCEPT ![a] = today]
    /\ todo' = [todo EXCEPT ![a] =
         IF a = "profiles" THEN targets[a]
         ELSE {c \in Companies : Listing[served[a].hash][c] # "absent"}]
    /\ phase' = [phase EXCEPT ![a] = "write"]
    /\ UNCHANGED <<environment, database, run_status, previous, targets, faults>>

Code(a, c) == Listing[result[a].hash][c]

Batch(a, b) ==
    /\ phase[a] = "write"
    /\ b # {}
    /\ Cardinality(b) = BatchSize \/ (b = todo[a] /\ Cardinality(b) < BatchSize)

Classifies(a, c) == a = "catalog" /\ Code(a, c) \in Codes

RefusedBatch(a, b) ==
    \E c \in b : Classifies(a, c) /\ Duplicate(classifications[c], Code(a, c), observed_at[a])

\* _flush_batch and upsert_profiles: one transaction.
WriteBatch(a) ==
    /\ \E b \in SUBSET todo[a] :
         /\ Batch(a, b)
         /\ ~RefusedBatch(a, b)
         /\ stored' = [stored EXCEPT ![a] =
              [c \in Companies |-> IF c \in b THEN result[a].hash ELSE @[c]]]
         /\ securities' = [c \in Companies |->
              IF a = "catalog" /\ c \in b THEN securities[c] \cup Venues[result[a].hash][c]
              ELSE securities[c]]
         /\ classifications' = [c \in Companies |->
              IF c \in b /\ Classifies(a, c)
              THEN Classified(classifications[c], Code(a, c), observed_at[a])
              ELSE classifications[c]]
         /\ todo' = [todo EXCEPT ![a] = @ \ b]
    /\ UNCHANGED <<environment, file, recorded, profile_runs, phase, run_status, run, faults>>

\* Mutant: the batch is skipped, as the log message says.
BatchRefused_Skipped(a) ==
    /\ \E b \in SUBSET todo[a] :
         /\ Batch(a, b)
         /\ RefusedBatch(a, b)
         /\ todo' = [todo EXCEPT ![a] = @ \ b]
    /\ UNCHANGED <<environment, file, database, phase, run_status, run, faults>>

\* The exception leaves the service: the run fails.
BatchRefused(a) ==
    /\ \E b \in SUBSET todo[a] : Batch(a, b) /\ RefusedBatch(a, b)
    /\ Close(a, "failed")
    /\ UNCHANGED <<file, recorded, faults>>

Succeed(a) ==
    /\ phase[a] = "write"
    /\ todo[a] = {}
    /\ recorded' = [recorded EXCEPT ![a] = result[a]]
    /\ run_status' = [run_status EXCEPT ![a] = "succeeded"]
    /\ phase' = [phase EXCEPT ![a] = "delete"]
    /\ profile_runs' = profile_runs \cup
         (IF a = "profiles" THEN {[archive |-> result[a].hash, targets |-> targets[a]]} ELSE {})
    /\ UNCHANGED <<environment, file, rows_written, run, todo, faults>>

DeleteArchive(a) ==
    /\ phase[a] = "delete"
    /\ RetainArchives # "undeclared"
    /\ file' = [file EXCEPT ![a] = IF RetainArchives = "no" THEN 0 ELSE @]
    /\ Close(a, run_status[a])
    /\ UNCHANGED <<recorded, faults>>

\* Reading the setting raises, if the resource does not declare it, or unlink
\* does: the succeeded run is marked failed and the one before is the latest
\* succeeded one again.
DeleteFails(a) ==
    /\ phase[a] = "delete"
    /\ RetainArchives = "undeclared" \/ (RetainArchives = "no" /\ faults < MaxFaults)
    /\ faults' = IF RetainArchives = "undeclared" THEN faults ELSE faults + 1
    /\ recorded' = [recorded EXCEPT ![a] = previous[a]]
    /\ Close(a, "failed")
    /\ UNCHANGED file

\* Mutant: the validator of the download is recorded.
RunFails_TagRecorded(a) ==
    /\ phase[a] \in {"check", "write"}
    /\ faults < MaxFaults
    /\ faults' = faults + 1
    /\ recorded' = [recorded EXCEPT ![a].etag = result[a].etag]
    /\ Close(a, "failed")
    /\ UNCHANGED file

\* A statement fails, or every attempt of the download: batches that were
\* committed stay, and so does the file.
RunFails(a) ==
    /\ phase[a] \in {"check", "write"}
    /\ faults < MaxFaults
    /\ faults' = faults + 1
    /\ Close(a, "failed")
    /\ UNCHANGED <<file, recorded>>

Crash(a) ==
    /\ phase[a] # "idle"
    /\ faults < MaxFaults
    /\ faults' = faults + 1
    /\ Close(a, run_status[a])
    /\ UNCHANGED <<file, recorded>>

RunStep(a) ==
    \/ LocalHit(a)
    \/ NotModified(a)
    \/ Identical(a)
    \/ Download(a)
    \/ WriteBatch(a)
    \/ BatchRefused(a)
    \/ Succeed(a)
    \/ DeleteArchive(a)

Next ==
    \/ NextDay
    \/ \E a \in Assets :
         Publish(a) \/ BeginRun(a) \/ RunStep(a) \/ DeleteFails(a) \/ RunFails(a) \/ Crash(a)

Spec == Init /\ [][Next]_vars

\* Days pass, the assets keep being materialised and a run that was started
\* goes on; publications and faults are never required.
FairSpec ==
    /\ Spec
    /\ WF_vars(NextDay)
    /\ \A a \in Assets : WF_vars(BeginRun(a)) /\ WF_vars(RunStep(a))
--------------------------------------------------------------------------------
(***************************************************************************)
(* Properties.                                                             *)
(***************************************************************************)

Written(a, cs, h) == \A c \in cs : stored[a][c] >= h

\* The companies to be taken from archive h are: those it lists, or the targets of
\* a run that profiled it.
Covered(a, h) ==
    IF a = "profiles"
    THEN \E r \in profile_runs : r.archive = h /\ Written(a, r.targets, h)
    ELSE Written(a, {c \in Companies : Listing[h][c] # "absent"}, h)

\* What the latest succeeded run says it has processed is stored, for every
\* company that archive lists or that the run was to profile: later runs skip the
\* archive on the strength of it, whatever failed in between.
StoredCoversRecorded ==
    \A a \in Assets : recorded[a].hash # 0 => Covered(a, recorded[a].hash)

\* An archive whose companies are all written is on record when the run is over
\* and nothing failed ("Mark run succeeded with archive metadata").
ProcessedIsRecorded ==
    \A a \in Assets, h \in Archives :
      /\ phase[a] = "idle"
      /\ faults = 0
      /\ Covered(a, h)
      /\ \E c \in Companies : stored[a][c] = h
      => recorded[a].hash >= h

\* The validator sent with a conditional request is one of the recorded archive:
\* a 304 never stands for an archive that was not processed.
ValidatorMatchesArchive ==
    \A a \in Assets :
      recorded[a].etag = served[a].etag => recorded[a].hash = served[a].hash

\* The active classification of a company has the code it was last written
\* with, whatever batches failed or were repeated since.
ClassificationsFollowArchive ==
    \A c \in Companies, a \in Assets \cap {"catalog"} :
      stored[a][c] # 0 /\ Listing[stored[a][c]][c] \in Codes =>
        {row.code : row \in Active(classifications[c])} = {Listing[stored[a][c]][c]}

\* The classifications implement effective dating: they are closed once and
\* opened at dates that do not go back ("Effective-dated so changes are
\* preserved over time").
History ==
    [c \in Companies |->
       {[value |-> row.code, from |-> row.effective_from, until |-> row.effective_to] :
          row \in classifications[c]}]

Dating == INSTANCE EffectiveDating
    WITH Subjects <- Companies, Values <- Codes, history <- History

ImplementsDating == Dating!HistorySpec

KeptArchive(a) == file[a] # 0 /\ file[a] = recorded[a].hash

\* The newest archive is eventually stored, whatever finite number of downloads,
\* statements and processes fail; unless a file was kept that equals the
\* recorded archive, upon which no run asks the server any more.  A company that
\* becomes eligible after that waits for the next archive.
NewArchiveArrives ==
    \A a \in Assets :
      <>[](KeptArchive(a) \/ (recorded[a].hash = served[a].hash /\ Covered(a, served[a].hash)))
================================================================================
