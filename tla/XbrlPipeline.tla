----------------------------- MODULE XbrlPipeline -----------------------------
(***************************************************************************)
(* The asset xbrl_facts as a whole: the archive cache that fetches the     *)
(* CompanyFacts archive (ArchiveCache) and the ingestion that reads the    *)
(* file it hands over (XbrlFacts).  What SEC has published reaches the     *)
(* database through both, each of which may be interrupted, retried or     *)
(* content with something old.                                             *)
(*                                                                         *)
(* documents[a] are the documents in archive a; XbrlFacts' variable        *)
(* archive is what the archive on the server contains.                     *)
(***************************************************************************)
EXTENDS XbrlFacts

CONSTANTS
    Documents,      \* Documents[a][c]: document of c in archive a, 0 if none
    Mode, Overlap, CheckAfter, MaxRetries, MaxArchive,   \* of ArchiveCache
    MaxFailures     \* bound: faults of the cache

ASSUME PipelineAssumption ==
    /\ Mode \in [Runs -> {"normal", "force", "cache_only"}]
    /\ Overlap \in BOOLEAN
    /\ CheckAfter \in Nat
    /\ MaxRetries \in Nat
    /\ MaxArchive \in Nat \ {0}
    /\ MaxFailures \in Nat
    /\ Documents \in [1 .. MaxArchive -> [Companies -> 0 .. MaxPayload]]
    /\ \A a, b \in 1 .. MaxArchive : a <= b =>
         \A c \in Companies : Documents[a][c] <= Documents[b][c]

VARIABLES
    served, manifest, manifest_tmp, age, archives, temp, attempt, etag, body, handle,
    received, returned, shared,                          \* of ArchiveCache
    fetch,          \* its phase
    failures        \* its faults

Cache == INSTANCE ArchiveCache WITH
           phase <- fetch, faults <- failures, MaxFaults <- MaxFailures

cache == <<served, manifest, manifest_tmp, age, archives, temp, attempt, etag, body, handle,
           received, returned, shared, fetch, failures>>

PipelineInit ==
    /\ Cache!Init
    /\ Init
    /\ archive = Documents[1]
--------------------------------------------------------------------------------
\* SEC publishes an archive with new documents.
PublishArchive ==
    /\ Cache!Publish
    /\ archive' = Documents[served']
    /\ UNCHANGED <<registry, database, phase, run_status, snapshot, version,
                   todo, transaction, results, faults>>

\* get_or_refresh, before the members are handled.
FetchStep(r) ==
    /\ phase[r] = "idle"
    /\ Cache!Begin(r) \/ Cache!RunStep(r)
    /\ UNCHANGED vars

FetchFails(r) ==
    /\ phase[r] = "idle"
    /\ Cache!ReceiveGarbage(r) \/ Cache!AttemptFails(r) \/ Cache!Crash(r)
    /\ UNCHANGED vars

\* The index of the file is read; the file is in use until the run is over.
Ingest(r) ==
    /\ fetch[r] = "ready"
    /\ BeginRunWith(r, Documents[returned[r]])
    /\ IF phase'[r] = "idle" THEN Cache!Release(r) ELSE UNCHANGED cache

\* Mutant: the file has one fixed name, and a download of the newest archive
\* replaces it while members are read.
IngestStep_ReadsAgain(r) ==
    \/ /\ RunStep(r) \/ Fault(r)
       /\ IF phase'[r] = "idle" THEN Cache!Release(r) ELSE UNCHANGED cache
    \/ /\ phase[r] = "next"
       /\ snapshot' = [snapshot EXCEPT ![r] = archive]
       /\ UNCHANGED <<world, database, phase, run_status, version, todo,
                      transaction, results, faults, cache>>

IngestStep(r) ==
    /\ RunStep(r) \/ Fault(r)
    /\ IF phase'[r] = "idle" THEN Cache!Release(r) ELSE UNCHANGED cache

PipelineNext ==
    \/ PublishArchive
    \/ Cache!TimePasses /\ UNCHANGED vars
    \/ RegistryGrows /\ UNCHANGED cache
    \/ \E r \in Runs :
         \/ FetchStep(r) \/ FetchFails(r)
         \/ Ingest(r) \/ IngestStep(r)

pipeline == <<vars, cache>>

PipelineSpec == PipelineInit /\ [][PipelineNext]_pipeline

\* Time passes, the asset keeps being materialised and a run that was started
\* goes on, as in ArchiveCache and XbrlFacts.
PipelineFairSpec ==
    /\ PipelineSpec
    /\ WF_pipeline(Cache!TimePasses /\ UNCHANGED vars)
    /\ \A r \in Runs :
         WF_pipeline(FetchStep(r) \/ Ingest(r) \/ (IngestStep(r) /\ UNCHANGED faults))
--------------------------------------------------------------------------------
(***************************************************************************)
(* Properties.                                                             *)
(***************************************************************************)

\* The asset is an ingestion as XbrlFacts describes it: a run works to its end
\* with one archive, one that SEC had published when it began to read.
ImplementsIngestion == Spec

\* Whatever SEC has published last is eventually derived with the deployed
\* registry, through 24 hours in which the cache does not ask, 304 answers,
\* failed downloads and failed or killed runs, unless the archive lacks more
\* than half of the members.
PublishedIsDerived == <>[](EnoughFound => AllDerived)
================================================================================
