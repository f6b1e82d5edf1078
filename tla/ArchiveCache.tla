----------------------------- MODULE ArchiveCache -----------------------------
(***************************************************************************)
(* The local cache of the CompanyFacts archive (SecBulkArchiveCache), from *)
(* which xbrl_facts reads: archives/<sha256>.zip, never deleted, and the   *)
(* manifest current.json, which names the current one and keeps its        *)
(* validators and the time of its download or confirmation.  It is written *)
(* to current.json.tmp, in one step, and renamed.                          *)
(*                                                                         *)
(* An archive is the number of its content, which stands for its SHA-256   *)
(* and its validators; SEC serves ever higher numbers.  A file is what its *)
(* parts hold, the last one being the end record that is_zipfile looks     *)
(* for.  A process that has opened a file keeps writing to that file when  *)
(* it is renamed or unlinked.  0 is NULL or nothing written.               *)
(***************************************************************************)
EXTENDS Naturals

CONSTANTS
    Runs,           \* processes that ask for the archive
    Mode,           \* Mode[r]: "normal", "force" or "cache_only"
    Overlap,        \* may two processes use the cache at the same time?
    CheckAfter,     \* age at which the server is asked again
    MaxRetries,
    MaxArchive,     \* bound: contents
    MaxFaults       \* bound: errors of the server, the network, processes

Archives == 1 .. MaxArchive
Parts == {1, 2}
Last == 2

\* An answer with status 200 that is not an archive.
Garbage == MaxArchive + 1

NoFile == << >>
File == [Parts -> 0 .. Garbage]
Empty == [k \in Parts |-> 0]
Whole(a) == [k \in Parts |-> a]

ASSUME CacheAssumption ==
    /\ Mode \in [Runs -> {"normal", "force", "cache_only"}]
    /\ Overlap \in BOOLEAN
    /\ CheckAfter \in Nat
    /\ MaxRetries \in Nat
    /\ MaxArchive \in Nat \ {0}
    /\ MaxFaults \in Nat

VARIABLES
    served,         \* archive on the server
    \* the directory
    manifest,       \* sha256 in current.json, 0 if there is none
    manifest_tmp,   \* sha256 in current.json.tmp, which all processes share
    age,            \* age of its downloaded_at, up to CheckAfter
    archives,       \* archives[a]: the file <sha256>.zip
    temp,           \* temp[n]: the file _download_tmp_<n>.zip
    \* the processes
    phase,
    attempt,
    etag,           \* etag[r]: validator of the request, 0 if unconditional
    body,           \* body[r]: content received, hashed as it arrives, or confirmed
    handle,         \* handle[r]: where the file r has opened is by now
    received,       \* received[r]: parts written
    returned,       \* returned[r]: archive handed to the caller
    \* history and environment
    shared,         \* two processes have had one temporary file open
    faults

directory == <<manifest, manifest_tmp, age, archives, temp>>
request == <<attempt, etag, body, handle, received>>
vars == <<served, directory, phase, request, returned, shared, faults>>

Attempts == 0 .. MaxRetries
Phases == {"idle", "request", "confirm", "receive", "check", "store", "name", "rename",
           "ready"}

\* Where an open file is by now: under the name of archive 1 .. Garbage, still
\* under its temporary name, or without a name.
NotOpen == 0
InTemp == Garbage + 1
Unlinked == Garbage + 2

TypeOK ==
    /\ served \in Archives
    /\ manifest \in 0 .. Garbage
    /\ manifest_tmp \in 0 .. Garbage
    /\ age \in 0 .. CheckAfter
    /\ archives \in [1 .. Garbage -> File \cup {NoFile}]
    /\ temp \in [Attempts -> File \cup {NoFile}]
    /\ phase \in [Runs -> Phases]
    /\ attempt \in [Runs -> Attempts]
    /\ etag \in [Runs -> 0 .. Garbage]
    /\ body \in [Runs -> 0 .. Garbage]
    /\ handle \in [Runs -> NotOpen .. Unlinked]
    /\ received \in [Runs -> 0 .. Last]
    /\ returned \in [Runs -> 0 .. Garbage]
    /\ shared \in BOOLEAN
    /\ faults \in 0 .. MaxFaults

Init ==
    /\ served = 1
    /\ manifest = 0
    /\ manifest_tmp = 0
    /\ age = 0
    /\ archives = [a \in 1 .. Garbage |-> NoFile]
    /\ temp = [n \in Attempts |-> NoFile]
    /\ phase = [r \in Runs |-> "idle"]
    /\ attempt = [r \in Runs |-> 0]
    /\ etag = [r \in Runs |-> 0]
    /\ body = [r \in Runs |-> 0]
    /\ handle = [r \in Runs |-> NotOpen]
    /\ received = [r \in Runs |-> 0]
    /\ returned = [r \in Runs |-> 0]
    /\ shared = FALSE
    /\ faults = 0
--------------------------------------------------------------------------------
Publish ==
    /\ served < MaxArchive
    /\ served' = served + 1
    /\ UNCHANGED <<directory, phase, request, returned, shared, faults>>

TimePasses ==
    /\ manifest # 0
    /\ age < CheckAfter
    /\ age' = age + 1
    /\ UNCHANGED <<served, manifest, manifest_tmp, archives, temp, phase, request, returned,
                   shared, faults>>
--------------------------------------------------------------------------------
(***************************************************************************)
(* get_or_refresh.                                                         *)
(***************************************************************************)

\* Mutant: whatever was downloaded is taken for an archive.
IsZipFile_Any(file) == file # NoFile

IsZipFile(file) ==
    /\ file # NoFile
    /\ file[Last] \notin {0, Garbage}

\* _validate_cached
Cached(r) == Mode[r] # "force" /\ manifest # 0 /\ IsZipFile(archives[manifest])

Return(r, a) ==
    /\ phase' = [phase EXCEPT ![r] = "ready"]
    /\ returned' = [returned EXCEPT ![r] = a]

MayBegin(r) ==
    /\ phase[r] = "idle"
    /\ Overlap \/ \A q \in Runs : phase[q] = "idle"

\* A cached archive that may be used without asking.
UseCached(r) ==
    /\ MayBegin(r)
    /\ Cached(r)
    /\ Mode[r] = "cache_only" \/ age < CheckAfter
    /\ Return(r, manifest)
    /\ UNCHANGED <<served, directory, request, shared, faults>>

\* A conditional request for a stale archive, an unconditional one if there is
\* none or force_refresh is set; cache_only without an archive raises.
SendRequest(r) ==
    /\ MayBegin(r)
    /\ Mode[r] # "cache_only"
    /\ Cached(r) => age >= CheckAfter
    /\ phase' = [phase EXCEPT ![r] = "request"]
    /\ etag' = [etag EXCEPT ![r] = IF Cached(r) THEN manifest ELSE 0]
    /\ attempt' = [attempt EXCEPT ![r] = 0]
    /\ UNCHANGED <<served, directory, body, handle, received, returned, shared,
                   faults>>

\* 304
NotModified(r) ==
    /\ phase[r] = "request"
    /\ etag[r] = served
    /\ phase' = [phase EXCEPT ![r] = "confirm"]
    /\ UNCHANGED <<served, directory, request, returned, shared, faults>>

\* The manifest read before the request is written back with a new downloaded_at.
Confirm(r) ==
    /\ phase[r] = "confirm"
    /\ manifest_tmp' = etag[r]
    /\ body' = [body EXCEPT ![r] = etag[r]]
    /\ phase' = [phase EXCEPT ![r] = "rename"]
    /\ UNCHANGED <<served, manifest, age, archives, temp, attempt, etag, handle, received,
                   returned, shared, faults>>

\* 200: the temporary file is opened, which empties one that exists.
Receive(r, content) ==
    /\ phase[r] = "request"
    /\ phase' = [phase EXCEPT ![r] = "receive"]
    /\ body' = [body EXCEPT ![r] = content]
    /\ handle' = [handle EXCEPT ![r] = InTemp]
    /\ received' = [received EXCEPT ![r] = 0]
    /\ temp' = [temp EXCEPT ![attempt[r]] = Empty]
    /\ shared' = (shared \/ \E q \in Runs \ {r} : /\ handle[q] = InTemp
                                                 /\ attempt[q] = attempt[r])
    /\ UNCHANGED <<served, manifest, manifest_tmp, age, archives, attempt, etag, returned>>

Modified(r) ==
    /\ etag[r] # served
    /\ Receive(r, served)
    /\ UNCHANGED faults

WritePart(r) ==
    /\ phase[r] = "receive"
    /\ LET k == received[r] + 1
       IN  /\ received' = [received EXCEPT ![r] = k]
           /\ temp' = IF handle[r] = InTemp
                      THEN [temp EXCEPT ![attempt[r]][k] = body[r]] ELSE temp
           /\ archives' = IF handle[r] \in 1 .. Garbage
                          THEN [archives EXCEPT ![handle[r]][k] = body[r]] ELSE archives
           /\ phase' = IF k = Last THEN [phase EXCEPT ![r] = "check"] ELSE phase
    /\ UNCHANGED <<served, manifest, manifest_tmp, age, attempt, etag, body, handle, returned,
                   shared, faults>>

\* The files that are open under temporary name n move to another place.
Moved(n, place) ==
    [q \in Runs |-> IF handle[q] = InTemp /\ attempt[q] = n THEN place ELSE handle[q]]

\* The process is done with its file.
Closed(r, h) == [h EXCEPT ![r] = NotOpen]

\* Unlink the file under r's temporary name, if there is one.
Cleanup(r) ==
    /\ temp' = [temp EXCEPT ![attempt[r]] = NoFile]
    /\ handle' = Closed(r, Moved(attempt[r], Unlinked))

Leave(r) ==
    /\ phase' = [phase EXCEPT ![r] = "idle"]
    /\ attempt' = [attempt EXCEPT ![r] = 0]
    /\ etag' = [etag EXCEPT ![r] = 0]
    /\ body' = [body EXCEPT ![r] = 0]
    /\ received' = [received EXCEPT ![r] = 0]
    /\ returned' = [returned EXCEPT ![r] = 0]
    /\ UNCHANGED <<served, shared>>

Accept(r) ==
    /\ phase[r] = "check"
    /\ IsZipFile(temp[attempt[r]])
    /\ phase' = [phase EXCEPT ![r] = "store"]
    /\ UNCHANGED <<served, directory, request, returned, shared, faults>>

\* "Downloaded file is not a valid ZIP"
Reject(r) ==
    /\ phase[r] = "check"
    /\ ~IsZipFile(temp[attempt[r]])
    /\ Cleanup(r)
    /\ Leave(r)
    /\ UNCHANGED <<manifest, manifest_tmp, age, archives, faults>>

\* Mutant: an archive that exists is moved out of the way first.
Store_Replace(r) ==
    /\ phase[r] = "store"
    /\ temp[attempt[r]] # NoFile
    /\ archives' = [archives EXCEPT ![body[r]] = NoFile]
    /\ Cleanup(r)
    /\ phase' = [phase EXCEPT ![r] = "name"]
    /\ UNCHANGED <<served, manifest, manifest_tmp, age, attempt, etag, body, received,
                   returned, shared, faults>>

\* An archive that exists is kept and the file is unlinked; otherwise the file
\* is renamed.
Store(r) ==
    /\ phase[r] = "store"
    /\ temp[attempt[r]] # NoFile
    /\ IF archives[body[r]] # NoFile
       THEN Cleanup(r) /\ UNCHANGED archives
       ELSE /\ archives' = [archives EXCEPT ![body[r]] = temp[attempt[r]]]
            /\ temp' = [temp EXCEPT ![attempt[r]] = NoFile]
            /\ handle' = Closed(r, Moved(attempt[r], body[r]))
    /\ phase' = [phase EXCEPT ![r] = "name"]
    /\ UNCHANGED <<served, manifest, manifest_tmp, age, attempt, etag, body, received,
                   returned, shared, faults>>

\* Another process has renamed or unlinked the file: FileNotFoundError.
FileIsGone(r) ==
    /\ phase[r] = "store"
    /\ temp[attempt[r]] = NoFile
    /\ handle' = Closed(r, handle)
    /\ Leave(r)
    /\ UNCHANGED <<directory, faults>>

WriteManifest(r) ==
    /\ phase[r] = "name"
    /\ manifest_tmp' = body[r]
    /\ phase' = [phase EXCEPT ![r] = "rename"]
    /\ UNCHANGED <<served, manifest, age, archives, temp, request, returned, shared, faults>>

\* Mutant: a manifest that exists is left as it is.
RenameManifest_Once(r) ==
    /\ phase[r] = "rename"
    /\ manifest_tmp # 0
    /\ manifest' = IF manifest = 0 THEN manifest_tmp ELSE manifest
    /\ manifest_tmp' = 0
    /\ age' = 0
    /\ Return(r, body[r])
    /\ UNCHANGED <<served, archives, temp, request, shared, faults>>

\* current.json.tmp becomes current.json; it holds what was written last, which
\* may be another process's.
RenameManifest(r) ==
    /\ phase[r] = "rename"
    /\ manifest_tmp # 0
    /\ manifest' = manifest_tmp
    /\ manifest_tmp' = 0
    /\ age' = 0
    /\ Return(r, body[r])
    /\ UNCHANGED <<served, archives, temp, request, shared, faults>>

\* Another process has renamed it: FileNotFoundError.
ManifestIsGone(r) ==
    /\ phase[r] = "rename"
    /\ manifest_tmp = 0
    /\ handle' = Closed(r, handle)
    /\ Leave(r)
    /\ UNCHANGED <<directory, faults>>

\* The caller is done with the archive.
Release(r) ==
    /\ phase[r] = "ready"
    /\ handle' = Closed(r, handle)
    /\ Leave(r)
    /\ UNCHANGED <<directory, faults>>
--------------------------------------------------------------------------------
(***************************************************************************)
(* Errors.                                                                 *)
(***************************************************************************)

Fault ==
    /\ faults < MaxFaults
    /\ faults' = faults + 1

\* Status 200 with a body that is not an archive.
ReceiveGarbage(r) == Fault /\ Receive(r, Garbage)

\* A transient status or a transport error: the next attempt, or the last error.
AttemptFails(r) ==
    /\ phase[r] \in {"request", "receive"}
    /\ Fault
    /\ IF phase[r] = "receive" THEN Cleanup(r)
       ELSE handle' = Closed(r, handle) /\ UNCHANGED temp
    /\ IF attempt[r] = MaxRetries THEN Leave(r)
       ELSE /\ attempt' = [attempt EXCEPT ![r] = @ + 1]
            /\ phase' = [phase EXCEPT ![r] = "request"]
            /\ UNCHANGED <<served, etag, body, received, returned, shared>>
    /\ UNCHANGED <<manifest, manifest_tmp, age, archives>>

\* A permanent status, an exception that is not caught, or the process dies:
\* files are left as they are.
Crash(r) ==
    /\ phase[r] # "idle"
    /\ Fault
    /\ handle' = Closed(r, handle)
    /\ Leave(r)
    /\ UNCHANGED directory

RunStep(r) ==
    \/ NotModified(r)
    \/ Confirm(r)
    \/ Modified(r)
    \/ WritePart(r)
    \/ Accept(r)
    \/ Reject(r)
    \/ Store(r)
    \/ FileIsGone(r)
    \/ WriteManifest(r)
    \/ RenameManifest(r)
    \/ ManifestIsGone(r)

Begin(r) == UseCached(r) \/ SendRequest(r)

Next ==
    \/ Publish
    \/ TimePasses
    \/ \E r \in Runs :
         \/ Begin(r) \/ RunStep(r) \/ Release(r)
         \/ ReceiveGarbage(r) \/ AttemptFails(r) \/ Crash(r)

Spec == Init /\ [][Next]_vars

\* Time passes, the asset keeps being materialised and a run that was started
\* goes on; publications and faults are never required.
FairSpec ==
    /\ Spec
    /\ WF_vars(TimePasses)
    /\ \A r \in Runs : WF_vars(Begin(r)) /\ WF_vars(RunStep(r) \/ Release(r))
--------------------------------------------------------------------------------
(***************************************************************************)
(* Properties.                                                             *)
(***************************************************************************)

\* The manifest names an archive that exists, and so does what a run was given,
\* whatever was interrupted between renaming the file and naming it ("Archives
\* are [...] NEVER deleted").
NamedIsStored ==
    /\ manifest # 0 => archives[manifest] # NoFile
    /\ \A r \in Runs : returned[r] # 0 => archives[returned[r]] # NoFile

\* A stored archive has the content its name says and is an archive, whatever
\* failed, was retried or killed, unless two downloads have shared a temporary
\* file.
StoredIsWhole ==
    ~shared => /\ \A a \in Archives : archives[a] \in {NoFile, Whole(a)}
               /\ archives[Garbage] = NoFile

\* At most one process is using the cache.
Alone == \A r, q \in Runs : phase[r] # "idle" /\ phase[q] # "idle" => r = q

\* Once SEC publishes nothing any more and runs do not overlap any more, the
\* manifest names the archive served, also if a late 304 or a crash has left an
\* older name or none.
NewestIsNamed == <>[]Alone => <>[](manifest = served)
================================================================================
