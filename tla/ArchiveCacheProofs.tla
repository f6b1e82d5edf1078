--------------------------- MODULE ArchiveCacheProofs ---------------------------
(***************************************************************************)
(* Proofs about ArchiveCache, for any number of processes that share the   *)
(* directory, in any modes, with any number of retries, archives and       *)
(* faults.                                                                 *)
(***************************************************************************)
EXTENDS ArchiveCache, TLAPS

Receiving == {"receive", "check", "store"}

\* What a request was sent with, and what is about to be named, is stored.
RequestsAreStored ==
    /\ manifest_tmp # 0 => archives[manifest_tmp] # NoFile
    /\ \A r \in Runs :
      /\ etag[r] # 0 => archives[etag[r]] # NoFile
      /\ phase[r] \in {"name", "rename"} => body[r] # 0 /\ archives[body[r]] # NoFile
      /\ phase[r] = "confirm" => etag[r] # 0

\* Only a process that receives has a file open, and that file exists.
HandlesAreOpen ==
    \A r \in Runs :
      /\ handle[r] # NotOpen => phase[r] \in Receiving
      /\ handle[r] \in 1 .. Garbage => archives[handle[r]] # NoFile
      /\ handle[r] = InTemp => temp[attempt[r]] # NoFile
      /\ phase[r] \in Receiving => body[r] # 0
      /\ phase[r] = "receive" => received[r] < Last

DirectoryInv == TypeOK /\ NamedIsStored /\ RequestsAreStored /\ HandlesAreOpen

\* A file is not the absence of one.
LEMMA FilesExist ==
    /\ \A f \in File : f # NoFile
    /\ Empty \in File
    /\ \A f \in File, k \in Parts, b \in 0 .. Garbage : [f EXCEPT ![k] = b] \in File
<1>1. ASSUME NEW f \in File PROVE f # NoFile
  <2>1. DOMAIN f = {1, 2}
    BY DEF File, Parts
  <2>2. DOMAIN NoFile = {}
    BY DEF NoFile
  <2> QED
    BY <2>1, <2>2
<1>2. Empty \in File
  BY CacheAssumption DEF File, Empty, Garbage
<1>3. ASSUME NEW f \in File, NEW k \in Parts, NEW b \in 0 .. Garbage
      PROVE [f EXCEPT ![k] = b] \in File
  BY DEF File
<1> QED
  BY <1>1, <1>2, <1>3

\* An archive that exists goes on existing; the manifest may be replaced by a
\* name that exists.
LEMMA TypeNext == TypeOK /\ HandlesAreOpen /\ [Next]_vars => TypeOK'
<1> SUFFICES ASSUME TypeOK, HandlesAreOpen, [Next]_vars PROVE TypeOK'
  OBVIOUS
<1> USE CacheAssumption, FilesExist DEF TypeOK, Archives, Attempts, Phases, Garbage,
        NotOpen, InTemp, Unlinked, Last
<1>1. CASE UNCHANGED vars
  BY <1>1 DEF vars, directory, request
<1>2. CASE Publish
  BY <1>2 DEF Publish, directory, request
<1>3. CASE TimePasses
  BY <1>3 DEF TimePasses, request
<1>4. ASSUME NEW r \in Runs, Begin(r) PROVE TypeOK'
  <2>1. CASE UseCached(r)
    BY <2>1 DEF UseCached, Return, Cached, directory, request
  <2>2. CASE SendRequest(r)
    BY <2>2 DEF SendRequest, directory
  <2> QED
    BY <1>4, <2>1, <2>2 DEF Begin
<1>5. ASSUME NEW r \in Runs, NotModified(r) \/ Confirm(r) \/ Accept(r) \/ WriteManifest(r)
                                \/ RenameManifest(r)
      PROVE TypeOK'
  <2>1. CASE NotModified(r)
    BY <2>1 DEF NotModified, directory, request
  <2>2. CASE Confirm(r)
    BY <2>2 DEF Confirm
  <2>3. CASE Accept(r)
    BY <2>3 DEF Accept, directory, request
  <2>4. CASE WriteManifest(r)
    BY <2>4 DEF WriteManifest, request
  <2>5. CASE RenameManifest(r)
    BY <2>5 DEF RenameManifest, Return, request
  <2> QED
    BY <1>5, <2>1, <2>2, <2>3, <2>4, <2>5
<1>6. ASSUME NEW r \in Runs, NEW b \in 1 .. Garbage, Receive(r, b),
             faults' \in 0 .. MaxFaults
      PROVE  TypeOK'
  <2>1. shared' \in BOOLEAN
    BY <1>6 DEF Receive
  <2>2. temp' \in [Attempts -> File \cup {NoFile}]
    BY <1>6 DEF Receive
  <2>3. /\ phase' \in [Runs -> Phases]
        /\ body' \in [Runs -> 0 .. Garbage]
        /\ handle' \in [Runs -> NotOpen .. Unlinked]
        /\ received' \in [Runs -> 0 .. Last]
    BY <1>6 DEF Receive
  <2> QED
    BY <1>6, <2>1, <2>2, <2>3 DEF Receive
<1>7. ASSUME NEW r \in Runs, WritePart(r) PROVE TypeOK'
  <2>1. received[r] + 1 \in Parts /\ received[r] + 1 \in 0 .. Last
    <3>1. phase[r] = "receive"
      BY <1>7 DEF WritePart
    <3>2. received[r] < Last
      BY <3>1 DEF HandlesAreOpen
    <3>3. received[r] \in 0 .. Last
      OBVIOUS
    <3> QED
      BY <3>2, <3>3 DEF Parts
  <2>2. temp' \in [Attempts -> File \cup {NoFile}]
    <3>1. CASE handle[r] = InTemp
      <4>1. temp[attempt[r]] \in File
        BY <3>1 DEF HandlesAreOpen
      <4>2. [temp[attempt[r]] EXCEPT ![received[r] + 1] = body[r]] \in File
        BY <2>1, <4>1
      <4> QED
        BY <1>7, <3>1, <4>2 DEF WritePart
    <3> QED
      BY <1>7, <3>1 DEF WritePart
  <2>3. archives' \in [1 .. Garbage -> File \cup {NoFile}]
    <3>1. CASE handle[r] \in 1 .. Garbage
      <4>1. archives[handle[r]] \in File
        BY <3>1 DEF HandlesAreOpen
      <4>2. [archives[handle[r]] EXCEPT ![received[r] + 1] = body[r]] \in File
        BY <2>1, <4>1
      <4> QED
        BY <1>7, <3>1, <4>2 DEF WritePart
    <3> QED
      BY <1>7, <3>1 DEF WritePart
  <2>4. /\ phase' \in [Runs -> Phases]
        /\ received' \in [Runs -> 0 .. Last]
    BY <1>7, <2>1 DEF WritePart
  <2> QED
    BY <1>7, <2>2, <2>3, <2>4 DEF WritePart
<1>8. ASSUME NEW r \in Runs, NEW n \in Attempts, NEW place \in NotOpen .. Unlinked
      PROVE  /\ Closed(r, Moved(n, place)) \in [Runs -> NotOpen .. Unlinked]
             /\ Closed(r, handle) \in [Runs -> NotOpen .. Unlinked]
  <2>1. Moved(n, place) \in [Runs -> NotOpen .. Unlinked]
    BY DEF Moved
  <2>2. \A h \in [Runs -> NotOpen .. Unlinked] : Closed(r, h) \in [Runs -> NotOpen .. Unlinked]
    BY DEF Closed
  <2> QED
    BY <2>1, <2>2
<1>9. ASSUME NEW r \in Runs, Cleanup(r)
      PROVE  /\ temp' \in [Attempts -> File \cup {NoFile}]
             /\ handle' \in [Runs -> NotOpen .. Unlinked]
  <2>1. attempt[r] \in Attempts /\ Unlinked \in NotOpen .. Unlinked
    OBVIOUS
  <2>2. handle' \in [Runs -> NotOpen .. Unlinked]
    BY <1>8, <1>9, <2>1 DEF Cleanup
  <2>3. temp' \in [Attempts -> File \cup {NoFile}]
    BY <1>9 DEF Cleanup
  <2> QED
    BY <2>2, <2>3
<1>10. ASSUME NEW r \in Runs, Leave(r), faults' \in 0 .. MaxFaults,
              UNCHANGED <<manifest, manifest_tmp, age, archives>>,
              temp' \in [Attempts -> File \cup {NoFile}],
              handle' \in [Runs -> NotOpen .. Unlinked]
       PROVE  TypeOK'
  BY <1>10 DEF Leave
<1>11. ASSUME NEW r \in Runs, Reject(r) PROVE TypeOK'
  BY <1>9, <1>10, <1>11 DEF Reject
<1>12. ASSUME NEW r \in Runs, Store(r) PROVE TypeOK'
  <2>1. temp' \in [Attempts -> File \cup {NoFile}]
    BY <1>12, <1>9 DEF Store
  <2>2. body[r] \in 1 .. Garbage
    BY <1>12 DEF Store, HandlesAreOpen, Receiving
  <2>3. handle' \in [Runs -> NotOpen .. Unlinked]
    <3>1. CASE archives[body[r]] # NoFile
      BY <1>12, <1>9, <3>1 DEF Store
    <3>2. CASE archives[body[r]] = NoFile
      <4>1. body[r] \in NotOpen .. Unlinked /\ attempt[r] \in Attempts
        BY <2>2
      <4>2. handle' = Closed(r, Moved(attempt[r], body[r]))
        BY <1>12, <3>2 DEF Store
      <4> QED
        BY <1>8, <4>1, <4>2
    <3> QED
      BY <3>1, <3>2
  <2>4. archives' \in [1 .. Garbage -> File \cup {NoFile}]
    BY <1>12, <2>2 DEF Store
  <2> QED
    BY <1>12, <2>1, <2>3, <2>4 DEF Store
<1>13. ASSUME NEW r \in Runs, FileIsGone(r) \/ ManifestIsGone(r) \/ Release(r) \/ Crash(r) PROVE TypeOK'
  <2>1. Leave(r) /\ handle' = Closed(r, handle) /\ UNCHANGED directory
    BY <1>13 DEF FileIsGone, ManifestIsGone, Release, Crash
  <2>2. faults' \in 0 .. MaxFaults
    BY <1>13 DEF FileIsGone, ManifestIsGone, Release, Crash, Fault
  <2>3. handle' \in [Runs -> NotOpen .. Unlinked]
    BY <1>8, <2>1
  <2> QED
    BY <1>10, <2>1, <2>2, <2>3 DEF directory
<1>14. ASSUME NEW r \in Runs, AttemptFails(r) PROVE TypeOK'
  <2>1. /\ temp' \in [Attempts -> File \cup {NoFile}]
        /\ handle' \in [Runs -> NotOpen .. Unlinked]
    <3>1. CASE phase[r] = "receive"
      BY <1>14, <1>9, <3>1 DEF AttemptFails
    <3>2. CASE phase[r] # "receive"
      <4>1. handle' = Closed(r, handle) /\ temp' = temp
        BY <1>14, <3>2 DEF AttemptFails
      <4>2. attempt[r] \in Attempts /\ Unlinked \in NotOpen .. Unlinked
        OBVIOUS
      <4> QED
        BY <1>8, <4>1, <4>2
    <3> QED
      BY <3>1, <3>2
  <2>2. faults' \in 0 .. MaxFaults
    BY <1>14 DEF AttemptFails, Fault
  <2>3. CASE attempt[r] = MaxRetries
    BY <1>14, <1>10, <2>1, <2>2, <2>3 DEF AttemptFails
  <2>4. CASE attempt[r] # MaxRetries
    <3>1. /\ attempt' = [attempt EXCEPT ![r] = @ + 1]
          /\ phase' = [phase EXCEPT ![r] = "request"]
          /\ UNCHANGED <<served, etag, body, received, returned, shared,
                         manifest, manifest_tmp, age, archives>>
      BY <1>14, <2>4 DEF AttemptFails
    <3>2. attempt' \in [Runs -> Attempts] /\ phase' \in [Runs -> Phases]
      BY <2>4, <3>1
    <3> QED
      BY <2>1, <2>2, <3>1, <3>2
  <2> QED
    BY <2>3, <2>4
<1>15. ASSUME NEW r \in Runs, RunStep(r) PROVE TypeOK'
  <2>1. CASE Modified(r)
    <3>1. Receive(r, served) /\ faults' \in 0 .. MaxFaults /\ served \in 1 .. Garbage
      BY <2>1 DEF Modified
    <3> QED
      BY <1>6, <3>1
  <2> QED
    BY <1>5, <1>7, <1>11, <1>12, <1>13, <1>15, <2>1 DEF RunStep
<1>16. ASSUME NEW r \in Runs, ReceiveGarbage(r) PROVE TypeOK'
  <2>1. Receive(r, Garbage) /\ faults' \in 0 .. MaxFaults
    BY <1>16 DEF ReceiveGarbage, Fault
  <2>2. Garbage \in 1 .. Garbage
    OBVIOUS
  <2> QED
    BY <1>6, <2>1, <2>2
<1> QED
  BY <1>1, <1>2, <1>3, <1>4, <1>13, <1>14, <1>15, <1>16 DEF Next

\* A stored archive is overwritten part by part at most, never removed.
LEMMA ArchivesStay ==
    TypeOK /\ HandlesAreOpen /\ [Next]_vars =>
      \A a \in 1 .. Garbage : archives[a] # NoFile => archives'[a] # NoFile
<1> SUFFICES ASSUME TypeOK, HandlesAreOpen, [Next]_vars,
                    NEW a \in 1 .. Garbage, archives[a] # NoFile
             PROVE  archives'[a] # NoFile
  OBVIOUS
<1> USE CacheAssumption, FilesExist DEF TypeOK, Garbage, NotOpen, InTemp, Unlinked, Last
<1>1. ASSUME NEW r \in Runs, WritePart(r) PROVE archives'[a] # NoFile
  <2>1. CASE handle[r] = a
    <3>1. received[r] + 1 \in Parts
      <4>1. phase[r] = "receive"
        BY <1>1 DEF WritePart
      <4>2. received[r] < Last
        BY <4>1 DEF HandlesAreOpen
      <4>3. received[r] \in 0 .. Last
        OBVIOUS
      <4> QED
        BY <4>2, <4>3 DEF Parts
    <3>2. [archives[a] EXCEPT ![received[r] + 1] = body[r]] \in File
      BY <3>1
    <3>3. archives'[a] = [archives[a] EXCEPT ![received[r] + 1] = body[r]]
      BY <1>1, <2>1 DEF WritePart
    <3> QED
      BY <3>2, <3>3
  <2>2. CASE handle[r] # a
    BY <1>1, <2>2 DEF WritePart
  <2> QED
    BY <2>1, <2>2
<1>2. ASSUME NEW r \in Runs, Store(r) PROVE archives'[a] # NoFile
  BY <1>2 DEF Store
<1>3. CASE archives' = archives
  BY <1>3
<1>4. CASE UNCHANGED vars
  BY <1>4 DEF vars, directory
<1>5. CASE Publish \/ TimePasses
  BY <1>5 DEF Publish, TimePasses, directory
<1>6. ASSUME NEW r \in Runs, Begin(r) \/ Release(r) \/ ReceiveGarbage(r) \/ AttemptFails(r) \/ Crash(r)
      PROVE  archives' = archives
  BY <1>6 DEF Begin, UseCached, SendRequest, Release, ReceiveGarbage, Receive,
              AttemptFails, Crash, directory
<1>7. ASSUME NEW r \in Runs, RunStep(r), ~ WritePart(r), ~ Store(r)
      PROVE  archives' = archives
  BY <1>7 DEF RunStep, NotModified, Confirm, Modified, Receive, Accept, Reject,
              FileIsGone, WriteManifest, RenameManifest, ManifestIsGone, directory
<1> QED
  BY <1>1, <1>2, <1>3, <1>4, <1>5, <1>6, <1>7 DEF Next

\* What the manifest, a request or a caller has been told of is stored.
LEMMA NamesNext ==
    DirectoryInv /\ [Next]_vars => NamedIsStored' /\ RequestsAreStored'
<1> SUFFICES ASSUME DirectoryInv, [Next]_vars
             PROVE  NamedIsStored' /\ RequestsAreStored'
  OBVIOUS
<1>1. TypeOK /\ NamedIsStored /\ RequestsAreStored /\ HandlesAreOpen
  BY DEF DirectoryInv
<1>2. \A a \in 1 .. Garbage : archives[a] # NoFile => archives'[a] # NoFile
  BY <1>1, ArchivesStay
<1> USE CacheAssumption DEF TypeOK, NamedIsStored, RequestsAreStored, Archives, Garbage
<1>3. CASE UNCHANGED vars
  BY <1>1, <1>3 DEF vars, directory, request
<1>4. CASE Publish \/ TimePasses
  BY <1>1, <1>4 DEF Publish, TimePasses, directory, request
<1>5. ASSUME NEW r \in Runs, UseCached(r) PROVE NamedIsStored' /\ RequestsAreStored'
  BY <1>1, <1>5 DEF UseCached, Cached, IsZipFile, Return, directory, request
<1>6. ASSUME NEW r \in Runs, SendRequest(r) PROVE NamedIsStored' /\ RequestsAreStored'
  BY <1>1, <1>6 DEF SendRequest, directory
<1>7. ASSUME NEW r \in Runs, NotModified(r) \/ Accept(r)
      PROVE  NamedIsStored' /\ RequestsAreStored'
  <2>1. /\ UNCHANGED <<manifest, manifest_tmp, archives, etag, body, returned>>
        /\ \/ phase' = [phase EXCEPT ![r] = "store"]
           \/ phase' = [phase EXCEPT ![r] = "confirm"] /\ etag[r] = served
    BY <1>7 DEF NotModified, Accept, directory, request
  <2>2. served # 0
    BY <1>1
  <2>3. NamedIsStored'
    BY <1>1, <2>1
  <2>4. RequestsAreStored'
    BY <1>1, <2>1, <2>2
  <2> QED
    BY <2>3, <2>4
<1>8. ASSUME NEW r \in Runs, Confirm(r) PROVE NamedIsStored' /\ RequestsAreStored'
  BY <1>1, <1>8 DEF Confirm
<1>9. ASSUME NEW r \in Runs, Modified(r) \/ ReceiveGarbage(r)
      PROVE  NamedIsStored' /\ RequestsAreStored'
  <2>1. PICK b : Receive(r, b)
    BY <1>9 DEF Modified, ReceiveGarbage
  <2> QED
    BY <1>1, <2>1 DEF Receive
<1>10. ASSUME NEW r \in Runs, WritePart(r) PROVE NamedIsStored' /\ RequestsAreStored'
  BY <1>1, <1>2, <1>10 DEF WritePart
<1>11. ASSUME NEW r \in Runs, Store(r) PROVE NamedIsStored' /\ RequestsAreStored'
  <2>1. NamedIsStored'
    BY <1>1, <1>2, <1>11 DEF Store
  <2>2. body[r] \in 1 .. Garbage /\ archives'[body[r]] # NoFile
    BY <1>1, <1>11 DEF Store, HandlesAreOpen, Receiving
  <2>3. RequestsAreStored'
    <3>1. etag' = etag /\ body' = body /\ phase' = [phase EXCEPT ![r] = "name"]
      BY <1>11 DEF Store
    <3>2. manifest_tmp' = manifest_tmp /\ manifest_tmp \in 0 .. Garbage
      BY <1>1, <1>11 DEF Store
    <3> QED
      BY <1>1, <1>2, <2>2, <3>1, <3>2
  <2> QED
    BY <2>1, <2>3
<1>12. ASSUME NEW r \in Runs, WriteManifest(r) \/ RenameManifest(r)
       PROVE  NamedIsStored' /\ RequestsAreStored'
  <2>1. CASE WriteManifest(r)
    BY <1>1, <2>1 DEF WriteManifest, request
  <2>2. CASE RenameManifest(r)
    BY <1>1, <2>2 DEF RenameManifest, Return, request
  <2> QED
    BY <1>12, <2>1, <2>2
<1>13. ASSUME NEW r \in Runs, Leave(r), UNCHANGED <<manifest, manifest_tmp, archives>>
       PROVE  NamedIsStored' /\ RequestsAreStored'
  BY <1>1, <1>13 DEF Leave
<1>14. ASSUME NEW r \in Runs, Reject(r) \/ FileIsGone(r) \/ ManifestIsGone(r) \/ Release(r) \/ Crash(r)
       PROVE  NamedIsStored' /\ RequestsAreStored'
  <2>1. Leave(r) /\ UNCHANGED <<manifest, manifest_tmp, archives>>
    BY <1>14 DEF Reject, FileIsGone, ManifestIsGone, Release, Crash, directory
  <2> QED
    BY <1>13, <2>1
<1>15. ASSUME NEW r \in Runs, AttemptFails(r) PROVE NamedIsStored' /\ RequestsAreStored'
  <2>1. CASE attempt[r] = MaxRetries
    BY <1>13, <1>15, <2>1 DEF AttemptFails
  <2>2. CASE attempt[r] # MaxRetries
    BY <1>1, <1>15, <2>2 DEF AttemptFails
  <2> QED
    BY <2>1, <2>2
<1> QED
  BY <1>3, <1>4, <1>5, <1>6, <1>7, <1>8, <1>9, <1>10, <1>11, <1>12, <1>14, <1>15
     DEF Next, RunStep, Begin

\* Open files are tracked through every rename and unlink.
LEMMA HandlesNext == DirectoryInv /\ [Next]_vars => HandlesAreOpen'
<1> SUFFICES ASSUME DirectoryInv, [Next]_vars PROVE HandlesAreOpen'
  OBVIOUS
<1>1. TypeOK /\ HandlesAreOpen
  BY DEF DirectoryInv
<1>2. \A a \in 1 .. Garbage : archives[a] # NoFile => archives'[a] # NoFile
  BY <1>1, ArchivesStay
<1> USE CacheAssumption
    DEF TypeOK, HandlesAreOpen, Archives, Garbage, NotOpen, InTemp, Unlinked, Receiving, Last
<1>3. CASE UNCHANGED vars
  BY <1>1, <1>3 DEF vars, directory, request
<1>4. CASE Publish \/ TimePasses
  BY <1>1, <1>4 DEF Publish, TimePasses, directory, request
<1>5. ASSUME NEW r \in Runs, UseCached(r) PROVE HandlesAreOpen'
  BY <1>1, <1>5 DEF UseCached, MayBegin, Return, directory, request
<1>6. ASSUME NEW r \in Runs, SendRequest(r) PROVE HandlesAreOpen'
  BY <1>1, <1>6 DEF SendRequest, MayBegin, directory
<1>7. ASSUME NEW r \in Runs, NotModified(r) PROVE HandlesAreOpen'
  BY <1>1, <1>7 DEF NotModified, directory, request
<1>8. ASSUME NEW r \in Runs, Accept(r) PROVE HandlesAreOpen'
  BY <1>1, <1>8 DEF Accept, directory, request
<1>9. ASSUME NEW r \in Runs, Confirm(r) PROVE HandlesAreOpen'
  BY <1>1, <1>9 DEF Confirm
<1>10. ASSUME NEW r \in Runs, WriteManifest(r) \/ RenameManifest(r) PROVE HandlesAreOpen'
  BY <1>1, <1>10 DEF WriteManifest, RenameManifest, Return, request
<1>11. ASSUME NEW r \in Runs, NEW b \in 1 .. Garbage, Receive(r, b) PROVE HandlesAreOpen'
  <2>1. Empty # NoFile
    BY FilesExist
  <2> QED
    BY <1>1, <1>11, <2>1 DEF Receive
<1>12. ASSUME NEW r \in Runs, WritePart(r) PROVE HandlesAreOpen'
  <2> SUFFICES ASSUME NEW q \in Runs
               PROVE  /\ handle'[q] # NotOpen => phase'[q] \in Receiving
                      /\ handle'[q] \in 1 .. Garbage => archives'[handle'[q]] # NoFile
                      /\ handle'[q] = InTemp => temp'[attempt'[q]] # NoFile
                      /\ phase'[q] \in Receiving => body'[q] # 0
                      /\ phase'[q] = "receive" => received'[q] < Last
    OBVIOUS
  <2>1. phase[r] = "receive" /\ received[r] < Last /\ received[r] \in 0 .. Last
    BY <1>1, <1>12 DEF WritePart
  <2>2. /\ phase' = IF received[r] + 1 = Last THEN [phase EXCEPT ![r] = "check"] ELSE phase
        /\ received' = [received EXCEPT ![r] = received[r] + 1]
        /\ UNCHANGED <<attempt, body, handle>>
    BY <1>12 DEF WritePart
  <2>3. handle'[q] = InTemp => temp'[attempt'[q]] # NoFile
    <3>1. CASE handle[r] = InTemp /\ handle[q] = InTemp /\ attempt[q] = attempt[r]
      <4>1. temp[attempt[r]] \in File /\ received[r] + 1 \in Parts
        BY <1>1, <2>1, <3>1 DEF Parts
      <4>2. [temp[attempt[r]] EXCEPT ![received[r] + 1] = body[r]] \in File
        BY <1>1, <4>1, FilesExist
      <4>3. temp'[attempt[r]] = [temp[attempt[r]] EXCEPT ![received[r] + 1] = body[r]]
        BY <1>1, <1>12, <3>1 DEF WritePart
      <4> QED
        BY <2>2, <3>1, <4>2, <4>3, FilesExist
    <3>2. CASE ~(handle[r] = InTemp /\ handle[q] = InTemp /\ attempt[q] = attempt[r])
      BY <1>1, <1>12, <3>2 DEF WritePart
    <3> QED
      BY <3>1, <3>2
  <2> QED
    BY <1>1, <1>2, <2>1, <2>2, <2>3
<1>13. ASSUME NEW r \in Runs, NEW place \in NotOpen .. Unlinked,
              place # InTemp,
              place \in 1 .. Garbage => archives'[place] # NoFile,
              handle' = Closed(r, Moved(attempt[r], place)),
              temp' = [temp EXCEPT ![attempt[r]] = NoFile],
              NEW q \in Runs
       PROVE  /\ handle'[q] # NotOpen => q # r /\ phase[q] \in Receiving
              /\ handle'[q] \in 1 .. Garbage => archives'[handle'[q]] # NoFile
              /\ q # r /\ handle'[q] = InTemp => temp'[attempt[q]] # NoFile
  BY <1>1, <1>2, <1>13 DEF Closed, Moved
<1>14. ASSUME NEW r \in Runs, handle' = Closed(r, handle), temp' = temp, NEW q \in Runs
       PROVE  /\ handle'[q] # NotOpen => q # r /\ phase[q] \in Receiving
              /\ handle'[q] \in 1 .. Garbage => archives'[handle'[q]] # NoFile
              /\ q # r /\ handle'[q] = InTemp => temp'[attempt[q]] # NoFile
  BY <1>1, <1>2, <1>14 DEF Closed
<1>15. ASSUME NEW r \in Runs, Cleanup(r), NEW q \in Runs
       PROVE  /\ handle'[q] # NotOpen => q # r /\ phase[q] \in Receiving
              /\ handle'[q] \in 1 .. Garbage => archives'[handle'[q]] # NoFile
              /\ q # r /\ handle'[q] = InTemp => temp'[attempt[q]] # NoFile
  <2>1. Unlinked \in NotOpen .. Unlinked /\ Unlinked # InTemp /\ Unlinked \notin 1 .. Garbage
    OBVIOUS
  <2>2. handle' = Closed(r, Moved(attempt[r], Unlinked)) /\ temp' = [temp EXCEPT ![attempt[r]] = NoFile]
    BY <1>15 DEF Cleanup
  <2> QED
    BY <1>13, <2>1, <2>2
<1>16. ASSUME NEW r \in Runs, Store(r) PROVE HandlesAreOpen'
  <2>1. \A q \in Runs :
          /\ handle'[q] # NotOpen => q # r /\ phase[q] \in Receiving
          /\ handle'[q] \in 1 .. Garbage => archives'[handle'[q]] # NoFile
          /\ q # r /\ handle'[q] = InTemp => temp'[attempt[q]] # NoFile
    <3>1. CASE archives[body[r]] # NoFile
      BY <1>15, <1>16, <3>1 DEF Store
    <3>2. CASE archives[body[r]] = NoFile
      <4>1. body[r] \in 1 .. Garbage /\ archives'[body[r]] # NoFile
        BY <1>1, <1>16, <3>2 DEF Store
      <4>2. body[r] \in NotOpen .. Unlinked /\ body[r] # InTemp
        BY <4>1
      <4>3. /\ handle' = Closed(r, Moved(attempt[r], body[r]))
            /\ temp' = [temp EXCEPT ![attempt[r]] = NoFile]
        BY <1>16, <3>2 DEF Store
      <4> QED
        BY <1>13, <4>1, <4>2, <4>3
    <3> QED
      BY <3>1, <3>2
  <2>2. /\ phase' = [phase EXCEPT ![r] = "name"]
        /\ UNCHANGED <<attempt, body, received>>
    BY <1>16 DEF Store
  <2> QED
    BY <1>1, <2>1, <2>2
<1>17. ASSUME NEW r \in Runs, Leave(r),
              \A q \in Runs :
                /\ handle'[q] # NotOpen => q # r /\ phase[q] \in Receiving
                /\ handle'[q] \in 1 .. Garbage => archives'[handle'[q]] # NoFile
                /\ q # r /\ handle'[q] = InTemp => temp'[attempt[q]] # NoFile
       PROVE  HandlesAreOpen'
  BY <1>1, <1>17 DEF Leave
<1>18. ASSUME NEW r \in Runs, Reject(r) PROVE HandlesAreOpen'
  BY <1>15, <1>17, <1>18 DEF Reject
<1>19. ASSUME NEW r \in Runs, FileIsGone(r) \/ ManifestIsGone(r) \/ Release(r) \/ Crash(r) PROVE HandlesAreOpen'
  <2>1. Leave(r) /\ handle' = Closed(r, handle) /\ temp' = temp
    BY <1>19 DEF FileIsGone, ManifestIsGone, Release, Crash, directory
  <2> QED
    BY <1>14, <1>17, <2>1
<1>20. ASSUME NEW r \in Runs, AttemptFails(r) PROVE HandlesAreOpen'
  <2>1. \A q \in Runs :
          /\ handle'[q] # NotOpen => q # r /\ phase[q] \in Receiving
          /\ handle'[q] \in 1 .. Garbage => archives'[handle'[q]] # NoFile
          /\ q # r /\ handle'[q] = InTemp => temp'[attempt[q]] # NoFile
    <3>1. CASE phase[r] = "receive"
      BY <1>15, <1>20, <3>1 DEF AttemptFails
    <3>2. CASE phase[r] # "receive"
      BY <1>14, <1>20, <3>2 DEF AttemptFails
    <3> QED
      BY <3>1, <3>2
  <2>2. CASE attempt[r] = MaxRetries
    BY <1>17, <1>20, <2>1, <2>2 DEF AttemptFails
  <2>3. CASE attempt[r] # MaxRetries
    <3>1. /\ attempt' = [attempt EXCEPT ![r] = @ + 1]
          /\ phase' = [phase EXCEPT ![r] = "request"]
          /\ UNCHANGED <<body, received>>
      BY <1>20, <2>3 DEF AttemptFails
    <3> QED
      BY <1>1, <2>1, <3>1
  <2> QED
    BY <2>2, <2>3
<1>21. ASSUME NEW r \in Runs, Modified(r) \/ ReceiveGarbage(r) PROVE HandlesAreOpen'
  <2>1. \E b \in 1 .. Garbage : Receive(r, b)
    BY <1>1, <1>21 DEF Modified, ReceiveGarbage
  <2> QED
    BY <1>11, <2>1
<1> QED
  BY <1>3, <1>4, <1>5, <1>6, <1>7, <1>8, <1>9, <1>10, <1>12, <1>16, <1>18, <1>19,
     <1>20, <1>21 DEF Next, RunStep, Begin

LEMMA InitialDirectory == Init => DirectoryInv
<1> SUFFICES ASSUME Init PROVE DirectoryInv
  OBVIOUS
<1>0. MaxArchive \in Nat \ {0} /\ MaxRetries \in Nat /\ CheckAfter \in Nat /\ MaxFaults \in Nat
  BY CacheAssumption
<1> USE DEF Init
<1>1. TypeOK
  <2>1. /\ served \in Archives
        /\ manifest \in 0 .. Garbage /\ manifest_tmp \in 0 .. Garbage
        /\ age \in 0 .. CheckAfter
        /\ faults \in 0 .. MaxFaults
    BY <1>0 DEF Archives, Garbage
  <2>2. archives \in [1 .. Garbage -> File \cup {NoFile}] /\ temp \in [Attempts -> File \cup {NoFile}]
    OBVIOUS
  <2>3. phase \in [Runs -> Phases] /\ attempt \in [Runs -> Attempts]
    BY <1>0 DEF Phases, Attempts
  <2>4. /\ etag \in [Runs -> 0 .. Garbage]
        /\ body \in [Runs -> 0 .. Garbage]
        /\ returned \in [Runs -> 0 .. Garbage]
    BY <1>0 DEF Garbage
  <2>5. handle \in [Runs -> NotOpen .. Unlinked] /\ received \in [Runs -> 0 .. Last]
    BY <1>0 DEF Garbage, NotOpen, Unlinked, Last
  <2>6. shared \in BOOLEAN
    OBVIOUS
  <2> QED
    BY <2>1, <2>2, <2>3, <2>4, <2>5, <2>6 DEF TypeOK
<1>2. NamedIsStored
  BY DEF NamedIsStored
<1>3. RequestsAreStored
  BY DEF RequestsAreStored
<1>4. HandlesAreOpen
  <2>1. \A r \in Runs : handle[r] = NotOpen /\ phase[r] = "idle"
    BY DEF NotOpen
  <2>2. NotOpen \notin 1 .. Garbage /\ NotOpen # InTemp
    BY <1>0 DEF NotOpen, InTemp, Garbage
  <2> QED
    BY <2>1, <2>2 DEF HandlesAreOpen, Receiving
<1> QED
  BY <1>1, <1>2, <1>3, <1>4 DEF DirectoryInv

\* The manifest names an archive that exists, and so does what a run was given,
\* with any number of processes, by force or not, and any failures and crashes.
THEOREM NamedStored == Spec => []NamedIsStored
<1>1. Init => DirectoryInv
  BY InitialDirectory
<1>2. DirectoryInv /\ [Next]_vars => DirectoryInv'
  BY TypeNext, NamesNext, HandlesNext DEF DirectoryInv
<1>3. DirectoryInv => NamedIsStored
  BY DEF DirectoryInv
<1> QED
  BY <1>1, <1>2, <1>3, PTL DEF Spec

THEOREM TypeCorrect == Spec => []TypeOK
<1>1. DirectoryInv /\ [Next]_vars => DirectoryInv'
  BY TypeNext, NamesNext, HandlesNext DEF DirectoryInv
<1>2. DirectoryInv => TypeOK
  BY DEF DirectoryInv
<1> QED
  BY <1>1, <1>2, InitialDirectory, PTL DEF Spec
--------------------------------------------------------------------------------
(* While no two downloads have shared a temporary file, a process that        *)
(* receives owns the file, which holds what it has written.                   *)

Owns(r) ==
    phase[r] \in Receiving =>
      /\ handle[r] = InTemp
      /\ \A q \in Runs \ {r} : handle[q] = InTemp => attempt[q] # attempt[r]
      /\ \A k \in Parts : temp[attempt[r]][k] = IF k <= received[r] THEN body[r] ELSE 0
      /\ phase[r] # "receive" => received[r] = Last
      /\ phase[r] = "store" => body[r] # Garbage

WholeInv == DirectoryInv /\ StoredIsWhole /\ (~shared => \A r \in Runs : Owns(r))

\* A process that opens a temporary file takes it from another or owns it.
LEMMA ReceiveOwns ==
    ASSUME WholeInv, NEW r \in Runs, NEW b \in 1 .. Garbage, Receive(r, b), ~shared'
    PROVE  \A q \in Runs : Owns(q)'
<1>1. TypeOK /\ HandlesAreOpen
  BY DEF WholeInv, DirectoryInv
<1>2. /\ ~shared
      /\ \A q \in Runs \ {r} : handle[q] = InTemp => attempt[q] # attempt[r]
  BY DEF Receive
<1>3. \A q \in Runs : Owns(q)
  BY <1>2 DEF WholeInv
<1>4. /\ phase' = [phase EXCEPT ![r] = "receive"]
      /\ body' = [body EXCEPT ![r] = b]
      /\ handle' = [handle EXCEPT ![r] = InTemp]
      /\ received' = [received EXCEPT ![r] = 0]
      /\ temp' = [temp EXCEPT ![attempt[r]] = Empty]
      /\ attempt' = attempt
  BY DEF Receive
<1>5. Owns(r)'
  <2>1. handle'[r] = InTemp /\ phase'[r] = "receive" /\ received'[r] = 0
    BY <1>1, <1>4 DEF TypeOK
  <2>2. temp'[attempt'[r]] = Empty
    BY <1>1, <1>4 DEF TypeOK
  <2>3. \A q \in Runs \ {r} : handle'[q] = InTemp => attempt'[q] # attempt'[r]
    BY <1>1, <1>2, <1>4 DEF TypeOK
  <2> QED
    BY <2>1, <2>2, <2>3 DEF Owns, Empty, Parts
<1>6. ASSUME NEW q \in Runs \ {r} PROVE Owns(q)'
  <2>1. phase'[q] \in Receiving => handle[q] = InTemp /\ attempt[q] # attempt[r]
    BY <1>1, <1>2, <1>3, <1>4 DEF TypeOK, Owns
  <2>2. attempt[q] # attempt[r] => temp'[attempt'[q]] = temp[attempt[q]]
    BY <1>1, <1>4 DEF TypeOK
  <2>3. \A p \in Runs \ {q} : attempt[q] # attempt[r] =>
          (handle'[p] = InTemp => attempt'[p] # attempt'[q]) \/ phase[q] \notin Receiving
    BY <1>1, <1>3, <1>4 DEF TypeOK, Owns
  <2> QED
    BY <1>1, <1>3, <1>4, <2>1, <2>2, <2>3 DEF TypeOK, Owns
<1> QED
  BY <1>5, <1>6

\* What process r does with its own file leaves the files of others alone.
LEMMA OwnsKept ==
    ASSUME TypeOK, NEW r \in Runs, NEW q \in Runs \ {r}, Owns(q),
           phase'[q] = phase[q], body'[q] = body[q], received'[q] = received[q],
           \A p \in Runs \ {r} : handle'[p] = handle[p] /\ attempt'[p] = attempt[p],
           handle'[r] = InTemp => handle[r] = InTemp /\ attempt'[r] = attempt[r],
           phase[q] \in Receiving => temp'[attempt[q]] = temp[attempt[q]]
    PROVE  Owns(q)'
BY DEF Owns

\* A process that is not receiving owns nothing.
LEMMA OwnsNothing == ASSUME NEW r \in Runs, phase'[r] \notin Receiving PROVE Owns(r)'
BY DEF Owns

LEMMA PartOwned ==
    ASSUME WholeInv, NEW r \in Runs, WritePart(r), ~shared
    PROVE  archives' = archives /\ \A q \in Runs : Owns(q)'
<1>1. TypeOK /\ HandlesAreOpen /\ \A q \in Runs : Owns(q)
  BY DEF WholeInv, DirectoryInv
<1>2. phase[r] = "receive" /\ received[r] < Last /\ received[r] \in 0 .. Last
  BY <1>1 DEF WritePart, HandlesAreOpen, TypeOK
<1>3. /\ handle[r] = InTemp
      /\ \A q \in Runs \ {r} : handle[q] = InTemp => attempt[q] # attempt[r]
      /\ \A k \in Parts : temp[attempt[r]][k] = IF k <= received[r] THEN body[r] ELSE 0
  BY <1>1, <1>2 DEF Owns, Receiving
<1>4. InTemp \notin 1 .. Garbage
  BY CacheAssumption DEF InTemp, Garbage
<1>5. archives' = archives
  BY <1>3, <1>4 DEF WritePart
<1>6. /\ temp' = [temp EXCEPT ![attempt[r]][received[r] + 1] = body[r]]
      /\ received' = [received EXCEPT ![r] = received[r] + 1]
      /\ phase' = IF received[r] + 1 = Last THEN [phase EXCEPT ![r] = "check"] ELSE phase
      /\ UNCHANGED <<attempt, body, handle>>
  BY <1>3 DEF WritePart
<1>7. Owns(r)'
  <2>1. temp[attempt[r]] \in File /\ attempt[r] \in Attempts
    BY <1>1, <1>3 DEF HandlesAreOpen, TypeOK
  <2>2. temp'[attempt[r]] = [temp[attempt[r]] EXCEPT ![received[r] + 1] = body[r]]
    BY <1>1, <1>6, <2>1 DEF TypeOK
  <2>3. received'[r] = received[r] + 1 /\ received[r] + 1 \in Parts
    BY <1>1, <1>2, <1>6 DEF TypeOK, Parts, Last
  <2>4. ASSUME NEW k \in Parts
        PROVE  temp'[attempt'[r]][k] = IF k <= received'[r] THEN body'[r] ELSE 0
    <3>1. DOMAIN temp[attempt[r]] = Parts
      BY <2>1 DEF File
    <3>2. CASE k = received[r] + 1
      BY <1>6, <2>2, <2>3, <3>1, <3>2 DEF Parts
    <3>3. CASE k # received[r] + 1
      <4>1. k <= received[r] + 1 <=> k <= received[r]
        BY <1>2, <3>3 DEF Parts, Last
      <4>2. temp'[attempt[r]][k] = temp[attempt[r]][k]
        BY <2>2, <3>1, <3>3
      <4> QED
        BY <1>3, <1>6, <2>3, <4>1, <4>2
    <3> QED
      BY <3>2, <3>3
  <2>5. phase'[r] # "receive" => received'[r] = Last
    BY <1>1, <1>2, <1>6, <2>3 DEF TypeOK
  <2>6. phase'[r] # "store"
    BY <1>1, <1>2, <1>6 DEF TypeOK
  <2> QED
    BY <1>3, <1>6, <2>4, <2>5, <2>6 DEF Owns
<1>8. ASSUME NEW q \in Runs \ {r} PROVE Owns(q)'
  <2>1. phase[q] \in Receiving => attempt[q] # attempt[r]
    BY <1>1, <1>3 DEF Owns
  <2>2. phase[q] \in Receiving => temp'[attempt[q]] = temp[attempt[q]]
    BY <1>1, <1>6, <2>1 DEF TypeOK
  <2>3. phase'[q] = phase[q] /\ body'[q] = body[q] /\ received'[q] = received[q]
    BY <1>1, <1>6 DEF TypeOK
  <2> QED
    BY <1>1, <1>6, <2>2, <2>3, OwnsKept
<1> QED
  BY <1>5, <1>7, <1>8

\* The check accepts what the process has written itself.
LEMMA AcceptOwned ==
    ASSUME WholeInv, NEW r \in Runs, Accept(r), ~shared
    PROVE  \A q \in Runs : Owns(q)'
<1>1. TypeOK /\ HandlesAreOpen /\ \A q \in Runs : Owns(q)
  BY DEF WholeInv, DirectoryInv
<1>2. /\ phase[r] = "check"
      /\ phase' = [phase EXCEPT ![r] = "store"]
      /\ IsZipFile(temp[attempt[r]])
      /\ UNCHANGED <<temp, attempt, body, handle, received>>
  BY DEF Accept, directory, request
<1>3. temp[attempt[r]][Last] = body[r]
  BY <1>1, <1>2 DEF Owns, Receiving, Last, Parts
<1>4. body[r] # Garbage
  BY <1>2, <1>3 DEF IsZipFile
<1>5. Owns(r)'
  BY <1>1, <1>2, <1>4 DEF Owns, Receiving, TypeOK
<1>6. ASSUME NEW q \in Runs \ {r} PROVE Owns(q)'
  BY <1>1, <1>2, <1>6, OwnsKept DEF TypeOK
<1> QED
  BY <1>5, <1>6

\* The temporary file of a process goes; nobody else has it open.
LEMMA MovedOwned ==
    ASSUME WholeInv, ~shared, NEW r \in Runs, NEW place,
           phase[r] \in Receiving, phase'[r] \notin Receiving,
           \A q \in Runs \ {r} : /\ phase'[q] = phase[q]
                                  /\ body'[q] = body[q]
                                  /\ received'[q] = received[q]
                                  /\ attempt'[q] = attempt[q],
           temp' = [temp EXCEPT ![attempt[r]] = NoFile],
           handle' = Closed(r, Moved(attempt[r], place))
    PROVE  \A q \in Runs : Owns(q)'
<1>1. TypeOK /\ \A q \in Runs : Owns(q)
  BY DEF WholeInv, DirectoryInv
<1>2. \A q \in Runs \ {r} : handle[q] = InTemp => attempt[q] # attempt[r]
  BY <1>1 DEF Owns
<1>3. handle'[r] = NotOpen /\ \A q \in Runs \ {r} : handle'[q] = handle[q]
  BY <1>1, <1>2 DEF Closed, Moved, TypeOK
<1>4. NotOpen # InTemp
  BY CacheAssumption DEF NotOpen, InTemp, Garbage
<1>5. ASSUME NEW q \in Runs \ {r} PROVE Owns(q)'
  <2>1. phase[q] \in Receiving => attempt[q] # attempt[r]
    BY <1>1, <1>2 DEF Owns
  <2>2. phase[q] \in Receiving => temp'[attempt[q]] = temp[attempt[q]]
    BY <1>1, <2>1 DEF TypeOK
  <2> QED
    BY <1>1, <1>3, <1>4, <1>5, <2>2, OwnsKept
<1> QED
  BY <1>5, OwnsNothing

\* A process that has no file, or closes it where it is.
LEMMA ClosedOwned ==
    ASSUME WholeInv, ~shared, NEW r \in Runs, phase'[r] \notin Receiving,
           \A q \in Runs \ {r} : /\ phase'[q] = phase[q]
                                  /\ body'[q] = body[q]
                                  /\ received'[q] = received[q]
                                  /\ attempt'[q] = attempt[q]
                                  /\ handle'[q] = handle[q],
           temp' = temp,
           handle'[r] = NotOpen
    PROVE  \A q \in Runs : Owns(q)'
<1>1. TypeOK /\ \A q \in Runs : Owns(q)
  BY DEF WholeInv, DirectoryInv
<1>2. NotOpen # InTemp
  BY CacheAssumption DEF NotOpen, InTemp, Garbage
<1>3. ASSUME NEW q \in Runs \ {r} PROVE Owns(q)'
  BY <1>1, <1>2, OwnsKept
<1> QED
  BY <1>3, OwnsNothing

LEMMA StoreOwned ==
    ASSUME WholeInv, NEW r \in Runs, Store(r), ~shared
    PROVE  StoredIsWhole' /\ \A q \in Runs : Owns(q)'
<1>1. TypeOK /\ HandlesAreOpen /\ StoredIsWhole /\ \A q \in Runs : Owns(q)
  BY DEF WholeInv, DirectoryInv
<1>2. /\ phase[r] = "store"
      /\ phase' = [phase EXCEPT ![r] = "name"]
      /\ UNCHANGED <<attempt, body, received, shared>>
      /\ temp' = [temp EXCEPT ![attempt[r]] = NoFile]
  BY DEF Store, Cleanup
<1>3. \E place : handle' = Closed(r, Moved(attempt[r], place))
  BY DEF Store, Cleanup
<1>4. \A q \in Runs : Owns(q)'
  <2>1. /\ phase[r] \in Receiving
        /\ phase'[r] \notin Receiving
        /\ \A q \in Runs \ {r} : phase'[q] = phase[q]
    BY <1>1, <1>2 DEF TypeOK, Receiving
  <2> QED
    BY <1>2, <1>3, <2>1, MovedOwned
<1>5. body[r] # Garbage /\ body[r] \in 1 .. Garbage
  BY <1>1, <1>2 DEF Owns, Receiving, HandlesAreOpen, TypeOK
<1>6. temp[attempt[r]] = Whole(body[r])
  <2>1. temp[attempt[r]] \in File
    BY <1>1 DEF Store, TypeOK
  <2>2. received[r] = Last
    BY <1>1, <1>2 DEF Owns, Receiving
  <2>3. \A k \in Parts : temp[attempt[r]][k] = body[r]
    BY <1>1, <1>2, <2>2 DEF Owns, Receiving, Parts, Last
  <2> QED
    BY <2>1, <2>3 DEF File, Whole
<1>7. archives' = IF archives[body[r]] # NoFile THEN archives
                  ELSE [archives EXCEPT ![body[r]] = temp[attempt[r]]]
  BY DEF Store
<1>8. StoredIsWhole'
  <2>1. Garbage \in 1 .. Garbage /\ Archives \subseteq 1 .. Garbage
    BY CacheAssumption DEF Garbage, Archives
  <2>2. \A a \in Archives : archives'[a] \in {NoFile, Whole(a)}
    BY <1>1, <1>5, <1>6, <1>7, <2>1 DEF StoredIsWhole, TypeOK
  <2>3. archives'[Garbage] = NoFile
    BY <1>1, <1>5, <1>7, <2>1 DEF StoredIsWhole, TypeOK
  <2> QED
    BY <2>2, <2>3 DEF StoredIsWhole
<1> QED
  BY <1>4, <1>8

LEMMA WholeNext ==
    ASSUME WholeInv, [Next]_vars, ~shared'
    PROVE  StoredIsWhole' /\ \A q \in Runs : Owns(q)'
<1>1. TypeOK /\ HandlesAreOpen /\ StoredIsWhole
  BY DEF WholeInv, DirectoryInv
<1>2. ASSUME ~shared, archives' = archives PROVE StoredIsWhole'
  BY <1>1, <1>2 DEF StoredIsWhole
<1>3. ASSUME ~shared, UNCHANGED <<phase, body, received, attempt, handle, temp>>
      PROVE  \A q \in Runs : Owns(q)'
  BY <1>3 DEF WholeInv, Owns
<1>4. CASE UNCHANGED vars
  BY <1>2, <1>3, <1>4 DEF vars, directory, request
<1>5. CASE Publish \/ TimePasses
  BY <1>2, <1>3, <1>5 DEF Publish, TimePasses, directory, request
<1>6. ASSUME NEW r \in Runs, handle[r] = NotOpen, handle' = handle, temp' = temp,
             ~shared, archives' = archives, phase[r] \in Phases,
             \E p \in Phases \ Receiving : phase' = [phase EXCEPT ![r] = p],
             \/ attempt' = attempt
             \/ \E n : attempt' = [attempt EXCEPT ![r] = n],
             body' = body \/ \E n : body' = [body EXCEPT ![r] = n],
             received' = received
      PROVE  StoredIsWhole' /\ \A q \in Runs : Owns(q)'
  <2>1. /\ phase'[r] \notin Receiving
        /\ \A q \in Runs \ {r} : /\ phase'[q] = phase[q] /\ attempt'[q] = attempt[q]
                                 /\ body'[q] = body[q]
    BY <1>1, <1>6 DEF TypeOK
  <2> QED
    BY <1>2, <1>6, <2>1, ClosedOwned
<1>7. ASSUME NEW r \in Runs, phase[r] \notin Receiving PROVE handle[r] = NotOpen
  BY <1>1, <1>7 DEF HandlesAreOpen
<1>8. ASSUME NEW r \in Runs, UseCached(r) \/ SendRequest(r)
      PROVE  StoredIsWhole' /\ \A q \in Runs : Owns(q)'
  <2>1. handle[r] = NotOpen
    BY <1>7, <1>8 DEF UseCached, SendRequest, MayBegin, Receiving
  <2> QED
    BY <1>1, <1>6, <1>8, <2>1
       DEF UseCached, SendRequest, Return, directory, request, TypeOK, Phases, Receiving
<1>9. ASSUME NEW r \in Runs, NotModified(r) \/ Confirm(r) \/ WriteManifest(r)
                                \/ RenameManifest(r)
      PROVE  StoredIsWhole' /\ \A q \in Runs : Owns(q)'
  <2>1. handle[r] = NotOpen
    BY <1>7, <1>9 DEF NotModified, Confirm, WriteManifest, RenameManifest, Receiving
  <2> QED
    BY <1>1, <1>6, <1>9, <2>1
       DEF NotModified, Confirm, WriteManifest, RenameManifest, Return, directory, request,
           TypeOK, Phases, Receiving
<1>10. ASSUME NEW r \in Runs, NEW b \in 1 .. Garbage, Receive(r, b)
       PROVE  StoredIsWhole' /\ \A q \in Runs : Owns(q)'
  BY <1>2, <1>10, ReceiveOwns DEF Receive
<1>11. ASSUME NEW r \in Runs, WritePart(r)
       PROVE  StoredIsWhole' /\ \A q \in Runs : Owns(q)'
  <2>1. ~shared
    BY <1>11 DEF WritePart
  <2> QED
    BY <1>2, <1>11, <2>1, PartOwned
<1>12. ASSUME NEW r \in Runs, Accept(r)
       PROVE  StoredIsWhole' /\ \A q \in Runs : Owns(q)'
  <2>1. ~shared /\ archives' = archives
    BY <1>12 DEF Accept, directory
  <2> QED
    BY <1>2, <1>12, <2>1, AcceptOwned
<1>13. ASSUME NEW r \in Runs, Store(r)
       PROVE  StoredIsWhole' /\ \A q \in Runs : Owns(q)'
  <2>1. ~shared
    BY <1>13 DEF Store
  <2> QED
    BY <1>13, <2>1, StoreOwned
<1>14. ASSUME NEW r \in Runs, Leave(r)
       PROVE  /\ ~shared
              /\ phase'[r] \notin Receiving
              /\ \A q \in Runs \ {r} : /\ phase'[q] = phase[q]
                                       /\ body'[q] = body[q]
                                       /\ received'[q] = received[q]
                                       /\ attempt'[q] = attempt[q]
  BY <1>1, <1>14 DEF Leave, TypeOK, Receiving
<1>15. ASSUME NEW r \in Runs, FileIsGone(r) \/ ManifestIsGone(r) \/ Release(r) \/ Crash(r)
       PROVE  StoredIsWhole' /\ \A q \in Runs : Owns(q)'
  <2>1. Leave(r) /\ handle' = Closed(r, handle) /\ temp' = temp /\ archives' = archives
    BY <1>15 DEF FileIsGone, ManifestIsGone, Release, Crash, directory
  <2>2. handle'[r] = NotOpen /\ \A q \in Runs \ {r} : handle'[q] = handle[q]
    BY <1>1, <2>1 DEF Closed, TypeOK
  <2> QED
    BY <1>2, <1>14, <2>1, <2>2, ClosedOwned
<1>16. ASSUME NEW r \in Runs, Reject(r)
       PROVE  StoredIsWhole' /\ \A q \in Runs : Owns(q)'
  <2>1. /\ Leave(r) /\ archives' = archives /\ phase[r] \in Receiving
        /\ temp' = [temp EXCEPT ![attempt[r]] = NoFile]
        /\ handle' = Closed(r, Moved(attempt[r], Unlinked))
    BY <1>16 DEF Reject, Cleanup, Receiving
  <2> QED
    BY <1>2, <1>14, <2>1, MovedOwned
<1>17. ASSUME NEW r \in Runs, AttemptFails(r)
       PROVE  StoredIsWhole' /\ \A q \in Runs : Owns(q)'
  <2>1. /\ ~shared
        /\ archives' = archives
        /\ phase'[r] \notin Receiving
        /\ \A q \in Runs \ {r} : /\ phase'[q] = phase[q]
                                 /\ body'[q] = body[q]
                                 /\ received'[q] = received[q]
                                 /\ attempt'[q] = attempt[q]
    <3>1. CASE attempt[r] = MaxRetries
      BY <1>14, <1>17, <3>1 DEF AttemptFails
    <3>2. CASE attempt[r] # MaxRetries
      <4>1. /\ attempt' = [attempt EXCEPT ![r] = @ + 1]
            /\ phase' = [phase EXCEPT ![r] = "request"]
            /\ UNCHANGED <<body, received, shared, archives>>
        BY <1>17, <3>2 DEF AttemptFails
      <4> QED
        BY <1>1, <4>1 DEF TypeOK, Receiving
    <3> QED
      BY <3>1, <3>2
  <2>2. CASE phase[r] = "receive"
    <3>1. /\ temp' = [temp EXCEPT ![attempt[r]] = NoFile]
          /\ handle' = Closed(r, Moved(attempt[r], Unlinked))
      BY <1>17, <2>2 DEF AttemptFails, Cleanup
    <3>2. phase[r] \in Receiving
      BY <2>2 DEF Receiving
    <3> QED
      BY <1>2, <2>1, <3>1, <3>2, MovedOwned
  <2>3. CASE phase[r] # "receive"
    <3>1. handle' = Closed(r, handle) /\ temp' = temp
      BY <1>17, <2>3 DEF AttemptFails
    <3>2. handle'[r] = NotOpen /\ \A q \in Runs \ {r} : handle'[q] = handle[q]
      BY <1>1, <3>1 DEF Closed, TypeOK
    <3> QED
      BY <1>2, <2>1, <3>1, <3>2, ClosedOwned
  <2> QED
    BY <2>2, <2>3
<1>18. ASSUME NEW r \in Runs, Modified(r) \/ ReceiveGarbage(r)
       PROVE  StoredIsWhole' /\ \A q \in Runs : Owns(q)'
  <2>1. \E b \in 1 .. Garbage : Receive(r, b)
    BY <1>1, <1>18, CacheAssumption DEF Modified, ReceiveGarbage, TypeOK, Archives, Garbage
  <2> QED
    BY <1>10, <2>1
<1> QED
  BY <1>4, <1>5, <1>8, <1>9, <1>11, <1>12, <1>13, <1>15, <1>16, <1>17, <1>18
     DEF Next, RunStep, Begin

LEMMA WholeInvariant == Spec => []WholeInv
<1>1. Init => WholeInv
  <2> SUFFICES ASSUME Init PROVE WholeInv
    OBVIOUS
  <2>1. DirectoryInv
    BY InitialDirectory
  <2>2. StoredIsWhole
    BY CacheAssumption DEF Init, StoredIsWhole, Archives, Garbage
  <2>3. \A r \in Runs : Owns(r)
    BY DEF Init, Owns, Receiving
  <2> QED
    BY <2>1, <2>2, <2>3 DEF WholeInv
<1>2. WholeInv /\ [Next]_vars => WholeInv'
  <2> SUFFICES ASSUME WholeInv, [Next]_vars PROVE WholeInv'
    OBVIOUS
  <2>1. DirectoryInv'
    BY TypeNext, NamesNext, HandlesNext DEF WholeInv, DirectoryInv
  <2>2. CASE ~shared'
    BY <2>1, <2>2, WholeNext DEF WholeInv
  <2>3. CASE shared'
    BY <2>1, <2>3 DEF WholeInv, StoredIsWhole
  <2> QED
    BY <2>2, <2>3
<1> QED
  BY <1>1, <1>2, PTL DEF Spec

\* A stored archive has the content its name says, whatever failed, was retried
\* or killed, unless two downloads have shared a temporary file.
THEOREM StoredWhole == Spec => []StoredIsWhole
<1>1. WholeInv => StoredIsWhole
  BY DEF WholeInv
<1> QED
  BY <1>1, WholeInvariant, PTL
--------------------------------------------------------------------------------
(* What the caller of the cache is handed.                                    *)

\* Nothing is newer than what is served, and a run that is done has an archive.
NothingNewer ==
    LET seen == (0 .. served) \cup {Garbage}
    IN  /\ manifest \in seen /\ manifest_tmp \in seen
        /\ \A r \in Runs :
             /\ etag[r] \in seen /\ body[r] \in seen /\ returned[r] \in seen
             /\ phase[r] = "ready" => returned[r] # 0

\* A run is handed an archive that SEC has served, never the page of an error.
HandedWasServed ==
    ~shared => \A r \in Runs : phase[r] = "ready" => returned[r] \in 1 .. served

LEMMA NewerNext == DirectoryInv /\ NothingNewer /\ [Next]_vars => NothingNewer'
<1> SUFFICES ASSUME DirectoryInv, NothingNewer, [Next]_vars PROVE NothingNewer'
  OBVIOUS
<1> DEFINE seen == (0 .. served) \cup {Garbage}
<1>1. /\ TypeOK /\ served \in Nat \ {0} /\ Garbage \in Nat
      /\ phase \in [Runs -> Phases] /\ etag \in [Runs -> 0 .. Garbage]
      /\ body \in [Runs -> 0 .. Garbage] /\ returned \in [Runs -> 0 .. Garbage]
  BY CacheAssumption DEF DirectoryInv, TypeOK, Archives, Garbage
<1>2. 0 \in seen /\ served \in seen /\ Garbage \in seen
  BY <1>1
<1>3. CASE UNCHANGED vars
  BY <1>3 DEF vars, directory, request, NothingNewer
<1>4. CASE Publish
  <2>1. \A a \in seen : a \in (0 .. served + 1) \cup {Garbage}
    BY <1>1
  <2> QED
    BY <1>4, <2>1 DEF Publish, directory, request, NothingNewer
<1>5. CASE TimePasses
  BY <1>5 DEF TimePasses, request, NothingNewer
<1>6. ASSUME NEW r \in Runs, Begin(r) PROVE NothingNewer'
  BY <1>1, <1>6 DEF Begin, UseCached, SendRequest, Return, Cached, directory, request, NothingNewer
<1>7. ASSUME NEW r \in Runs, NotModified(r) \/ Accept(r) PROVE NothingNewer'
  BY <1>1, <1>7 DEF NotModified, Accept, directory, request, NothingNewer
<1>8. ASSUME NEW r \in Runs, Confirm(r) PROVE NothingNewer'
  BY <1>1, <1>8 DEF Confirm, NothingNewer
<1>9. ASSUME NEW r \in Runs, WriteManifest(r) \/ RenameManifest(r) PROVE NothingNewer'
  <2>1. CASE WriteManifest(r)
    BY <1>1, <2>1 DEF WriteManifest, request, NothingNewer
  <2>2. CASE RenameManifest(r)
    <3>1. body[r] # 0
      BY <2>2 DEF RenameManifest, DirectoryInv, RequestsAreStored
    <3> QED
      BY <1>1, <2>2, <3>1 DEF RenameManifest, Return, request, NothingNewer
  <2> QED
    BY <1>9, <2>1, <2>2
<1>10. ASSUME NEW r \in Runs, Modified(r) \/ ReceiveGarbage(r) PROVE NothingNewer'
  BY <1>1, <1>2, <1>10 DEF Modified, ReceiveGarbage, Receive, NothingNewer
<1>11. ASSUME NEW r \in Runs, WritePart(r) \/ Store(r) PROVE NothingNewer'
  BY <1>1, <1>11 DEF WritePart, Store, NothingNewer
<1>12. ASSUME NEW r \in Runs, Leave(r), UNCHANGED <<manifest, manifest_tmp>>
       PROVE  NothingNewer'
  BY <1>1, <1>2, <1>12 DEF Leave, NothingNewer
<1>13. ASSUME NEW r \in Runs, Reject(r) \/ FileIsGone(r) \/ ManifestIsGone(r) \/ Release(r) \/ Crash(r)
       PROVE  NothingNewer'
  BY <1>12, <1>13 DEF Reject, FileIsGone, ManifestIsGone, Release, Crash, directory
<1>14. ASSUME NEW r \in Runs, AttemptFails(r) PROVE NothingNewer'
  <2>1. CASE attempt[r] = MaxRetries
    BY <1>12, <1>14, <2>1 DEF AttemptFails
  <2>2. CASE attempt[r] # MaxRetries
    BY <1>1, <1>14, <2>2 DEF AttemptFails, NothingNewer
  <2> QED
    BY <2>1, <2>2
<1> QED
  BY <1>3, <1>4, <1>5, <1>6, <1>7, <1>8, <1>9, <1>10, <1>11, <1>13, <1>14
     DEF Next, RunStep

\* Whatever failed, was retried or killed, a run is handed an archive that SEC
\* has served, unless two downloads have shared a temporary file.
THEOREM HandedServed == Spec => []HandedWasServed
<1>1. Init => NothingNewer
  BY DEF Init, NothingNewer
<1>2. WholeInv => DirectoryInv
  BY DEF WholeInv
<1>3. WholeInv /\ NothingNewer => HandedWasServed
  <2> SUFFICES ASSUME WholeInv, NothingNewer, ~shared, NEW r \in Runs, phase[r] = "ready"
               PROVE  returned[r] \in 1 .. served
    BY DEF HandedWasServed
  <2>1. returned[r] \in (0 .. served) \cup {Garbage} /\ returned[r] # 0
    BY DEF NothingNewer
  <2>2. archives[returned[r]] # NoFile
    BY <2>1 DEF WholeInv, DirectoryInv, NamedIsStored
  <2>3. returned[r] # Garbage
    BY <2>2 DEF WholeInv, StoredIsWhole
  <2>4. served \in Nat
    BY CacheAssumption DEF WholeInv, DirectoryInv, TypeOK, Archives
  <2> QED
    BY <2>1, <2>3, <2>4
<1> QED
  BY <1>1, <1>2, <1>3, NewerNext, WholeInvariant, PTL DEF Spec

\* At most one process is in the directory.
SoleInv == Alone /\ ~shared

LEMMA SoleNext == ~Overlap /\ DirectoryInv /\ SoleInv /\ [Next]_vars => SoleInv'
<1> SUFFICES ASSUME ~Overlap, DirectoryInv, SoleInv, [Next]_vars PROVE SoleInv'
  OBVIOUS
<1>1. DOMAIN phase = Runs
  BY DEF DirectoryInv, TypeOK
<1>2. ASSUME \A q \in Runs : phase[q] = "idle" => phase'[q] = "idle", UNCHANGED shared
      PROVE  SoleInv'
  BY <1>2 DEF SoleInv, Alone
<1>3. CASE UNCHANGED vars \/ Publish \/ TimePasses
  BY <1>2, <1>3 DEF vars, Publish, TimePasses
<1>4. ASSUME NEW r \in Runs, Begin(r) PROVE SoleInv'
  <2>1. \A q \in Runs : phase[q] = "idle"
    BY <1>4 DEF Begin, UseCached, SendRequest, MayBegin
  <2>2. (\A q \in Runs \ {r} : phase'[q] = phase[q]) /\ UNCHANGED shared
    BY <1>1, <1>4 DEF Begin, UseCached, SendRequest, Return
  <2> QED
    BY <2>1, <2>2 DEF SoleInv, Alone
<1>5. ASSUME NEW r \in Runs, NotModified(r) \/ Confirm(r) \/ WritePart(r) \/ Accept(r)
                                \/ Store(r) \/ WriteManifest(r) \/ RenameManifest(r)
      PROVE  SoleInv'
  BY <1>1, <1>2, <1>5 DEF NotModified, Confirm, WritePart, Accept, Store, WriteManifest,
     RenameManifest, Return
<1>6. ASSUME NEW r \in Runs, Reject(r) \/ FileIsGone(r) \/ ManifestIsGone(r) \/ Release(r) \/ Crash(r)
      PROVE  SoleInv'
  BY <1>1, <1>2, <1>6 DEF Reject, FileIsGone, ManifestIsGone, Release, Crash, Leave
<1>7. ASSUME NEW r \in Runs, AttemptFails(r) PROVE SoleInv'
  BY <1>1, <1>2, <1>7 DEF AttemptFails, Leave
<1>8. ASSUME NEW r \in Runs, Modified(r) \/ ReceiveGarbage(r) PROVE SoleInv'
  <2>1. PICK b : Receive(r, b)
    BY <1>8 DEF Modified, ReceiveGarbage
  <2>2. phase[r] = "request"
    BY <2>1 DEF Receive
  <2>3. \A q \in Runs \ {r} : phase[q] = "idle"
    BY <2>2 DEF SoleInv, Alone
  <2>4. \A q \in Runs \ {r} : handle[q] = NotOpen
    BY <2>3 DEF DirectoryInv, HandlesAreOpen, Receiving
  <2>5. NotOpen # InTemp
    BY CacheAssumption DEF NotOpen, InTemp, Garbage
  <2>6. ~shared'
    BY <2>1, <2>4, <2>5 DEF Receive, SoleInv
  <2>7. \A q \in Runs \ {r} : phase'[q] = "idle"
    BY <1>1, <2>1, <2>3 DEF Receive
  <2> QED
    BY <2>6, <2>7 DEF SoleInv, Alone
<1> QED
  BY <1>3, <1>4, <1>5, <1>6, <1>7, <1>8 DEF Next, RunStep

\* Processes that exclude each other when they begin do so to the end, and never
\* share a temporary file.
THEOREM NeverShared == ~Overlap /\ Spec => [](Alone /\ ~shared)
<1> SUFFICES ASSUME ~Overlap PROVE Spec => [](Alone /\ ~shared)
  OBVIOUS
<1>1. Init => SoleInv
  BY DEF Init, SoleInv, Alone
<1>2. DirectoryInv /\ SoleInv /\ [Next]_vars => SoleInv'
  BY SoleNext
<1>3. WholeInv => DirectoryInv
  BY DEF WholeInv
<1>4. SoleInv => Alone /\ ~shared
  BY DEF SoleInv
<1> QED
  BY <1>1, <1>2, <1>3, <1>4, WholeInvariant, PTL DEF Spec
================================================================================
