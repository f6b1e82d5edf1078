---------------------------- MODULE XbrlFactsProofs ----------------------------
(***************************************************************************)
(* Proofs about XbrlFacts, for any finite set of companies and any number  *)
(* of runs, documents, derivation versions and faults; and that the asset  *)
(* as a whole, XbrlPipeline, implements XbrlFacts and ArchiveCache.        *)
(***************************************************************************)
EXTENDS XbrlPipeline, FiniteSetTheorems, TLAPS

InProgress == {"next"} \cup InTransaction

\* A derivation row is committed with its outcome: nobody ever sees "running".
NoneRunning ==
    \A c \in Companies, p \in Payloads, v \in Versions : derivation[c][p][v] # "running"

\* What a transaction has read of its derivation is still worth acting on.
StatusIsUsable ==
    \A r \in Runs : phase[r] = "claim" =>
      /\ status[r] # "running"
      /\ status[r] = "succeeded" =>
           \A c \in member[r] : Content(snapshot[r][c], version[r]) \subseteq Stored(c)

\* A member with a result other than failed is stored.
DoneIsStored ==
    \A r \in Runs, c \in Companies :
      results[r][c] \in {"inserted", "already_succeeded"} =>
        Content(snapshot[r][c], version[r]) \subseteq Stored(c)

\* Members are in the archive, and every member is to do or has a result.
MembersAreHandled ==
    \A r \in Runs :
      /\ phase[r] # "idle" => run_status[r] = "running"
      /\ phase[r] = "idle" => todo[r] = {} /\ member[r] = {}
      /\ \A c \in Companies :
           /\ c \in todo[r] \cup member[r] => snapshot[r][c] # 0
           /\ phase[r] # "idle" /\ c \notin todo[r] \cup member[r] =>
                IF snapshot[r][c] = 0 THEN results[r][c] = "not_found"
                ELSE results[r][c] \in {"inserted", "already_succeeded", "failed"}

FactsInv ==
    /\ TypeOK
    /\ SucceededIsComplete
    /\ NoneRunning
    /\ StatusIsUsable
    /\ DoneIsStored
    /\ MembersAreHandled
    /\ SucceededRunIsComplete

--------------------------------------------------------------------------------
(* Helpers. *)

LEMMA MemberCount ==
    ASSUME NEW S
    PROVE  /\ \A c : S = {c} => Cardinality(S) = 1
           /\ S = {} => Cardinality(S) = 0
BY FS_EmptySet, FS_Singleton

\* A transaction has one member, and other phases none.
LEMMA OneMember ==
    ASSUME TypeOK, NEW r \in Runs
    PROVE  /\ phase[r] \in InTransaction => \E c \in Companies : member[r] = {c}
           /\ phase[r] \notin InTransaction => member[r] = {}
<1>1. member[r] \in SUBSET Companies /\ IsFiniteSet(member[r])
  BY XbrlAssumption, FS_Subset DEF TypeOK
<1>2. CASE phase[r] \in InTransaction
  <2>1. Cardinality(member[r]) = 1
    BY <1>2 DEF TypeOK
  <2>2. \E c : member[r] = {c}
    BY <1>1, <2>1, FS_Singleton
  <2> QED
    BY <1>1, <1>2, <2>2
<1>3. CASE phase[r] \notin InTransaction
  <2>1. Cardinality(member[r]) = 0
    BY <1>3 DEF TypeOK
  <2> QED
    BY <1>1, <1>3, <2>1, FS_EmptySet
<1> QED
  BY <1>2, <1>3

\* The insert keeps every row, and afterwards what was found is stored.
LEMMA InsertedKeeps ==
    ASSUME NEW rows \in [Facts -> 0 .. MaxPayload], NEW p \in Payloads, NEW v \in Versions
    PROVE  /\ Inserted(rows, p, v) \in [Facts -> 0 .. MaxPayload]
           /\ \A f \in Facts : rows[f] # 0 => Inserted(rows, p, v)[f] = rows[f]
           /\ \A f \in Content(p, v) : Inserted(rows, p, v)[f] # 0
           /\ \A f \in Facts : rows[f] = 0 /\ Inserted(rows, p, v)[f] # 0 =>
                f \in Content(p, v) /\ Inserted(rows, p, v)[f] = p
<1>1. p \in 0 .. MaxPayload /\ p # 0
  BY XbrlAssumption DEF Payloads
<1>2. Content(p, v) \subseteq Facts
  BY DEF Content
<1> QED
  BY <1>1, <1>2 DEF Inserted

--------------------------------------------------------------------------------
(* The steps of a transaction on the database. *)

\* What a step may do to the tables and to the member it ends.
LEMMA TypeEndMember ==
    ASSUME TypeOK, NEW r \in Runs, NEW c \in Companies, NEW result \in Results,
           EndMember(r, c, result), faults' \in 0 .. MaxFaults,
           raw' \in [Companies -> SUBSET Payloads],
           derivation' \in [Companies -> [Payloads -> [Versions ->
                              {None, "running", "succeeded", "failed"}]]],
           lineage' \in [Companies -> [Facts -> 0 .. MaxPayload]]
    PROVE  TypeOK'
<1>1. /\ phase' \in [Runs -> {"idle", "next"} \cup InTransaction]
      /\ member' \in [Runs -> SUBSET Companies]
      /\ status' \in [Runs -> {None, "running", "succeeded", "failed"}]
      /\ results' \in [Runs -> [Companies -> Results]]
  BY DEF TypeOK, EndMember
<1>2. registered' \in [Runs -> BOOLEAN]
  BY DEF TypeOK, EndMember
<1>3. ASSUME NEW q \in Runs
      PROVE  Cardinality(member'[q]) = IF phase'[q] \in InTransaction THEN 1 ELSE 0
  <2>1. CASE q = r
    <3>1. member'[q] = {} /\ phase'[q] = "next"
      BY <2>1 DEF TypeOK, EndMember
    <3> QED
      BY <3>1, MemberCount DEF InTransaction
  <2>2. CASE q # r
    BY <2>2 DEF TypeOK, EndMember
  <2> QED
    BY <2>1, <2>2
<1> QED
  BY <1>1, <1>2, <1>3 DEF TypeOK, EndMember, world

LEMMA TypeLeave ==
    ASSUME TypeOK, NEW r \in Runs, Leave(r), faults' \in 0 .. MaxFaults,
           run_status' \in [Runs -> {None, "running", "succeeded", "failed"}]
    PROVE  TypeOK'
<1>1. /\ phase' \in [Runs -> {"idle", "next"} \cup InTransaction]
      /\ member' \in [Runs -> SUBSET Companies]
      /\ todo' \in [Runs -> SUBSET Companies]
      /\ status' \in [Runs -> {None, "running", "succeeded", "failed"}]
  BY DEF TypeOK, Leave
<1>2. registered' \in [Runs -> BOOLEAN]
  BY DEF TypeOK, Leave
<1>3. ASSUME NEW q \in Runs
      PROVE  Cardinality(member'[q]) = IF phase'[q] \in InTransaction THEN 1 ELSE 0
  <2>1. CASE q = r
    <3>1. member'[q] = {} /\ phase'[q] = "idle"
      BY <2>1 DEF TypeOK, Leave
    <3> QED
      BY <3>1, MemberCount DEF InTransaction
  <2>2. CASE q # r
    BY <2>2 DEF TypeOK, Leave
  <2> QED
    BY <2>1, <2>2
<1> QED
  BY <1>1, <1>2, <1>3 DEF TypeOK, Leave, world, database

\* The document of a member in progress, and the status it has read.
LEMMA Document ==
    ASSUME TypeOK, MembersAreHandled, NEW r \in Runs, NEW c \in member[r]
    PROVE  c \in Companies /\ snapshot[r][c] \in Payloads /\ version[r] \in Versions
BY XbrlAssumption DEF TypeOK, MembersAreHandled, Payloads

LEMMA TypeNext == TypeOK /\ MembersAreHandled /\ [Next]_vars => TypeOK'
<1> SUFFICES ASSUME TypeOK, MembersAreHandled, [Next]_vars PROVE TypeOK'
  OBVIOUS
<1>1. CASE UNCHANGED vars
  BY <1>1 DEF TypeOK, vars, world, database, transaction
<1>2. CASE FilingsArrive
  BY <1>2 DEF TypeOK, FilingsArrive, database, transaction
<1>3. CASE RegistryGrows
  <2>1. registry' \in Versions
    BY <1>3, XbrlAssumption DEF TypeOK, RegistryGrows, Versions
  <2> QED
    BY <1>3, <2>1 DEF TypeOK, RegistryGrows, database, transaction
<1>4. ASSUME NEW r \in Runs, BeginRun(r) PROVE TypeOK'
  <2>1. PICK a \in [Companies -> 0 .. MaxPayload] : BeginRunWith(r, a)
    BY <1>4 DEF BeginRun
  <2>2. /\ snapshot' \in [Runs -> [Companies -> 0 .. MaxPayload]]
        /\ version' \in [Runs -> Versions]
    BY <2>1 DEF TypeOK, BeginRunWith
  <2>3. CASE OverHalf(Missing(a))
    <3>1. run_status' \in [Runs -> {None, "running", "succeeded", "failed"}]
      BY <2>1, <2>3 DEF TypeOK, BeginRunWith
    <3>2. results' \in [Runs -> [Companies -> Results]]
      <4>1. [c \in Companies |-> None] \in [Companies -> Results]
        BY DEF Results
      <4>2. results' = [results EXCEPT ![r] = [c \in Companies |-> None]]
        BY <2>1, <2>3 DEF BeginRunWith
      <4> QED
        BY <4>1, <4>2 DEF TypeOK
    <3>3. UNCHANGED <<phase, todo, archive, registry, raw, derivation, lineage,
                      member, registered, status, faults>>
      BY <2>1, <2>3 DEF BeginRunWith, world, database, transaction
    <3> QED
      BY <2>2, <3>1, <3>2, <3>3 DEF TypeOK
  <2>4. CASE ~OverHalf(Missing(a))
    <3>1. /\ run_status' \in [Runs -> {None, "running", "succeeded", "failed"}]
          /\ phase' = [phase EXCEPT ![r] = "next"]
      BY <2>1, <2>4 DEF TypeOK, BeginRunWith
    <3>2. todo' \in [Runs -> SUBSET Companies]
      <4>1. todo' = [todo EXCEPT ![r] = Companies \ Missing(a)]
        BY <2>1, <2>4 DEF BeginRunWith
      <4>2. Companies \ Missing(a) \in SUBSET Companies
        OBVIOUS
      <4> QED
        BY <4>1, <4>2 DEF TypeOK
    <3>3. results' \in [Runs -> [Companies -> Results]]
      <4> DEFINE found == [c \in Companies |-> IF a[c] = 0 THEN "not_found" ELSE None]
      <4>1. found \in [Companies -> Results]
        BY DEF Results
      <4>2. results' = [results EXCEPT ![r] = found]
        BY <2>1, <2>4 DEF BeginRunWith
      <4> HIDE DEF found
      <4> QED
        BY <4>1, <4>2 DEF TypeOK
    <3>4. UNCHANGED <<archive, registry, raw, derivation, lineage, member,
                      registered, status, faults>>
      BY <2>1, <2>4 DEF BeginRunWith, world, database, transaction
    <3>5. phase[r] = "idle"
      BY <2>1 DEF BeginRunWith
    <3>6. /\ phase' \in [Runs -> {"idle", "next"} \cup InTransaction]
          /\ \A q \in Runs : phase'[q] \in InTransaction <=> phase[q] \in InTransaction
      BY <3>1, <3>5 DEF TypeOK, InTransaction
    <3> QED
      BY <2>2, <3>1, <3>2, <3>3, <3>4, <3>6 DEF TypeOK
  <2> QED
    BY <2>3, <2>4
<1>5. ASSUME NEW r \in Runs, TakeMember(r) PROVE TypeOK'
  <2>1. PICK c \in todo[r] : /\ member' = [member EXCEPT ![r] = {c}]
                             /\ todo' = [todo EXCEPT ![r] = @ \ {c}]
    BY <1>5 DEF TakeMember
  <2>2. /\ phase' = [phase EXCEPT ![r] = "register"]
        /\ UNCHANGED <<archive, registry, raw, derivation, lineage, run_status,
                       snapshot, version, registered, status, results, faults>>
    BY <1>5 DEF TakeMember, world, database
  <2>3. ASSUME NEW q \in Runs
        PROVE  Cardinality(member'[q]) = IF phase'[q] \in InTransaction THEN 1 ELSE 0
    <3>1. CASE q = r
      <4>1. member'[q] = {c} /\ phase'[q] = "register"
        BY <2>1, <2>2, <3>1 DEF TypeOK
      <4> QED
        BY <4>1, MemberCount DEF InTransaction
    <3>2. CASE q # r
      BY <2>1, <2>2, <3>2 DEF TypeOK
    <3> QED
      BY <3>1, <3>2
  <2>4. /\ member' \in [Runs -> SUBSET Companies]
        /\ todo' \in [Runs -> SUBSET Companies]
        /\ phase' \in [Runs -> {"idle", "next"} \cup InTransaction]
    BY <2>1, <2>2 DEF TypeOK, InTransaction
  <2> QED
    BY <2>2, <2>3, <2>4 DEF TypeOK
<1>6. ASSUME NEW r \in Runs, NEW from \in InTransaction, NEW to \in InTransaction,
             phase[r] = from, phase' = [phase EXCEPT ![r] = to],
             registered' \in [Runs -> BOOLEAN],
             status' \in [Runs -> {None, "running", "succeeded", "failed"}],
             UNCHANGED <<world, database, run_status, snapshot, version, todo,
                         member, results, faults>>
      PROVE  TypeOK'
  <2>1. /\ phase' \in [Runs -> {"idle", "next"} \cup InTransaction]
        /\ \A q \in Runs : phase'[q] \in InTransaction <=> phase[q] \in InTransaction
    BY <1>6 DEF TypeOK
  <2> QED
    BY <1>6, <2>1 DEF TypeOK, world, database
<1>7. ASSUME NEW r \in Runs, Register(r) PROVE TypeOK'
  <2>1. PICK c \in Companies : member[r] = {c}
    BY <1>7, OneMember DEF Register, InTransaction
  <2>2. registered' \in [Runs -> BOOLEAN]
    BY <1>7, <2>1 DEF TypeOK, Register
  <2> QED
    BY <1>6, <1>7, <2>2 DEF Register, InTransaction, TypeOK
<1>8. ASSUME NEW r \in Runs, ReadStatus(r) PROVE TypeOK'
  <2>1. PICK c \in Companies : member[r] = {c}
    BY <1>8, OneMember DEF ReadStatus, InTransaction
  <2>2. snapshot[r][c] \in Payloads /\ version[r] \in Versions
    BY <2>1, Document
  <2>3. status' = [status EXCEPT ![r] = derivation[c][snapshot[r][c]][version[r]]]
    BY <1>8, <2>1 DEF ReadStatus
  <2>4. status' \in [Runs -> {None, "running", "succeeded", "failed"}]
    BY <2>2, <2>3 DEF TypeOK
  <2> QED
    BY <1>6, <1>8, <2>4 DEF ReadStatus, InTransaction, TypeOK
<1>9. ASSUME NEW r \in Runs, Claim(r) PROVE TypeOK'
  BY <1>6, <1>9 DEF Claim, InTransaction, TypeOK, transaction
<1>10. ASSUME NEW r \in Runs, SkipMember(r) PROVE TypeOK'
  <2>1. PICK c \in member[r] : CommitRegistration(r, c) /\ EndMember(r, c, "already_succeeded")
    BY <1>10 DEF SkipMember
  <2>2. c \in Companies /\ snapshot[r][c] \in Payloads
    BY Document
  <2>3. raw' \in [Companies -> SUBSET Payloads]
    BY <2>1, <2>2 DEF CommitRegistration, TypeOK
  <2>4. "already_succeeded" \in Results /\ UNCHANGED <<derivation, lineage, faults>>
    BY <1>10 DEF Results, SkipMember
  <2> QED
    BY <2>1, <2>2, <2>3, <2>4, TypeEndMember DEF TypeOK
<1>11. ASSUME NEW r \in Runs, ReadFails(r) \/ WriteFails(r) PROVE TypeOK'
  <2>1. PICK c \in member[r] : EndMember(r, c, "failed")
    BY <1>11 DEF ReadFails, WriteFails
  <2>2. c \in Companies
    BY Document
  <2>3. "failed" \in Results /\ UNCHANGED database /\ faults' \in 0 .. MaxFaults
    BY <1>11, XbrlAssumption DEF Results, ReadFails, WriteFails, TypeOK
  <2> QED
    BY <2>1, <2>2, <2>3, TypeEndMember DEF TypeOK, database
<1>12. ASSUME NEW r \in Runs, FlattenFails(r) PROVE TypeOK'
  <2>1. PICK c \in member[r] :
          /\ CommitRegistration(r, c)
          /\ derivation' = [derivation EXCEPT ![c][snapshot[r][c]][version[r]] = "failed"]
          /\ EndMember(r, c, "failed")
    BY <1>12 DEF FlattenFails
  <2>2. c \in Companies /\ snapshot[r][c] \in Payloads /\ version[r] \in Versions
    BY Document
  <2>3. /\ raw' \in [Companies -> SUBSET Payloads]
        /\ derivation' \in [Companies -> [Payloads -> [Versions ->
                              {None, "running", "succeeded", "failed"}]]]
    BY <2>1, <2>2 DEF CommitRegistration, TypeOK
  <2>4. "failed" \in Results /\ UNCHANGED lineage /\ faults' \in 0 .. MaxFaults
    BY <1>12, XbrlAssumption DEF Results, FlattenFails, TypeOK
  <2> QED
    BY <2>1, <2>2, <2>3, <2>4, TypeEndMember DEF TypeOK
<1>13. ASSUME NEW r \in Runs, WriteFacts(r) PROVE TypeOK'
  <2>1. PICK c \in member[r] :
          /\ CommitRegistration(r, c)
          /\ lineage' = [lineage EXCEPT ![c] = Inserted(@, snapshot[r][c], version[r])]
          /\ derivation' = [derivation EXCEPT ![c][snapshot[r][c]][version[r]] = "succeeded"]
          /\ EndMember(r, c, "inserted")
    BY <1>13 DEF WriteFacts
  <2>2. c \in Companies /\ snapshot[r][c] \in Payloads /\ version[r] \in Versions
    BY Document
  <2>3. /\ raw' \in [Companies -> SUBSET Payloads]
        /\ derivation' \in [Companies -> [Payloads -> [Versions ->
                              {None, "running", "succeeded", "failed"}]]]
    BY <2>1, <2>2 DEF CommitRegistration, TypeOK
  <2>4. lineage' \in [Companies -> [Facts -> 0 .. MaxPayload]]
    <3>1. Inserted(lineage[c], snapshot[r][c], version[r]) \in [Facts -> 0 .. MaxPayload]
      BY <2>2, InsertedKeeps DEF TypeOK
    <3> QED
      BY <2>1, <2>2, <3>1 DEF TypeOK
  <2>5. "inserted" \in Results /\ UNCHANGED faults
    BY <1>13 DEF Results, WriteFacts
  <2> QED
    BY <2>1, <2>2, <2>3, <2>4, <2>5, TypeEndMember DEF TypeOK
<1>14. ASSUME NEW r \in Runs, FinishRun(r) \/ RunFails(r) \/ Crash(r) PROVE TypeOK'
  <2>1. Leave(r) /\ faults' \in 0 .. MaxFaults
    BY <1>14, XbrlAssumption DEF FinishRun, RunFails, Crash, TypeOK
  <2>2. run_status' \in [Runs -> {None, "running", "succeeded", "failed"}]
    BY <1>14 DEF FinishRun, RunFails, Crash, TypeOK
  <2> QED
    BY <2>1, <2>2, TypeLeave
<1> QED
  BY <1>1, <1>2, <1>3, <1>4, <1>5, <1>7, <1>8, <1>9, <1>10, <1>11, <1>12, <1>13, <1>14
     DEF Next, RunStep, Fault

--------------------------------------------------------------------------------
(* What steps do to the rows and to the other runs. *)

\* A stored fact keeps its row: every insert is ON CONFLICT DO NOTHING.
LEMMA RowsStay ==
    ASSUME TypeOK, MembersAreHandled, [Next]_vars,
           NEW c \in Companies, NEW f \in Facts, lineage[c][f] # 0
    PROVE  lineage'[c][f] = lineage[c][f]
<1>1. ASSUME NEW r \in Runs, WriteFacts(r) PROVE lineage'[c][f] = lineage[c][f]
  <2>1. PICK d \in member[r] :
          lineage' = [lineage EXCEPT ![d] = Inserted(@, snapshot[r][d], version[r])]
    BY <1>1 DEF WriteFacts
  <2>2. d \in Companies /\ snapshot[r][d] \in Payloads /\ version[r] \in Versions
    BY Document
  <2>3. lineage[d] \in [Facts -> 0 .. MaxPayload]
    BY <2>2 DEF TypeOK
  <2>4. lineage[d][f] # 0 => Inserted(lineage[d], snapshot[r][d], version[r])[f] = lineage[d][f]
    BY <2>2, <2>3, InsertedKeeps
  <2> QED
    BY <2>1, <2>2, <2>4 DEF TypeOK
<1>2. CASE UNCHANGED vars
  BY <1>2 DEF vars, database
<1>3. CASE FilingsArrive \/ RegistryGrows
  BY <1>3 DEF FilingsArrive, RegistryGrows, database
<1>4. ASSUME NEW r \in Runs, BeginRun(r) PROVE lineage'[c][f] = lineage[c][f]
  BY <1>4 DEF BeginRun, BeginRunWith, database
<1>5. ASSUME NEW r \in Runs, RunStep(r) \/ Fault(r), ~WriteFacts(r)
      PROVE  lineage'[c][f] = lineage[c][f]
  BY <1>5 DEF RunStep, TakeMember, Register, ReadStatus, SkipMember, Claim, FinishRun,
              Fault, ReadFails, FlattenFails, WriteFails, RunFails, Crash, Leave, database
<1> QED
  BY <1>1, <1>2, <1>3, <1>4, <1>5 DEF Next

LEMMA StoredStays ==
    ASSUME TypeOK, MembersAreHandled, [Next]_vars, NEW c \in Companies
    PROVE  Stored(c) \subseteq Stored(c)'
<1> SUFFICES ASSUME NEW f \in Facts, lineage[c][f] # 0 PROVE lineage'[c][f] # 0
  BY DEF Stored
<1> QED
  BY RowsStay

\* The kinds of steps, and what each leaves alone.
Elsewhere == UNCHANGED <<phase, run_status, snapshot, version, todo, transaction, results>>

Advances(r) ==
    /\ phase[r] \in {"next", "register", "status", "claim"}
    /\ \E p \in InTransaction : phase' = [phase EXCEPT ![r] = p]
    /\ UNCHANGED <<database, run_status, snapshot, version, results>>
    /\ \A q \in Runs \ {r} : member'[q] = member[q] /\ todo'[q] = todo[q] /\ status'[q] = status[q]
    /\ todo'[r] \cup member'[r] = todo[r] \cup member[r]
    /\ phase'[r] = "claim" => ReadStatus(r)

Ends(r) ==
    /\ phase[r] \in InTransaction
    /\ \E c \in member[r], result \in {"inserted", "already_succeeded", "failed"} :
         /\ EndMember(r, c, result)
         /\ result = "inserted" => WriteFacts(r)
         /\ result = "already_succeeded" => SkipMember(r)

LEMMA Steps ==
    ASSUME TypeOK, [Next]_vars
    PROVE  \/ Elsewhere /\ UNCHANGED database
           \/ \E r \in Runs :
                \/ \E a \in [Companies -> 0 .. MaxPayload] : BeginRunWith(r, a)
                \/ Advances(r)
                \/ Ends(r)
                \/ Leave(r) /\ (FinishRun(r) \/ RunFails(r) \/ Crash(r))
<1>1. CASE UNCHANGED vars
  BY <1>1 DEF vars, Elsewhere
<1>2. CASE FilingsArrive \/ RegistryGrows
  BY <1>2 DEF FilingsArrive, RegistryGrows, Elsewhere
<1>3. ASSUME NEW r \in Runs, BeginRun(r)
      PROVE  \E a \in [Companies -> 0 .. MaxPayload] : BeginRunWith(r, a)
  BY <1>3 DEF BeginRun
<1>4. ASSUME NEW r \in Runs, TakeMember(r) PROVE Advances(r)
  <2>1. PICK c \in todo[r] : /\ member' = [member EXCEPT ![r] = {c}]
                             /\ todo' = [todo EXCEPT ![r] = @ \ {c}]
    BY <1>4 DEF TakeMember
  <2>2. phase[r] = "next" /\ phase' = [phase EXCEPT ![r] = "register"]
        /\ UNCHANGED <<database, run_status, snapshot, version, results, status>>
    BY <1>4 DEF TakeMember
  <2>3. member[r] = {}
    BY <2>2, OneMember DEF InTransaction
  <2>4. todo'[r] = todo[r] \ {c} /\ member'[r] = {c}
    BY <2>1 DEF TypeOK
  <2>5. todo'[r] \cup member'[r] = todo[r] \cup member[r]
    BY <2>3, <2>4
  <2>6. phase'[r] = "register"
    BY <2>2 DEF TypeOK
  <2>7. \A q \in Runs \ {r} : member'[q] = member[q] /\ todo'[q] = todo[q] /\ status'[q] = status[q]
    BY <2>1, <2>2 DEF TypeOK
  <2> QED
    BY <2>2, <2>5, <2>6, <2>7 DEF Advances, InTransaction
<1>5. ASSUME NEW r \in Runs, Register(r) \/ Claim(r) PROVE Advances(r)
  <2>1. /\ phase[r] \in {"register", "claim"}
        /\ \E p \in {"status", "write"} : phase' = [phase EXCEPT ![r] = p]
        /\ UNCHANGED <<database, run_status, snapshot, version, todo, member, status, results>>
    BY <1>5 DEF Register, Claim, transaction
  <2>2. phase'[r] # "claim"
    BY <2>1 DEF TypeOK
  <2> QED
    BY <2>1, <2>2 DEF Advances, InTransaction
<1>6. ASSUME NEW r \in Runs, ReadStatus(r) PROVE Advances(r)
  <2>1. PICK c \in Companies : member[r] = {c}
    BY <1>6, OneMember DEF ReadStatus, InTransaction
  <2>2. \A q \in Runs \ {r} : status'[q] = status[q]
    BY <1>6, <2>1 DEF ReadStatus, TypeOK
  <2> QED
    BY <1>6, <2>2 DEF Advances, ReadStatus, InTransaction
<1>7. ASSUME NEW r \in Runs, SkipMember(r) \/ WriteFacts(r) PROVE Ends(r)
  BY <1>7 DEF Ends, SkipMember, WriteFacts, InTransaction
<1>8. ASSUME NEW r \in Runs, ReadFails(r) \/ FlattenFails(r) \/ WriteFails(r) PROVE Ends(r)
  <2>1. phase[r] \in InTransaction /\ \E c \in member[r] : EndMember(r, c, "failed")
    BY <1>8 DEF ReadFails, FlattenFails, WriteFails, InTransaction
  <2> QED
    BY <2>1 DEF Ends
<1>9. ASSUME NEW r \in Runs, FinishRun(r) \/ RunFails(r) \/ Crash(r) PROVE Leave(r)
  BY <1>9 DEF FinishRun, RunFails, Crash
<1> QED
  BY <1>1, <1>2, <1>3, <1>4, <1>5, <1>6, <1>7, <1>8, <1>9 DEF Next, RunStep, Fault

\* The end of a member, for the run and for the others.
LEMMA Ending ==
    ASSUME TypeOK, NEW r \in Runs, NEW c \in Companies, member[r] = {c}, NEW result,
           EndMember(r, c, result)
    PROVE  /\ phase'[r] = "next" /\ member'[r] = {} /\ results'[r][c] = result
           /\ \A d \in Companies \ {c} : results'[r][d] = results[r][d]
           /\ \A q \in Runs \ {r} : /\ phase'[q] = phase[q]
                                  /\ member'[q] = member[q]
                                  /\ status'[q] = status[q]
                                  /\ results'[q] = results[q]
           /\ UNCHANGED <<run_status, snapshot, version, todo>>
BY DEF EndMember, TypeOK

LEMMA Leaving ==
    ASSUME TypeOK, NEW r \in Runs, Leave(r)
    PROVE  /\ phase'[r] = "idle" /\ member'[r] = {} /\ todo'[r] = {}
           /\ \A q \in Runs \ {r} : /\ phase'[q] = phase[q]
                                  /\ member'[q] = member[q]
                                  /\ todo'[q] = todo[q]
                                  /\ status'[q] = status[q]
           /\ UNCHANGED <<database, snapshot, version, results>>
BY DEF Leave, TypeOK

--------------------------------------------------------------------------------
(* What a succeeded derivation stands for. *)

\* The commit of a derivation commits its facts.
LEMMA WriteStores ==
    ASSUME TypeOK, MembersAreHandled, NEW r \in Runs, WriteFacts(r), NEW c \in member[r]
    PROVE  /\ Content(snapshot[r][c], version[r]) \subseteq Stored(c)'
           /\ derivation' = [derivation EXCEPT ![c][snapshot[r][c]][version[r]] = "succeeded"]
<1>1. c \in Companies /\ snapshot[r][c] \in Payloads /\ version[r] \in Versions
  BY Document
<1>2. member[r] = {c}
  BY OneMember DEF WriteFacts, InTransaction
<1>3. /\ lineage' = [lineage EXCEPT ![c] = Inserted(@, snapshot[r][c], version[r])]
      /\ derivation' = [derivation EXCEPT ![c][snapshot[r][c]][version[r]] = "succeeded"]
  BY <1>2 DEF WriteFacts
<1>4. lineage[c] \in [Facts -> 0 .. MaxPayload]
  BY <1>1 DEF TypeOK
<1>5. \A f \in Content(snapshot[r][c], version[r]) :
        Inserted(lineage[c], snapshot[r][c], version[r])[f] # 0
  BY <1>1, <1>4, InsertedKeeps
<1>6. lineage'[c] = Inserted(lineage[c], snapshot[r][c], version[r])
  BY <1>1, <1>3 DEF TypeOK
<1> QED
  BY <1>3, <1>5, <1>6 DEF Stored, Content

LEMMA Outcomes ==
    ASSUME TypeOK, MembersAreHandled, [Next]_vars,
           NEW c \in Companies, NEW p \in Payloads, NEW v \in Versions
    PROVE  \/ derivation'[c][p][v] = derivation[c][p][v]
           \/ derivation'[c][p][v] = "failed"
           \/ derivation'[c][p][v] = "succeeded" /\ Content(p, v) \subseteq Stored(c)'
<1> DEFINE Outcome == \/ derivation'[c][p][v] = derivation[c][p][v]
                      \/ derivation'[c][p][v] = "failed"
                      \/ derivation'[c][p][v] = "succeeded" /\ Content(p, v) \subseteq Stored(c)'
<1>1. ASSUME NEW r \in Runs, WriteFacts(r) PROVE Outcome
  <2>1. PICK d \in Companies : member[r] = {d}
    BY <1>1, OneMember DEF WriteFacts, InTransaction
  <2>2. snapshot[r][d] \in Payloads /\ version[r] \in Versions
    BY <2>1, Document
  <2>3. /\ derivation' = [derivation EXCEPT ![d][snapshot[r][d]][version[r]] = "succeeded"]
        /\ Content(snapshot[r][d], version[r]) \subseteq Stored(d)'
    BY <1>1, <2>1, WriteStores
  <2>4. CASE c = d /\ p = snapshot[r][d] /\ v = version[r]
    BY <2>2, <2>3, <2>4 DEF TypeOK
  <2>5. CASE ~(c = d /\ p = snapshot[r][d] /\ v = version[r])
    BY <2>2, <2>3, <2>5 DEF TypeOK
  <2> QED
    BY <2>4, <2>5
<1>2. ASSUME NEW r \in Runs, FlattenFails(r) PROVE Outcome
  <2>1. PICK d \in member[r] :
          derivation' = [derivation EXCEPT ![d][snapshot[r][d]][version[r]] = "failed"]
    BY <1>2 DEF FlattenFails
  <2>2. d \in Companies /\ snapshot[r][d] \in Payloads /\ version[r] \in Versions
    BY Document
  <2>3. CASE c = d /\ p = snapshot[r][d] /\ v = version[r]
    BY <2>1, <2>2, <2>3 DEF TypeOK
  <2>4. CASE ~(c = d /\ p = snapshot[r][d] /\ v = version[r])
    BY <2>1, <2>2, <2>4 DEF TypeOK
  <2> QED
    BY <2>3, <2>4
<1>3. CASE UNCHANGED vars
  BY <1>3 DEF vars, database
<1>4. CASE FilingsArrive \/ RegistryGrows
  BY <1>4 DEF FilingsArrive, RegistryGrows, database
<1>5. ASSUME NEW r \in Runs, BeginRun(r) PROVE Outcome
  BY <1>5 DEF BeginRun, BeginRunWith, database
<1>6. ASSUME NEW r \in Runs, RunStep(r) \/ Fault(r), ~WriteFacts(r), ~FlattenFails(r)
      PROVE  Outcome
  BY <1>6 DEF RunStep, TakeMember, Register, ReadStatus, SkipMember, Claim, FinishRun,
              Fault, ReadFails, WriteFails, RunFails, Crash, Leave, database
<1> QED
  BY <1>1, <1>2, <1>3, <1>4, <1>5, <1>6 DEF Next

LEMMA SucceededNext ==
    FactsInv /\ [Next]_vars => SucceededIsComplete' /\ NoneRunning'
<1> SUFFICES ASSUME FactsInv, [Next]_vars,
                    NEW c \in Companies, NEW p \in Payloads, NEW v \in Versions
             PROVE  /\ derivation'[c][p][v] = "succeeded" => Content(p, v) \subseteq Stored(c)'
                    /\ derivation'[c][p][v] # "running"
  BY DEF SucceededIsComplete, NoneRunning
<1>1. /\ derivation[c][p][v] # "running"
      /\ derivation[c][p][v] = "succeeded" => Content(p, v) \subseteq Stored(c)
  BY DEF FactsInv, SucceededIsComplete, NoneRunning
<1>2. Stored(c) \subseteq Stored(c)'
  BY StoredStays DEF FactsInv
<1> QED
  BY <1>1, <1>2, Outcomes DEF FactsInv

--------------------------------------------------------------------------------
(* What a run has read and done. *)

LEMMA StatusNext == FactsInv /\ [Next]_vars => StatusIsUsable'
<1> SUFFICES ASSUME FactsInv, [Next]_vars, NEW q \in Runs, phase'[q] = "claim"
             PROVE  /\ status'[q] # "running"
                    /\ status'[q] = "succeeded" =>
                         \A c \in member'[q] :
                           Content(snapshot'[q][c], version'[q]) \subseteq Stored(c)'
  BY DEF StatusIsUsable
<1>1. TypeOK /\ MembersAreHandled
  BY DEF FactsInv
<1>2. \A c \in Companies : Stored(c) \subseteq Stored(c)'
  BY <1>1, StoredStays
<1>3. member[q] \subseteq Companies
  BY <1>1 DEF TypeOK
<1>4. CASE /\ phase[q] = "claim" /\ status'[q] = status[q] /\ member'[q] = member[q]
           /\ snapshot'[q] = snapshot[q] /\ version'[q] = version[q]
  <2>1. /\ status[q] # "running"
        /\ status[q] = "succeeded" =>
             \A c \in member[q] : Content(snapshot[q][c], version[q]) \subseteq Stored(c)
    BY <1>4 DEF FactsInv, StatusIsUsable
  <2> QED
    BY <1>2, <1>3, <1>4, <2>1
<1>5. CASE ReadStatus(q)
  <2>1. PICK c \in Companies : member[q] = {c}
    BY <1>1, <1>5, OneMember DEF ReadStatus, InTransaction
  <2>2. snapshot[q][c] \in Payloads /\ version[q] \in Versions
    BY <1>1, <2>1, Document
  <2>3. status'[q] = derivation[c][snapshot[q][c]][version[q]]
    BY <1>1, <1>5, <2>1 DEF ReadStatus, TypeOK
  <2>4. UNCHANGED <<snapshot, version, member>>
    BY <1>5 DEF ReadStatus
  <2>5. /\ derivation[c][snapshot[q][c]][version[q]] # "running"
        /\ derivation[c][snapshot[q][c]][version[q]] = "succeeded" =>
             Content(snapshot[q][c], version[q]) \subseteq Stored(c)
    BY <2>2 DEF FactsInv, SucceededIsComplete, NoneRunning
  <2> QED
    BY <1>2, <2>1, <2>3, <2>4, <2>5
<1>6. CASE Elsewhere
  BY <1>4, <1>6 DEF Elsewhere, transaction
<1>7. ASSUME NEW r \in Runs, NEW a \in [Companies -> 0 .. MaxPayload], BeginRunWith(r, a)
      PROVE  /\ phase[q] = "claim" /\ status'[q] = status[q] /\ member'[q] = member[q]
             /\ snapshot'[q] = snapshot[q] /\ version'[q] = version[q]
  <2>1. q # r /\ phase[q] = "claim"
    BY <1>1, <1>7 DEF BeginRunWith, TypeOK
  <2> QED
    BY <1>1, <1>7, <2>1 DEF BeginRunWith, TypeOK, transaction
<1>8. ASSUME NEW r \in Runs, Advances(r), ~ReadStatus(q)
      PROVE  /\ phase[q] = "claim" /\ status'[q] = status[q] /\ member'[q] = member[q]
             /\ snapshot'[q] = snapshot[q] /\ version'[q] = version[q]
  <2>1. q # r
    BY <1>8 DEF Advances
  <2> QED
    BY <1>1, <1>8, <2>1 DEF Advances, TypeOK
<1>9. ASSUME NEW r \in Runs, Ends(r) \/ Leave(r)
      PROVE  /\ phase[q] = "claim" /\ status'[q] = status[q] /\ member'[q] = member[q]
             /\ snapshot'[q] = snapshot[q] /\ version'[q] = version[q]
  BY <1>1, <1>9 DEF Ends, EndMember, Leave, TypeOK
<1> QED
  BY <1>1, <1>4, <1>5, <1>6, <1>7, <1>8, <1>9, Steps

\* A result is given once, and what it stands for is in the database.
LEMMA DoneNext == FactsInv /\ [Next]_vars => DoneIsStored'
<1> SUFFICES ASSUME FactsInv, [Next]_vars, NEW q \in Runs, NEW c \in Companies,
                    results'[q][c] \in {"inserted", "already_succeeded"}
             PROVE  Content(snapshot'[q][c], version'[q]) \subseteq Stored(c)'
  BY DEF DoneIsStored
<1>1. TypeOK /\ MembersAreHandled
  BY DEF FactsInv
<1>2. Stored(c) \subseteq Stored(c)'
  BY <1>1, StoredStays
<1>3. results[q][c] \in {"inserted", "already_succeeded"} =>
        Content(snapshot[q][c], version[q]) \subseteq Stored(c)
  BY DEF FactsInv, DoneIsStored
<1>4. CASE /\ results'[q] = results[q]
           /\ snapshot'[q] = snapshot[q] /\ version'[q] = version[q]
  BY <1>2, <1>3, <1>4
<1>5. CASE Elsewhere
  BY <1>4, <1>5 DEF Elsewhere
<1>6. ASSUME NEW r \in Runs, NEW a \in [Companies -> 0 .. MaxPayload], BeginRunWith(r, a)
      PROVE  /\ results'[q] = results[q]
             /\ snapshot'[q] = snapshot[q] /\ version'[q] = version[q]
  <2>1. r # q
    <3>1. CASE r = q /\ OverHalf(Missing(a))
      BY <1>1, <1>6, <3>1 DEF BeginRunWith, TypeOK, None
    <3>2. CASE r = q /\ ~OverHalf(Missing(a))
      <4>1. results' = [results EXCEPT ![r] =
                          [d \in Companies |-> IF a[d] = 0 THEN "not_found" ELSE None]]
        BY <1>6, <3>2 DEF BeginRunWith
      <4>2. results'[q][c] \in {"not_found", None}
        BY <1>1, <3>2, <4>1 DEF TypeOK
      <4> QED
        BY <4>2 DEF None
    <3> QED
      BY <3>1, <3>2
  <2> QED
    BY <1>1, <1>6, <2>1 DEF BeginRunWith, TypeOK
<1>7. ASSUME NEW r \in Runs, Advances(r)
      PROVE  /\ results'[q] = results[q]
             /\ snapshot'[q] = snapshot[q] /\ version'[q] = version[q]
  BY <1>7 DEF Advances
<1>8. ASSUME NEW r \in Runs, Leave(r)
      PROVE  /\ results'[q] = results[q]
             /\ snapshot'[q] = snapshot[q] /\ version'[q] = version[q]
  BY <1>1, <1>8, Leaving
<1>9. ASSUME NEW r \in Runs, Ends(r)
      PROVE  Content(snapshot'[q][c], version'[q]) \subseteq Stored(c)'
  <2>1. PICK d \in member[r], result \in {"inserted", "already_succeeded", "failed"} :
          /\ EndMember(r, d, result)
          /\ result = "inserted" => WriteFacts(r)
          /\ result = "already_succeeded" => SkipMember(r)
    BY <1>9 DEF Ends
  <2>2. phase[r] \in InTransaction /\ d \in Companies /\ member[r] = {d}
    BY <1>1, <1>9, <2>1, OneMember DEF Ends
  <2>3. /\ results'[r][d] = result
        /\ \A e \in Companies \ {d} : results'[r][e] = results[r][e]
        /\ \A s \in Runs \ {r} : results'[s] = results[s]
        /\ UNCHANGED <<snapshot, version>>
    BY <1>1, <2>1, <2>2, Ending
  <2>4. CASE q # r \/ c # d
    BY <1>2, <1>3, <2>3, <2>4
  <2>5. CASE q = r /\ c = d /\ result = "inserted"
    BY <1>1, <2>1, <2>3, <2>5, WriteStores
  <2>6. CASE q = r /\ c = d /\ result = "already_succeeded"
    <3>1. phase[r] = "claim" /\ status[r] \in {"succeeded", "running"}
      BY <2>1, <2>6 DEF SkipMember, Refused
    <3>2. Content(snapshot[r][d], version[r]) \subseteq Stored(d)
      BY <2>1, <3>1 DEF FactsInv, StatusIsUsable
    <3> QED
      BY <1>2, <2>3, <2>6, <3>2
  <2> QED
    BY <2>3, <2>4, <2>5, <2>6
<1> QED
  BY <1>1, <1>4, <1>5, <1>6, <1>7, <1>8, <1>9, Steps

\* No member is lost between the list, the transaction and the results.
LEMMA HandledNext == FactsInv /\ [Next]_vars => MembersAreHandled'
<1> SUFFICES ASSUME FactsInv, [Next]_vars, NEW q \in Runs
             PROVE  /\ phase'[q] # "idle" => run_status'[q] = "running"
                    /\ phase'[q] = "idle" => todo'[q] = {} /\ member'[q] = {}
                    /\ \A c \in Companies :
                         /\ c \in todo'[q] \cup member'[q] => snapshot'[q][c] # 0
                         /\ phase'[q] # "idle" /\ c \notin todo'[q] \cup member'[q] =>
                              IF snapshot'[q][c] = 0 THEN results'[q][c] = "not_found"
                              ELSE results'[q][c] \in {"inserted", "already_succeeded", "failed"}
  BY DEF MembersAreHandled
<1> DEFINE Goal == /\ phase'[q] # "idle" => run_status'[q] = "running"
                   /\ phase'[q] = "idle" => todo'[q] = {} /\ member'[q] = {}
                   /\ \A c \in Companies :
                        /\ c \in todo'[q] \cup member'[q] => snapshot'[q][c] # 0
                        /\ phase'[q] # "idle" /\ c \notin todo'[q] \cup member'[q] =>
                             IF snapshot'[q][c] = 0 THEN results'[q][c] = "not_found"
                             ELSE results'[q][c] \in {"inserted", "already_succeeded", "failed"}
<1>1. TypeOK /\ MembersAreHandled
  BY DEF FactsInv
<1>2. /\ phase[q] # "idle" => run_status[q] = "running"
      /\ phase[q] = "idle" => todo[q] = {} /\ member[q] = {}
      /\ \A c \in Companies :
           /\ c \in todo[q] \cup member[q] => snapshot[q][c] # 0
           /\ phase[q] # "idle" /\ c \notin todo[q] \cup member[q] =>
                IF snapshot[q][c] = 0 THEN results[q][c] = "not_found"
                ELSE results[q][c] \in {"inserted", "already_succeeded", "failed"}
  BY DEF FactsInv, MembersAreHandled
<1>3. CASE /\ phase'[q] = phase[q] /\ run_status'[q] = run_status[q]
           /\ todo'[q] = todo[q] /\ member'[q] = member[q]
           /\ snapshot'[q] = snapshot[q] /\ results'[q] = results[q]
  BY <1>2, <1>3
<1>4. CASE Elsewhere
  BY <1>3, <1>4 DEF Elsewhere, transaction
<1>5. ASSUME NEW r \in Runs, NEW a \in [Companies -> 0 .. MaxPayload], BeginRunWith(r, a)
      PROVE  Goal
  <2>1. CASE r # q
    BY <1>1, <1>3, <1>5, <2>1 DEF BeginRunWith, TypeOK, transaction
  <2>2. CASE r = q /\ OverHalf(Missing(a))
    <3>1. phase'[q] = "idle" /\ todo'[q] = todo[q] /\ member'[q] = member[q]
      BY <1>5, <2>2 DEF BeginRunWith, transaction
    <3> QED
      BY <1>2, <3>1, <1>5, <2>2 DEF BeginRunWith
  <2>3. CASE r = q /\ ~OverHalf(Missing(a))
    <3>1. /\ phase[q] = "idle" /\ member'[q] = member[q]
          /\ phase'[q] = "next" /\ run_status'[q] = "running"
          /\ todo'[q] = Companies \ Missing(a) /\ snapshot'[q] = a
      BY <1>1, <1>5, <2>3 DEF BeginRunWith, TypeOK, transaction
    <3>2. \A c \in Companies : a[c] = 0 => results'[q][c] = "not_found"
      BY <1>1, <1>5, <2>3 DEF BeginRunWith, TypeOK
    <3> QED
      BY <1>2, <3>1, <3>2 DEF Missing
  <2> QED
    BY <2>1, <2>2, <2>3
<1>6. ASSUME NEW r \in Runs, Advances(r) PROVE Goal
  <2>1. CASE r # q
    BY <1>1, <1>3, <1>6, <2>1 DEF Advances, TypeOK
  <2>2. CASE r = q
    <3>1. phase[q] # "idle" /\ phase'[q] # "idle"
      BY <1>1, <1>6, <2>2 DEF Advances, TypeOK, InTransaction
    <3>2. /\ todo'[q] \cup member'[q] = todo[q] \cup member[q]
          /\ UNCHANGED <<run_status, snapshot, results>>
      BY <1>6, <2>2 DEF Advances
    <3> QED
      BY <1>2, <3>1, <3>2
  <2> QED
    BY <2>1, <2>2
<1>7. ASSUME NEW r \in Runs, Ends(r) PROVE Goal
  <2>1. PICK d \in member[r], result \in {"inserted", "already_succeeded", "failed"} :
          EndMember(r, d, result)
    BY <1>7 DEF Ends
  <2>2. phase[r] \in InTransaction /\ d \in Companies /\ member[r] = {d}
    BY <1>1, <1>7, <2>1, OneMember DEF Ends
  <2>3. /\ phase'[r] = "next" /\ member'[r] = {} /\ results'[r][d] = result
        /\ \A e \in Companies \ {d} : results'[r][e] = results[r][e]
        /\ \A s \in Runs \ {r} : /\ phase'[s] = phase[s]
                               /\ member'[s] = member[s]
                               /\ results'[s] = results[s]
        /\ UNCHANGED <<run_status, snapshot, version, todo>>
    BY <1>1, <2>1, <2>2, Ending
  <2>4. CASE r # q
    BY <1>3, <2>3, <2>4
  <2>5. CASE r = q
    <3>1. phase[q] # "idle" /\ snapshot[q][d] # 0
      BY <1>2, <2>2, <2>5 DEF InTransaction
    <3>2. run_status'[q] = "running" /\ phase'[q] = "next" /\ member'[q] = {}
      BY <1>2, <2>3, <2>5, <3>1
    <3>3. ASSUME NEW c \in Companies, c \in todo'[q] \cup member'[q]
          PROVE  snapshot'[q][c] # 0
      BY <1>2, <2>3, <2>5, <3>3
    <3>4. ASSUME NEW c \in Companies, c \notin todo'[q]
          PROVE  IF snapshot'[q][c] = 0 THEN results'[q][c] = "not_found"
                 ELSE results'[q][c] \in {"inserted", "already_succeeded", "failed"}
      <4>1. CASE c = d
        BY <2>3, <2>5, <3>1, <4>1
      <4>2. CASE c # d
        BY <1>2, <2>2, <2>3, <2>5, <3>1, <3>4, <4>2
      <4> QED
        BY <4>1, <4>2
    <3> QED
      BY <3>2, <3>3, <3>4
  <2> QED
    BY <2>4, <2>5
<1>8. ASSUME NEW r \in Runs, Leave(r), FinishRun(r) \/ RunFails(r) \/ Crash(r)
      PROVE  Goal
  <2>1. /\ phase'[r] = "idle" /\ member'[r] = {} /\ todo'[r] = {}
        /\ \A s \in Runs \ {r} : /\ phase'[s] = phase[s]
                               /\ member'[s] = member[s]
                               /\ todo'[s] = todo[s]
        /\ UNCHANGED <<snapshot, results>>
    BY <1>1, <1>8, Leaving
  <2>2. r # q => run_status'[q] = run_status[q]
    BY <1>1, <1>8 DEF FinishRun, RunFails, Crash, TypeOK
  <2>3. CASE r # q
    BY <1>3, <2>1, <2>2, <2>3
  <2>4. CASE r = q
    BY <2>1, <2>4
  <2> QED
    BY <2>3, <2>4
<1> QED
  BY <1>1, <1>4, <1>5, <1>6, <1>7, <1>8, Steps

LEMMA RunCompleteNext == FactsInv /\ [Next]_vars => SucceededRunIsComplete'
<1> SUFFICES ASSUME FactsInv, [Next]_vars, NEW q \in Runs, run_status'[q] = "succeeded"
             PROVE  /\ ~OverHalf(Failed(q)')
                    /\ \A c \in Companies \ Failed(q)' :
                         IF snapshot'[q][c] = 0 THEN results'[q][c] = "not_found"
                         ELSE Content(snapshot'[q][c], version'[q]) \subseteq Stored(c)'
  BY DEF SucceededRunIsComplete, OverHalf
<1>1. TypeOK /\ MembersAreHandled /\ DoneIsStored
  BY DEF FactsInv
<1>2. \A c \in Companies : Stored(c) \subseteq Stored(c)'
  BY <1>1, StoredStays
<1>3. CASE /\ run_status'[q] = run_status[q] /\ snapshot'[q] = snapshot[q]
           /\ version'[q] = version[q] /\ results'[q] = results[q]
  <2>1. Failed(q)' = Failed(q)
    BY <1>3 DEF Failed
  <2>2. /\ ~OverHalf(Failed(q))
        /\ \A c \in Companies \ Failed(q) :
             IF snapshot[q][c] = 0 THEN results[q][c] = "not_found"
             ELSE Content(snapshot[q][c], version[q]) \subseteq Stored(c)
    BY <1>3 DEF FactsInv, SucceededRunIsComplete
  <2> QED
    BY <1>2, <1>3, <2>1, <2>2
<1>4. CASE Elsewhere
  BY <1>3, <1>4 DEF Elsewhere
<1>5. ASSUME NEW r \in Runs, NEW a \in [Companies -> 0 .. MaxPayload], BeginRunWith(r, a)
      PROVE  /\ run_status'[q] = run_status[q] /\ snapshot'[q] = snapshot[q]
             /\ version'[q] = version[q] /\ results'[q] = results[q]
  <2>1. r # q
    BY <1>1, <1>5 DEF BeginRunWith, TypeOK
  <2> QED
    BY <1>1, <1>5, <2>1 DEF BeginRunWith, TypeOK
<1>6. ASSUME NEW r \in Runs, Advances(r)
      PROVE  /\ run_status'[q] = run_status[q] /\ snapshot'[q] = snapshot[q]
             /\ version'[q] = version[q] /\ results'[q] = results[q]
  BY <1>6 DEF Advances
<1>7. ASSUME NEW r \in Runs, Ends(r)
      PROVE  /\ run_status'[q] = run_status[q] /\ snapshot'[q] = snapshot[q]
             /\ version'[q] = version[q] /\ results'[q] = results[q]
  <2>1. \E d \in member[r] : \E result : EndMember(r, d, result)
    BY <1>7 DEF Ends
  <2>2. phase[r] \in InTransaction /\ UNCHANGED <<run_status, snapshot, version>>
    BY <1>7, <2>1 DEF Ends, EndMember
  <2>3. r # q
    BY <1>1, <2>2 DEF MembersAreHandled, InTransaction
  <2> QED
    BY <1>1, <2>1, <2>2, <2>3 DEF EndMember, TypeOK
<1>8. ASSUME NEW r \in Runs, Leave(r), RunFails(r) \/ Crash(r) \/ (FinishRun(r) /\ r # q)
      PROVE  /\ run_status'[q] = run_status[q] /\ snapshot'[q] = snapshot[q]
             /\ version'[q] = version[q] /\ results'[q] = results[q]
  BY <1>1, <1>8 DEF RunFails, Crash, FinishRun, Leave, TypeOK
<1>9. CASE FinishRun(q)
  <2>1. /\ phase[q] = "next" /\ todo[q] = {} /\ Leave(q)
        /\ run_status' = [run_status EXCEPT ![q] =
                            IF OverHalf(Failed(q)) THEN "failed" ELSE "succeeded"]
    BY <1>9 DEF FinishRun
  <2>2. ~OverHalf(Failed(q))
    BY <1>1, <2>1 DEF TypeOK
  <2>3. UNCHANGED <<snapshot, version, results>>
    BY <2>1 DEF Leave
  <2>4. Failed(q)' = Failed(q)
    BY <2>3 DEF Failed
  <2>5. member[q] = {}
    BY <1>1, <2>1, OneMember DEF InTransaction
  <2>6. \A c \in Companies : IF snapshot[q][c] = 0 THEN results[q][c] = "not_found"
                             ELSE results[q][c] \in {"inserted", "already_succeeded", "failed"}
    BY <1>1, <2>1, <2>5 DEF MembersAreHandled
  <2>7. \A c \in Companies \ Failed(q) :
          IF snapshot[q][c] = 0 THEN results[q][c] = "not_found"
          ELSE Content(snapshot[q][c], version[q]) \subseteq Stored(c)
    BY <1>1, <2>6 DEF DoneIsStored, Failed
  <2> QED
    BY <1>2, <2>2, <2>3, <2>4, <2>7
<1> QED
  BY <1>1, <1>3, <1>4, <1>5, <1>6, <1>7, <1>8, <1>9, Steps

--------------------------------------------------------------------------------
(* The theorems. *)

LEMMA FactsInit == Init => FactsInv
<1> SUFFICES ASSUME Init PROVE FactsInv
  OBVIOUS
<1>1. TypeOK
  <2>1. \A r \in Runs : member[r] = {} /\ phase[r] = "idle"
    BY DEF Init
  <2>2. \A r \in Runs : Cardinality(member[r]) = IF phase[r] \in InTransaction THEN 1 ELSE 0
    BY <2>1, MemberCount DEF InTransaction
  <2>3. /\ 1 \in Versions /\ 0 \in 0 .. MaxPayload /\ 0 \in 0 .. MaxFaults
    BY XbrlAssumption DEF Versions
  <2> QED
    BY <2>2, <2>3 DEF Init, TypeOK, Results
<1>2. SucceededIsComplete /\ NoneRunning
  BY DEF Init, SucceededIsComplete, NoneRunning, None
<1>3. StatusIsUsable /\ DoneIsStored /\ MembersAreHandled /\ SucceededRunIsComplete
  BY DEF Init, StatusIsUsable, DoneIsStored, MembersAreHandled, SucceededRunIsComplete, None
<1> QED
  BY <1>1, <1>2, <1>3 DEF FactsInv

LEMMA FactsInvariant == Spec => []FactsInv
<1>1. FactsInv /\ [Next]_vars => FactsInv'
  BY TypeNext, SucceededNext, StatusNext, DoneNext, HandledNext, RunCompleteNext DEF FactsInv
<1> QED
  BY FactsInit, <1>1, PTL DEF Spec

\* The variables keep their types, and a run works on one member at a time.
THEOREM TypeCorrect == Spec => []TypeOK
<1>1. FactsInv => TypeOK
  BY DEF FactsInv
<1> QED
  BY FactsInvariant, <1>1, PTL

\* However runs overlap, fail or crash, a derivation that is marked succeeded has
\* all its facts stored: claim, facts and outcome are one transaction.
THEOREM SucceededComplete == Spec => []SucceededIsComplete
<1>1. FactsInv => SucceededIsComplete
  BY DEF FactsInv
<1> QED
  BY FactsInvariant, <1>1, PTL

\* A member is reported as already done only if its facts are stored, although the
\* status was read in one statement and acted on in a later one.
THEOREM SkippedStored == Spec => []SkippedIsStored
<1>1. FactsInv => SkippedIsStored
  BY DEF FactsInv, DoneIsStored, SkippedIsStored
<1> QED
  BY FactsInvariant, <1>1, PTL

\* A run marked succeeded has stored every document but those it reports failed.
THEOREM RunComplete == Spec => []SucceededRunIsComplete
<1>1. FactsInv => SucceededRunIsComplete
  BY DEF FactsInv
<1> QED
  BY FactsInvariant, <1>1, PTL

\* No run takes a fact away or attributes it to another document.
THEOREM FactsFinal == Spec => FactsAreFinal
<1>1. FactsInv /\ [Next]_vars =>
        [\A c \in Companies, f \in Facts :
           lineage[c][f] # 0 => lineage'[c][f] = lineage[c][f]]_vars
  BY RowsStay DEF FactsInv
<1> QED
  BY FactsInvariant, <1>1, PTL DEF Spec, FactsAreFinal

--------------------------------------------------------------------------------
(* One run at a time.                                                      *)

\* The asset is not being materialised twice at once.
Alone == \A r, q \in Runs : phase[r] # "idle" /\ phase[q] # "idle" => r = q

\* The status a transaction acts on is the status in the table.
StatusIsCurrent ==
    \A r \in Runs : phase[r] \in {"claim", "write"} =>
      /\ phase[r] = "write" => ~Refused(status[r])
      /\ \A c \in member[r] : status[r] = derivation[c][snapshot[r][c]][version[r]]

AloneInv == FactsInv /\ StatusIsCurrent /\ LineageIsDerived

\* A step of one run leaves the phase of the others alone, and only a run that
\* begins was idle.
LEMMA PhaseElsewhere ==
    ASSUME TypeOK, NEW r \in Runs, BeginRun(r) \/ RunStep(r) \/ Fault(r)
    PROVE  /\ \A q \in Runs \ {r} : phase'[q] = phase[q]
           /\ phase[r] = "idle" <=> BeginRun(r)
<1>1. DOMAIN phase = Runs
  BY DEF TypeOK
<1>2. CASE BeginRun(r)
  BY <1>1, <1>2 DEF BeginRun, BeginRunWith
<1>3. CASE RunStep(r) /\ ~BeginRun(r)
  BY <1>1, <1>3 DEF RunStep, TakeMember, Register, ReadStatus, SkipMember, Claim, WriteFacts,
                    FinishRun, EndMember, Leave
<1>4. CASE Fault(r) /\ ~BeginRun(r)
  BY <1>1, <1>4 DEF Fault, ReadFails, FlattenFails, WriteFails, RunFails, Crash, EndMember, Leave
<1> QED
  BY <1>2, <1>3, <1>4

LEMMA StatusCurrentNext == Alone /\ Alone' /\ AloneInv /\ [Next]_vars => StatusIsCurrent'
<1> SUFFICES ASSUME Alone, Alone', AloneInv, [Next]_vars,
                    NEW q \in Runs, phase'[q] \in {"claim", "write"}
             PROVE  /\ phase'[q] = "write" => ~Refused(status'[q])
                    /\ \A c \in member'[q] :
                         status'[q] = derivation'[c][snapshot'[q][c]][version'[q]]
  BY DEF StatusIsCurrent, Refused
<1>1. TypeOK /\ MembersAreHandled /\ StatusIsCurrent
  BY DEF AloneInv, FactsInv
<1>2. CASE Elsewhere /\ UNCHANGED database
  BY <1>1, <1>2 DEF StatusIsCurrent, Elsewhere, transaction, database
<1>3. CASE ReadStatus(q)
  <2>1. PICK c \in Companies : member[q] = {c}
    BY <1>1, <1>3, OneMember DEF ReadStatus, InTransaction
  <2>2. /\ status'[q] = derivation[c][snapshot[q][c]][version[q]] /\ phase'[q] = "claim"
        /\ UNCHANGED <<derivation, snapshot, version, member>>
    BY <1>1, <1>3, <2>1 DEF ReadStatus, TypeOK, database
  <2> QED
    BY <2>1, <2>2
<1>4. CASE Claim(q)
  <2>1. /\ phase[q] = "claim" /\ ~Refused(status[q])
        /\ UNCHANGED <<derivation, snapshot, version, member, status>>
    BY <1>4 DEF Claim, transaction, database
  <2> QED
    BY <1>1, <2>1 DEF StatusIsCurrent
<1>5. ASSUME RunStep(q) \/ Fault(q) PROVE ReadStatus(q) \/ Claim(q)
  <2>1. ASSUME TakeMember(q) \/ Register(q) PROVE FALSE
    BY <1>1, <2>1 DEF TakeMember, Register, TypeOK
  <2>2. ASSUME SkipMember(q) \/ WriteFacts(q) \/ FinishRun(q) \/ Fault(q) PROVE FALSE
    <3>1. phase' = [phase EXCEPT ![q] = "next"] \/ phase' = [phase EXCEPT ![q] = "idle"]
      BY <2>2 DEF SkipMember, WriteFacts, FinishRun, Fault, ReadFails, FlattenFails,
                  WriteFails, RunFails, Crash, EndMember, Leave
    <3> QED
      BY <1>1, <3>1 DEF TypeOK
  <2> QED
    BY <1>5, <2>1, <2>2 DEF RunStep
<1>6. ASSUME BeginRun(q) PROVE FALSE
  BY <1>1, <1>6 DEF BeginRun, BeginRunWith, TypeOK
<1>7. ASSUME NEW r \in Runs \ {q}, RunStep(r) \/ Fault(r) PROVE FALSE
  <2>1. phase[q] # "idle" /\ (phase[r] = "idle" <=> BeginRun(r))
    BY <1>1, <1>7, PhaseElsewhere
  <2>2. phase[r] = "idle"
    BY <2>1 DEF Alone
  <2> QED
    BY <1>7, <2>2 DEF RunStep, TakeMember, Register, ReadStatus, SkipMember, Claim, WriteFacts,
       FinishRun, Fault, ReadFails, FlattenFails, WriteFails, RunFails, Crash
\* Another run only begins if it ends at once.
<1>8. ASSUME NEW r \in Runs \ {q}, BeginRun(r)
      PROVE  /\ phase'[q] = "write" => ~Refused(status'[q])
             /\ \A c \in member'[q] :
                  status'[q] = derivation'[c][snapshot'[q][c]][version'[q]]
  <2>1. phase'[q] = phase[q]
    BY <1>1, <1>8, PhaseElsewhere
  <2>2. /\ snapshot'[q] = snapshot[q] /\ version'[q] = version[q]
        /\ UNCHANGED <<derivation, member, status>>
    BY <1>1, <1>8 DEF BeginRun, BeginRunWith, TypeOK, database, transaction
  <2> QED
    BY <1>1, <2>1, <2>2 DEF StatusIsCurrent
<1>9. CASE UNCHANGED vars
  BY <1>2, <1>9 DEF vars, Elsewhere
<1>10. CASE FilingsArrive \/ RegistryGrows
  BY <1>2, <1>10 DEF FilingsArrive, RegistryGrows, Elsewhere
<1> QED
  BY <1>3, <1>4, <1>5, <1>6, <1>7, <1>8, <1>9, <1>10 DEF Next

\* A failure is recorded over a derivation that has not succeeded.
LEMMA SucceededStays ==
    ASSUME AloneInv, [Next]_vars,
           NEW c \in Companies, NEW p \in Payloads, NEW v \in Versions,
           derivation[c][p][v] = "succeeded"
    PROVE  derivation'[c][p][v] = "succeeded"
<1>1. TypeOK /\ MembersAreHandled /\ StatusIsCurrent
  BY DEF AloneInv, FactsInv
<1>2. ASSUME NEW r \in Runs, FlattenFails(r) PROVE derivation'[c][p][v] = "succeeded"
  <2>1. PICK d \in member[r] :
          derivation' = [derivation EXCEPT ![d][snapshot[r][d]][version[r]] = "failed"]
    BY <1>2 DEF FlattenFails
  <2>2. d \in Companies /\ snapshot[r][d] \in Payloads /\ version[r] \in Versions
    BY <1>1, Document
  <2>3. derivation[d][snapshot[r][d]][version[r]] # "succeeded"
    BY <1>1, <1>2 DEF StatusIsCurrent, FlattenFails, Refused
  <2> QED
    BY <1>1, <2>1, <2>2, <2>3 DEF TypeOK
<1>3. ASSUME NEW r \in Runs, WriteFacts(r) PROVE derivation'[c][p][v] = "succeeded"
  <2>1. PICK d \in member[r] :
          derivation' = [derivation EXCEPT ![d][snapshot[r][d]][version[r]] = "succeeded"]
    BY <1>3 DEF WriteFacts
  <2>2. d \in Companies /\ snapshot[r][d] \in Payloads /\ version[r] \in Versions
    BY <1>1, Document
  <2> QED
    BY <1>1, <2>1, <2>2 DEF TypeOK
<1>4. CASE UNCHANGED vars
  BY <1>4 DEF vars, database
<1>5. CASE FilingsArrive \/ RegistryGrows
  BY <1>5 DEF FilingsArrive, RegistryGrows, database
<1>6. ASSUME NEW r \in Runs, BeginRun(r) PROVE derivation'[c][p][v] = "succeeded"
  BY <1>6 DEF BeginRun, BeginRunWith, database
<1>7. ASSUME NEW r \in Runs, RunStep(r) \/ Fault(r), ~WriteFacts(r), ~FlattenFails(r)
      PROVE  derivation'[c][p][v] = "succeeded"
  BY <1>7 DEF RunStep, TakeMember, Register, ReadStatus, SkipMember, Claim, FinishRun,
              Fault, ReadFails, WriteFails, RunFails, Crash, Leave, database
<1> QED
  BY <1>2, <1>3, <1>4, <1>5, <1>6, <1>7 DEF Next

\* A registered document stays registered.
LEMMA RawStays ==
    ASSUME TypeOK, [Next]_vars, NEW c \in Companies
    PROVE  raw[c] \subseteq raw'[c]
<1>1. ASSUME NEW r \in Runs, NEW d, CommitRegistration(r, d) PROVE raw[c] \subseteq raw'[c]
  BY <1>1 DEF CommitRegistration, TypeOK
<1>2. CASE UNCHANGED raw
  BY <1>2
<1>3. \/ UNCHANGED raw
      \/ \E r \in Runs, d \in Companies : CommitRegistration(r, d)
  <2>1. CASE UNCHANGED vars \/ FilingsArrive \/ RegistryGrows
    BY <2>1 DEF vars, FilingsArrive, RegistryGrows, database
  <2>2. ASSUME NEW r \in Runs, BeginRun(r) PROVE UNCHANGED raw
    BY <2>2 DEF BeginRun, BeginRunWith, database
  <2>3. ASSUME NEW r \in Runs, RunStep(r) \/ Fault(r)
        PROVE  UNCHANGED raw \/ \E d \in Companies : CommitRegistration(r, d)
    <3>1. member[r] \subseteq Companies
      BY DEF TypeOK
    <3> QED
      BY <2>3, <3>1 DEF RunStep, TakeMember, Register, ReadStatus, SkipMember, Claim,
              WriteFacts, FinishRun, Fault, ReadFails, FlattenFails, WriteFails, RunFails,
              Crash, Leave, database
  <2> QED
    BY <2>1, <2>2, <2>3 DEF Next
<1> QED
  BY <1>1, <1>2, <1>3

\* A fact that appears was written by the run that derives its document.
LEMMA LineageNext == AloneInv /\ [Next]_vars => LineageIsDerived'
<1> SUFFICES ASSUME AloneInv, [Next]_vars, NEW c \in Companies, NEW f \in Facts,
                    lineage'[c][f] # 0
             PROVE  /\ lineage'[c][f] \in raw'[c]
                    /\ \E v \in Versions : /\ f \in Content(lineage'[c][f], v)
                                           /\ derivation'[c][lineage'[c][f]][v] = "succeeded"
  BY DEF LineageIsDerived, Stored
<1>1. TypeOK /\ MembersAreHandled /\ LineageIsDerived
  BY DEF AloneInv, FactsInv
<1>2. CASE lineage[c][f] # 0
  <2>1. lineage'[c][f] = lineage[c][f]
    BY <1>1, <1>2, RowsStay
  <2>2. f \in Stored(c)
    BY <1>2 DEF Stored
  <2>3. PICK v \in Versions : /\ f \in Content(lineage[c][f], v)
                              /\ derivation[c][lineage[c][f]][v] = "succeeded"
    BY <1>1, <2>2 DEF LineageIsDerived
  <2>4. lineage[c][f] \in raw[c] /\ lineage[c][f] \in Payloads
    BY <1>1, <2>2 DEF LineageIsDerived, TypeOK
  <2>5. derivation'[c][lineage[c][f]][v] = "succeeded"
    BY <2>3, <2>4, SucceededStays
  <2>6. lineage[c][f] \in raw'[c]
    BY <1>1, <2>4, RawStays
  <2> QED
    BY <2>1, <2>3, <2>5, <2>6
<1>3. ASSUME NEW r \in Runs, WriteFacts(r), lineage[c][f] = 0
      PROVE  /\ lineage'[c][f] \in raw'[c]
             /\ \E v \in Versions : /\ f \in Content(lineage'[c][f], v)
                                    /\ derivation'[c][lineage'[c][f]][v] = "succeeded"
  <2>1. PICK d \in member[r] :
          /\ raw' = [raw EXCEPT ![d] = @ \cup {snapshot[r][d]}]
          /\ lineage' = [lineage EXCEPT ![d] = Inserted(@, snapshot[r][d], version[r])]
          /\ derivation' = [derivation EXCEPT ![d][snapshot[r][d]][version[r]] = "succeeded"]
    BY <1>3 DEF WriteFacts, CommitRegistration
  <2>2. d \in Companies /\ snapshot[r][d] \in Payloads /\ version[r] \in Versions
    BY <1>1, Document
  <2>3. c = d
    BY <1>1, <1>3, <2>1, <2>2 DEF TypeOK
  <2>4. lineage[d] \in [Facts -> 0 .. MaxPayload] /\ lineage'[d] = Inserted(lineage[d], snapshot[r][d], version[r])
    BY <1>1, <2>1, <2>2 DEF TypeOK
  <2>5. f \in Content(snapshot[r][d], version[r]) /\ lineage'[c][f] = snapshot[r][d]
    BY <1>3, <2>2, <2>3, <2>4, InsertedKeeps
  <2>6. /\ snapshot[r][d] \in raw'[d]
        /\ derivation'[d][snapshot[r][d]][version[r]] = "succeeded"
    BY <1>1, <2>1, <2>2 DEF TypeOK
  <2> QED
    BY <2>2, <2>3, <2>5, <2>6
<1>4. CASE ~\E r \in Runs : WriteFacts(r)
  <2>1. CASE UNCHANGED vars \/ FilingsArrive \/ RegistryGrows
    BY <1>2, <2>1 DEF vars, FilingsArrive, RegistryGrows, database
  <2>2. ASSUME NEW r \in Runs, BeginRun(r) PROVE UNCHANGED lineage
    BY <2>2 DEF BeginRun, BeginRunWith, database
  <2>3. ASSUME NEW r \in Runs, RunStep(r) \/ Fault(r) PROVE UNCHANGED lineage
    BY <1>4, <2>3 DEF RunStep, TakeMember, Register, ReadStatus, SkipMember, Claim, FinishRun,
              Fault, ReadFails, FlattenFails, WriteFails, RunFails, Crash, Leave, database
  <2>4. UNCHANGED lineage \/ UNCHANGED vars \/ FilingsArrive \/ RegistryGrows
    BY <2>2, <2>3 DEF Next
  <2> QED
    BY <1>2, <2>1, <2>4
<1> QED
  BY <1>2, <1>3, <1>4

LEMMA AloneInvariant == Spec /\ []Alone => []AloneInv
<1>1. Init => AloneInv
  <2>1. Init => StatusIsCurrent
    BY DEF Init, StatusIsCurrent
  <2>2. Init => LineageIsDerived
    BY DEF Init, LineageIsDerived, Stored
  <2> QED
    BY <2>1, <2>2, FactsInit DEF AloneInv
<1>2. Alone /\ Alone' /\ AloneInv /\ [Next]_vars => AloneInv'
  <2>1. FactsInv /\ [Next]_vars => FactsInv'
    BY TypeNext, SucceededNext, StatusNext, DoneNext, HandledNext, RunCompleteNext DEF FactsInv
  <2> QED
    BY <2>1, StatusCurrentNext, LineageNext DEF AloneInv
<1> QED
  BY <1>1, <1>2, PTL DEF Spec

\* While runs do not overlap, every stored fact is attributed to a registered
\* document that has it and whose derivation is marked succeeded.
THEOREM LineageDerived == Spec /\ []Alone => []LineageIsDerived
<1>1. AloneInv => LineageIsDerived
  BY DEF AloneInv
<1> QED
  BY <1>1, AloneInvariant, PTL

\* While runs do not overlap, a derivation that succeeded is never claimed again
\* nor marked failed.  (Two runs that both read "failed" can do it.)
THEOREM SucceededFinal == Spec /\ []Alone => SucceededIsFinal
<1>1. AloneInv /\ [Next]_vars =>
        [\A c \in Companies, p \in Payloads, v \in Versions :
           derivation[c][p][v] = "succeeded" => derivation'[c][p][v] = "succeeded"]_vars
  BY SucceededStays
<1> QED
  BY <1>1, AloneInvariant, PTL DEF Spec, SucceededIsFinal

--------------------------------------------------------------------------------
(* The asset as a whole: the pipeline implements both of its parts.           *)

CacheProofs == INSTANCE ArchiveCacheProofs WITH
                 phase <- fetch, faults <- failures, MaxFaults <- MaxFailures

\* The cache of the pipeline is the one the proofs are about: both names expand
\* to the same formula.
LEMMA SameCache == Cache!Spec <=> CacheProofs!Spec
BY DEF Cache!Archives, CacheProofs!Archives, Cache!Parts, CacheProofs!Parts,
       Cache!Last, CacheProofs!Last, Cache!Garbage, CacheProofs!Garbage,
       Cache!NoFile, CacheProofs!NoFile, Cache!Empty, CacheProofs!Empty,
       Cache!directory, CacheProofs!directory, Cache!request, CacheProofs!request,
       Cache!vars, CacheProofs!vars, Cache!Attempts, CacheProofs!Attempts,
       Cache!NotOpen, CacheProofs!NotOpen, Cache!InTemp, CacheProofs!InTemp,
       Cache!Unlinked, CacheProofs!Unlinked, Cache!Init, CacheProofs!Init,
       Cache!Publish, CacheProofs!Publish, Cache!TimePasses, CacheProofs!TimePasses,
       Cache!IsZipFile, CacheProofs!IsZipFile, Cache!Cached, CacheProofs!Cached,
       Cache!Return, CacheProofs!Return, Cache!MayBegin, CacheProofs!MayBegin,
       Cache!UseCached, CacheProofs!UseCached, Cache!SendRequest,
       CacheProofs!SendRequest, Cache!NotModified, CacheProofs!NotModified,
       Cache!Confirm, CacheProofs!Confirm, Cache!Receive, CacheProofs!Receive,
       Cache!Modified, CacheProofs!Modified, Cache!WritePart, CacheProofs!WritePart,
       Cache!Moved, CacheProofs!Moved, Cache!Closed, CacheProofs!Closed,
       Cache!Cleanup, CacheProofs!Cleanup, Cache!Leave, CacheProofs!Leave,
       Cache!Accept, CacheProofs!Accept, Cache!Reject, CacheProofs!Reject,
       Cache!Store, CacheProofs!Store, Cache!FileIsGone, CacheProofs!FileIsGone,
       Cache!WriteManifest, CacheProofs!WriteManifest, Cache!RenameManifest,
       CacheProofs!RenameManifest, Cache!ManifestIsGone, CacheProofs!ManifestIsGone, Cache!Release,
       CacheProofs!Release, Cache!Fault, CacheProofs!Fault, Cache!ReceiveGarbage,
       CacheProofs!ReceiveGarbage, Cache!AttemptFails, CacheProofs!AttemptFails,
       Cache!Crash, CacheProofs!Crash, Cache!RunStep, CacheProofs!RunStep,
       Cache!Begin, CacheProofs!Begin, Cache!Next, CacheProofs!Next, Cache!Spec,
       CacheProofs!Spec

LEMMA CacheHolds == CacheProofs!CacheAssumption
BY PipelineAssumption DEF CacheProofs!CacheAssumption

\* Whatever the ingestion does is nothing or a release to the cache.
LEMMA CacheSteps ==
    ASSUME [PipelineNext]_pipeline PROVE [Cache!Next]_(Cache!vars)
<1>1. UNCHANGED cache => UNCHANGED Cache!vars
  BY DEF cache, Cache!vars, Cache!directory, Cache!request
<1>2. CASE UNCHANGED pipeline
  BY <1>1, <1>2 DEF pipeline, cache
<1>3. CASE PublishArchive
  BY <1>3 DEF PublishArchive, Cache!Next
<1>4. CASE Cache!TimePasses /\ UNCHANGED vars
  BY <1>4 DEF Cache!Next
<1>5. CASE RegistryGrows /\ UNCHANGED cache
  BY <1>1, <1>5
<1>6. ASSUME NEW r \in Runs, FetchStep(r) \/ FetchFails(r)
      PROVE  Cache!Next
  BY <1>6 DEF FetchStep, FetchFails, Cache!Next
<1>7. ASSUME NEW r \in Runs, Ingest(r) \/ IngestStep(r)
      PROVE  Cache!Next \/ UNCHANGED cache
  BY <1>7 DEF Ingest, IngestStep, Cache!Next
<1> QED
  BY <1>1, <1>2, <1>3, <1>4, <1>5, <1>6, <1>7 DEF PipelineNext

\* The pipeline's cache is an archive cache, with everything proved of it.
THEOREM PipelineCaches == PipelineSpec => Cache!Spec
<1>1. PipelineInit => Cache!Init
  BY DEF PipelineInit
<1>2. [PipelineNext]_pipeline => [Cache!Next]_(Cache!vars)
  BY CacheSteps
<1> QED
  BY <1>1, <1>2, PTL DEF PipelineSpec, Cache!Spec

\* What the cache promises a caller while runs do not overlap.
HandsOver ==
    /\ served \in 1 .. MaxArchive
    /\ \A r \in Runs : fetch[r] = "ready" => returned[r] \in 1 .. served
    /\ \A r, q \in Runs : fetch[r] # "idle" /\ fetch[q] # "idle" => r = q
    /\ DOMAIN fetch = Runs

LEMMA CacheHandsOver == ~Overlap /\ PipelineSpec => []HandsOver
<1> SUFFICES ASSUME ~Overlap PROVE PipelineSpec => []HandsOver
  OBVIOUS
<1>1. CacheProofs!Spec => []CacheProofs!TypeOK
  BY CacheHolds, CacheProofs!TypeCorrect, PTL
     DEF CacheProofs!TypeCorrect, CacheProofs!CacheAssumption
<1>2. CacheProofs!Spec => []CacheProofs!HandedWasServed
  BY CacheHolds, CacheProofs!HandedServed, PTL
     DEF CacheProofs!HandedServed, CacheProofs!CacheAssumption
<1>3. CacheProofs!Spec => [](CacheProofs!Alone /\ ~shared)
  BY CacheHolds, CacheProofs!NeverShared, PTL
     DEF CacheProofs!NeverShared, CacheProofs!CacheAssumption
<1>4. /\ CacheProofs!TypeOK /\ CacheProofs!HandedWasServed
      /\ CacheProofs!Alone /\ ~shared
      => HandsOver
  BY DEF CacheProofs!TypeOK, CacheProofs!Archives, CacheProofs!HandedWasServed,
         CacheProofs!Alone, HandsOver
<1> QED
  BY <1>1, <1>2, <1>3, <1>4, SameCache, PipelineCaches, PTL

\* What is on the server is the archive that was published last.
Published == archive = Documents[served]

LEMMA ServedStays ==
    ASSUME NEW r \in Runs,
           \/ Cache!Begin(r) \/ Cache!RunStep(r) \/ Cache!Release(r)
           \/ Cache!ReceiveGarbage(r) \/ Cache!AttemptFails(r) \/ Cache!Crash(r)
    PROVE  served' = served
BY DEF Cache!Begin, Cache!UseCached, Cache!SendRequest, Cache!RunStep, Cache!NotModified,
       Cache!Confirm, Cache!Modified, Cache!WritePart, Cache!Accept, Cache!Reject,
       Cache!Store, Cache!FileIsGone, Cache!WriteManifest, Cache!RenameManifest, Cache!ManifestIsGone,
       Cache!Release, Cache!ReceiveGarbage, Cache!Receive, Cache!AttemptFails, Cache!Crash,
       Cache!Leave

LEMMA ArchiveStays ==
    ASSUME NEW r \in Runs, RunStep(r) \/ Fault(r) PROVE archive' = archive
BY DEF RunStep, Fault, TakeMember, Register, ReadStatus, SkipMember, Claim, WriteFacts,
       FinishRun, ReadFails, FlattenFails, WriteFails, RunFails, Crash, EndMember, Leave, world

LEMMA PublishedNext == Published /\ [PipelineNext]_pipeline => Published'
<1> SUFFICES ASSUME Published, [PipelineNext]_pipeline PROVE Published'
  OBVIOUS
<1>1. ASSUME UNCHANGED <<archive, served>> PROVE Published'
  BY <1>1 DEF Published
<1>2. CASE UNCHANGED pipeline
  BY <1>1, <1>2 DEF pipeline, vars, world, cache
<1>3. CASE PublishArchive
  BY <1>3 DEF PublishArchive, Published
<1>4. CASE Cache!TimePasses /\ UNCHANGED vars
  BY <1>1, <1>4 DEF Cache!TimePasses, vars, world
<1>5. CASE RegistryGrows /\ UNCHANGED cache
  BY <1>1, <1>5 DEF RegistryGrows, cache
<1>6. ASSUME NEW r \in Runs, FetchStep(r) \/ FetchFails(r) PROVE UNCHANGED <<archive, served>>
  BY <1>6, ServedStays DEF FetchStep, FetchFails, vars, world
<1>7. ASSUME NEW r \in Runs, Ingest(r) \/ IngestStep(r) PROVE UNCHANGED <<archive, served>>
  <2>1. archive' = archive
    BY <1>7, ArchiveStays DEF Ingest, IngestStep, BeginRunWith, world
  <2>2. Cache!Release(r) \/ UNCHANGED cache
    BY <1>7 DEF Ingest, IngestStep
  <2> QED
    BY <2>1, <2>2, ServedStays DEF cache
<1> QED
  BY <1>1, <1>2, <1>3, <1>4, <1>5, <1>6, <1>7 DEF PipelineNext

\* Each step of the pipeline is one of the ingestion or none.
LEMMA IngestionSteps ==
    ASSUME HandsOver, HandsOver', Published, [PipelineNext]_pipeline PROVE [Next]_vars
<1>1. \A a \in 1 .. MaxArchive : Documents[a] \in [Companies -> 0 .. MaxPayload]
  BY PipelineAssumption
<1>2. CASE UNCHANGED pipeline
  BY <1>2 DEF pipeline
<1>3. CASE PublishArchive
  <2>1. served' = served + 1 /\ archive' = Documents[served + 1]
    BY <1>3 DEF PublishArchive, Cache!Publish
  <2>2. served \in 1 .. MaxArchive /\ served + 1 \in 1 .. MaxArchive /\ served <= served + 1
    BY <2>1, PipelineAssumption DEF HandsOver
  <2>3. \A c \in Companies : archive[c] <= archive'[c]
    BY <2>1, <2>2, PipelineAssumption DEF Published
  <2>4. FilingsArrive
    BY <1>1, <1>3, <2>1, <2>2, <2>3 DEF PublishArchive, FilingsArrive
  <2> QED
    BY <2>4 DEF Next
<1>4. CASE RegistryGrows
  BY <1>4 DEF Next
<1>5. ASSUME NEW r \in Runs, Ingest(r) PROVE Next
  <2>1. fetch[r] = "ready" /\ BeginRunWith(r, Documents[returned[r]])
    BY <1>5 DEF Ingest
  <2>2. /\ returned[r] \in 1 .. MaxArchive /\ served \in 1 .. MaxArchive
        /\ returned[r] <= served
    BY <2>1, PipelineAssumption DEF HandsOver
  <2>3. \A c \in Companies : Documents[returned[r]][c] <= archive[c]
    BY <2>2, PipelineAssumption DEF Published
  <2>4. BeginRun(r)
    BY <1>1, <2>1, <2>2, <2>3 DEF BeginRun
  <2> QED
    BY <2>4 DEF Next
<1>6. ASSUME NEW r \in Runs, IngestStep(r) PROVE Next
  BY <1>6 DEF IngestStep, Next
<1>7. ASSUME NEW r \in Runs, FetchStep(r) \/ FetchFails(r) PROVE UNCHANGED vars
  BY <1>7 DEF FetchStep, FetchFails
<1> QED
  BY <1>2, <1>3, <1>4, <1>5, <1>6, <1>7 DEF PipelineNext

\* The asset is an ingestion as XbrlFacts describes it: what XbrlFacts takes for
\* granted of the archive a run reads, the cache provides, through any failures
\* and crashes of both, when runs do not overlap.
THEOREM PipelineIngests == ~Overlap /\ PipelineSpec => ImplementsIngestion
<1> SUFFICES ASSUME ~Overlap PROVE PipelineSpec => Spec
  BY DEF ImplementsIngestion
<1>1. PipelineInit => Init /\ Published
  BY DEF PipelineInit, Published, Cache!Init
<1>2. Published /\ [PipelineNext]_pipeline => Published'
  BY PublishedNext
<1>3. HandsOver /\ HandsOver' /\ Published /\ [PipelineNext]_pipeline => [Next]_vars
  BY IngestionSteps
<1>4. PipelineSpec => []HandsOver
  BY CacheHandsOver
<1> QED
  BY <1>1, <1>2, <1>3, <1>4, PTL DEF PipelineSpec, Spec

\* In the asset as a whole, what is marked succeeded or skipped as done is
\* stored, whatever failed in the cache or the ingestion.
THEOREM PipelineStores ==
    ~Overlap /\ PipelineSpec =>
      [](SucceededIsComplete /\ SkippedIsStored /\ SucceededRunIsComplete)
<1>1. ~Overlap /\ PipelineSpec => Spec
  BY PipelineIngests DEF ImplementsIngestion
<1> QED
  BY <1>1, SucceededComplete, SkippedStored, RunComplete, PTL

\* A run that reads has the archive in use.
InUse == \A r \in Runs : phase[r] # "idle" => fetch[r] = "ready"

LEMMA FetchElsewhere ==
    ASSUME NEW r \in Runs, DOMAIN fetch = Runs,
           \/ Cache!Begin(r) \/ Cache!RunStep(r) \/ Cache!Release(r)
           \/ Cache!ReceiveGarbage(r) \/ Cache!AttemptFails(r) \/ Cache!Crash(r)
    PROVE  \A q \in Runs \ {r} : fetch'[q] = fetch[q]
BY DEF Cache!Begin, Cache!UseCached, Cache!SendRequest, Cache!RunStep, Cache!NotModified,
       Cache!Confirm, Cache!Modified, Cache!WritePart, Cache!Accept, Cache!Reject,
       Cache!Store, Cache!FileIsGone, Cache!WriteManifest, Cache!RenameManifest, Cache!ManifestIsGone,
       Cache!Release, Cache!Return, Cache!ReceiveGarbage, Cache!Receive, Cache!AttemptFails,
       Cache!Crash, Cache!Leave

LEMMA InUseNext == TypeOK /\ HandsOver /\ InUse /\ [PipelineNext]_pipeline => InUse'
<1> SUFFICES ASSUME TypeOK, HandsOver, InUse, [PipelineNext]_pipeline PROVE InUse'
  OBVIOUS
<1>1. ASSUME UNCHANGED <<phase, fetch>> PROVE InUse'
  BY <1>1 DEF InUse
<1>2. CASE UNCHANGED pipeline
  BY <1>1, <1>2 DEF pipeline, vars, cache
<1>3. CASE PublishArchive
  BY <1>1, <1>3 DEF PublishArchive, Cache!Publish
<1>4. CASE Cache!TimePasses /\ UNCHANGED vars
  BY <1>1, <1>4 DEF Cache!TimePasses, vars
<1>5. CASE RegistryGrows /\ UNCHANGED cache
  BY <1>1, <1>5 DEF RegistryGrows, cache
<1>6. ASSUME NEW r \in Runs, FetchStep(r) \/ FetchFails(r) PROVE InUse'
  <2>1. phase[r] = "idle" /\ UNCHANGED phase
    BY <1>6 DEF FetchStep, FetchFails, vars
  <2>2. \A q \in Runs \ {r} : fetch'[q] = fetch[q]
    BY <1>6, FetchElsewhere DEF FetchStep, FetchFails, HandsOver
  <2> QED
    BY <2>1, <2>2 DEF InUse
<1>7. ASSUME NEW r \in Runs, Ingest(r) \/ IngestStep(r) PROVE InUse'
  <2>1. fetch[r] = "ready"
    <3>1. CASE IngestStep(r)
      <4>1. phase[r] # "idle"
        BY <3>1 DEF IngestStep, RunStep, TakeMember, Register, ReadStatus, SkipMember, Claim,
           WriteFacts, FinishRun, Fault, ReadFails, FlattenFails, WriteFails, RunFails, Crash
      <4> QED
        BY <4>1 DEF InUse
    <3> QED
      BY <1>7, <3>1 DEF Ingest
  <2>2. \A q \in Runs \ {r} : phase'[q] = phase[q]
    <3>1. CASE Ingest(r)
      BY <3>1 DEF Ingest, BeginRunWith, TypeOK
    <3> QED
      BY <1>7, <3>1, PhaseElsewhere DEF IngestStep
  <2>3. \/ phase'[r] = "idle" /\ Cache!Release(r)
        \/ UNCHANGED cache
    BY <1>7 DEF Ingest, IngestStep
  <2>4. \A q \in Runs \ {r} : fetch'[q] = fetch[q]
    BY <2>3, FetchElsewhere DEF HandsOver, cache
  <2>5. phase'[r] # "idle" => fetch'[r] = "ready"
    BY <2>1, <2>3 DEF cache
  <2> QED
    BY <2>2, <2>4, <2>5 DEF InUse
<1> QED
  BY <1>1, <1>2, <1>3, <1>4, <1>5, <1>6, <1>7 DEF PipelineNext

\* In the asset as a whole, facts keep their origin and successes stay, when
\* runs do not overlap: a run keeps the cache to itself until it is over.
THEOREM PipelineKeeps ==
    ~Overlap /\ PipelineSpec => []LineageIsDerived /\ SucceededIsFinal
<1> SUFFICES ASSUME ~Overlap PROVE PipelineSpec => []LineageIsDerived /\ SucceededIsFinal
  OBVIOUS
<1>1. PipelineSpec => Spec
  BY PipelineIngests DEF ImplementsIngestion
<1>2. PipelineSpec => []HandsOver
  BY CacheHandsOver
<1>3. PipelineInit => InUse
  BY DEF PipelineInit, Init, InUse
<1>4. TypeOK /\ HandsOver /\ InUse /\ [PipelineNext]_pipeline => InUse'
  BY InUseNext
<1>5. PipelineSpec => []InUse
  BY <1>1, <1>2, <1>3, <1>4, TypeCorrect, PTL DEF PipelineSpec
<1>6. HandsOver /\ InUse => Alone
  BY DEF HandsOver, InUse, Alone
<1>7. PipelineSpec => []Alone
  BY <1>2, <1>5, <1>6, PTL
<1> QED
  BY <1>1, <1>7, LineageDerived, SucceededFinal, PTL
================================================================================
