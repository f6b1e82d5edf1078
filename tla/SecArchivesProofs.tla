--------------------------- MODULE SecArchivesProofs ---------------------------
(***************************************************************************)
(* Proofs about SecArchives, for any finite set of companies, any archives *)
(* and listings, dates, publications, failures and crashes.                *)
(***************************************************************************)
EXTENDS SecArchives, TLAPS

\* The server always has an archive.
Serves == \A a \in Assets : served[a].hash \in Archives /\ served[a].etag # 0

\* What a run writes was downloaded on a date.
Observed == \A a \in Assets : phase[a] = "write" => observed_at[a] \in Dates

TypeInv == TypeOK /\ Serves /\ Observed

LEMMA ClassifiedType ==
    ASSUME NEW rows \in SUBSET Classification, NEW code \in Codes, NEW date \in Dates
    PROVE  Classified(rows, code, date) \in SUBSET Classification
<1>1. [code |-> code, effective_from |-> date, effective_to |-> 0] \in Classification
  BY DEF Classification
<1>2. \A row \in rows : [row EXCEPT !.effective_to = date] \in Classification
  BY DEF Classification
<1> QED
  BY <1>1, <1>2 DEF Classified

LEMMA NextTypeInv == TypeInv /\ [Next]_vars => TypeInv'
<1> SUFFICES ASSUME TypeOK, Serves, Observed, [Next]_vars PROVE TypeInv'
  BY DEF TypeInv
<1> USE SecArchivesAssumption
<1>1. CASE UNCHANGED vars
  BY <1>1 DEF vars, environment, database, rows_written, run, TypeOK, Serves, Observed, TypeInv
<1>2. CASE NextDay
  <2>1. Serves' /\ Observed'
    BY <1>2 DEF NextDay, run, Serves, Observed
  <2>2. TypeOK'
    BY <1>2 DEF NextDay, database, rows_written, run, TypeOK, Dates
  <2> QED
    BY <2>1, <2>2 DEF TypeInv
<1>3. ASSUME NEW a \in Assets, Publish(a) PROVE TypeInv'
  <2>1. PICK new \in {served[a].hash, served[a].hash + 1} \cap Archives :
          served' = [served EXCEPT ![a] = [hash |-> new, etag |-> @.etag + 1]]
    BY <1>3 DEF Publish
  <2>2. served[a].etag \in Nat /\ new \in Archives /\ new \in 0 .. MaxArchive
    BY <2>1 DEF TypeOK, Answer, Archives
  <2>3. [hash |-> new, etag |-> served[a].etag + 1] \in Answer
    BY <2>2 DEF Answer
  <2>4. served' \in [Assets -> Answer]
    BY <2>1, <2>3 DEF TypeOK
  <2>5. Serves'
    BY <2>1, <2>2 DEF Serves, TypeOK
  <2>6. UNCHANGED <<today, file, recorded, stored, securities, classifications,
                    profile_runs, phase, run_status, previous, targets, result,
                    observed_at, todo, faults>>
    BY <1>3 DEF Publish, database, rows_written, run
  <2>7. Observed'
    BY <2>6 DEF Observed
  <2> QED
    BY <2>4, <2>5, <2>6, <2>7 DEF TypeOK, TypeInv
<1>4. ASSUME NEW a \in Assets, BeginRun(a) PROVE TypeInv'
  <2>1. Serves' /\ Observed'
    BY <1>4 DEF BeginRun, environment, Serves, Observed, TypeOK
  <2>2. Eligible(ProfileExchanges) \in SUBSET Companies
    BY DEF Eligible
  <2>3. targets' \in [Assets -> SUBSET Companies]
    BY <1>4, <2>2 DEF BeginRun, TypeOK
  <2>4. TypeOK'
    BY <1>4, <2>3 DEF BeginRun, environment, database, rows_written, TypeOK
  <2> QED
    BY <2>1, <2>4 DEF TypeInv
<1>5. ASSUME NEW a \in Assets, NEW status \in {"none", "running", "succeeded", "failed"},
             Close(a, status), recorded' \in [Assets -> Answer],
             file' \in [Assets -> 0 .. MaxArchive], faults' \in 0 .. MaxFaults
      PROVE  TypeInv'
  <2>1. NoAnswer \in Answer
    BY DEF NoAnswer, Answer
  <2>2. Serves' /\ Observed'
    BY <1>5 DEF Close, environment, Serves, Observed, TypeOK
  <2>3. TypeOK'
    BY <1>5, <2>1 DEF Close, environment, rows_written, TypeOK
  <2> QED
    BY <2>2, <2>3 DEF TypeInv
<1>6. ASSUME NEW a \in Assets, LocalHit(a) \/ NotModified(a) PROVE TypeInv'
  <2>1. Close(a, "succeeded") /\ recorded' = [recorded EXCEPT ![a] = previous[a]]
    BY <1>6 DEF LocalHit, NotModified
  <2>2. file' = file /\ faults' = faults
    BY <1>6 DEF LocalHit, NotModified
  <2>3. /\ recorded' \in [Assets -> Answer] /\ file' \in [Assets -> 0 .. MaxArchive]
        /\ faults' \in 0 .. MaxFaults
    BY <2>1, <2>2 DEF TypeOK
  <2> QED
    BY <1>5, <2>1, <2>3
<1>7. ASSUME NEW a \in Assets, Identical(a) PROVE TypeInv'
  <2>1. /\ Close(a, "succeeded") /\ recorded' \in [Assets -> Answer]
        /\ file' \in [Assets -> 0 .. MaxArchive]
        /\ faults' \in 0 .. MaxFaults
    BY <1>7 DEF Identical, Downloads, TypeOK, Answer
  <2> QED
    BY <1>5, <2>1
<1>8. ASSUME NEW a \in Assets, Download(a) PROVE TypeInv'
  <2>1. served[a].hash \in Archives /\ served[a] \in Answer /\ served[a].hash \in 0 .. MaxArchive
    BY DEF TypeOK, Serves, Answer
  <2>2. /\ file' = [file EXCEPT ![a] = served[a].hash]
        /\ result' = [result EXCEPT ![a] = served[a]]
        /\ observed_at' = [observed_at EXCEPT ![a] = today]
        /\ phase' = [phase EXCEPT ![a] = "write"]
        /\ \E set \in SUBSET Companies : todo' = [todo EXCEPT ![a] = set]
        /\ served[a].hash # previous[a].hash
        /\ UNCHANGED <<served, today, recorded, stored, securities, classifications,
                       profile_runs, run_status, previous, targets, faults>>
    BY <1>8 DEF Download, Downloads, Changed, environment, database, rows_written, TypeOK
  <2>3. Serves' /\ Observed'
    BY <2>2 DEF Serves, Observed, TypeOK
  <2>4. today \in 0 .. MaxDate
    BY DEF TypeOK, Dates
  <2>5. \A b \in Assets :
          /\ todo'[b] # {} => phase'[b] = "write"
          /\ phase'[b] = "write" => result'[b].hash \in Archives \ {previous'[b].hash}
    BY <2>1, <2>2 DEF TypeOK
  <2>6. /\ file' \in [Assets -> 0 .. MaxArchive] /\ result' \in [Assets -> Answer]
        /\ observed_at' \in [Assets -> 0 .. MaxDate] /\ todo' \in [Assets -> SUBSET Companies]
        /\ phase' \in [Assets -> {"idle", "check", "write", "delete"}]
    BY <2>1, <2>2, <2>4 DEF TypeOK
  <2> QED
    BY <2>2, <2>3, <2>5, <2>6 DEF TypeOK, TypeInv
<1>9. ASSUME NEW a \in Assets, WriteBatch(a) PROVE TypeInv'
  <2>1. PICK b \in SUBSET todo[a] :
          /\ Batch(a, b)
          /\ stored' = [stored EXCEPT ![a] =
               [c \in Companies |-> IF c \in b THEN result[a].hash ELSE @[c]]]
          /\ securities' = [c \in Companies |->
               IF a = "catalog" /\ c \in b THEN securities[c] \cup Venues[result[a].hash][c]
               ELSE securities[c]]
          /\ classifications' = [c \in Companies |->
               IF c \in b /\ Classifies(a, c)
               THEN Classified(classifications[c], Code(a, c), observed_at[a])
               ELSE classifications[c]]
          /\ todo' = [todo EXCEPT ![a] = @ \ b]
    BY <1>9 DEF WriteBatch
  <2>2. UNCHANGED <<served, today, file, recorded, profile_runs, phase, run_status, previous,
                    targets, result, observed_at, faults>>
    BY <1>9 DEF WriteBatch, environment, run
  <2>3. phase[a] = "write" /\ result[a].hash \in 0 .. MaxArchive /\ result[a].hash \in Archives
    BY <2>1 DEF Batch, TypeOK, Answer
  <2>4. stored' \in [Assets -> [Companies -> 0 .. MaxArchive]]
    <3>1. stored \in [Assets -> [Companies -> 0 .. MaxArchive]]
      BY DEF TypeOK
    <3>2. [c \in Companies |-> IF c \in b THEN result[a].hash ELSE stored[a][c]]
            \in [Companies -> 0 .. MaxArchive]
      <4>1. stored[a] \in [Companies -> 0 .. MaxArchive]
        BY <3>1, Zenon
      <4> QED
        BY <2>3, <4>1
    <3>3. stored' = [stored EXCEPT ![a] =
            [c \in Companies |-> IF c \in b THEN result[a].hash ELSE stored[a][c]]]
      BY <2>1
    <3> QED
      BY <3>1, <3>2, <3>3
  <2>5. todo' \in [Assets -> SUBSET Companies]
        /\ \A q \in Assets : todo'[q] # {} => phase'[q] = "write"
    BY <2>1, <2>2, <2>3 DEF TypeOK
  <2>6. ASSUME NEW c \in Companies, Classifies(a, c)
        PROVE  Classified(classifications[c], Code(a, c), observed_at[a])
                 \in SUBSET Classification
    BY <2>3, <2>6, ClassifiedType DEF Classifies, TypeOK, Observed
  <2>7. classifications' \in [Companies -> SUBSET Classification]
    BY <2>1, <2>6 DEF TypeOK
  <2>8. Serves' /\ Observed'
    BY <2>2 DEF Serves, Observed
  <2>9. securities' \in [Companies -> SUBSET Exchanges]
    BY <2>1, <2>3 DEF TypeOK
  <2> QED
    BY <2>2, <2>4, <2>5, <2>7, <2>8, <2>9 DEF TypeOK, TypeInv
<1>10. ASSUME NEW a \in Assets, BatchRefused(a) \/ RunFails(a) \/ Crash(a) PROVE TypeInv'
  <2>1. \/ Close(a, "failed")
        \/ Close(a, run_status[a])
    BY <1>10 DEF BatchRefused, RunFails, Crash
  <2>2. /\ run_status[a] \in {"none", "running", "succeeded", "failed"}
        /\ recorded' \in [Assets -> Answer] /\ file' \in [Assets -> 0 .. MaxArchive]
        /\ faults' \in 0 .. MaxFaults
    BY <1>10 DEF BatchRefused, RunFails, Crash, TypeOK
  <2> QED
    BY <1>5, <2>1, <2>2
<1>11. ASSUME NEW a \in Assets, Succeed(a) PROVE TypeInv'
  <2>1. Serves' /\ Observed'
    BY <1>11 DEF Succeed, environment, run, Serves, Observed, TypeOK
  <2>2. [archive |-> result[a].hash, targets |-> targets[a]] \in ProfileRun
    BY <1>11 DEF Succeed, ProfileRun, TypeOK
  <2>3. profile_runs' \in SUBSET ProfileRun
    BY <1>11, <2>2 DEF Succeed, TypeOK
  <2>4. TypeOK'
    BY <1>11, <2>3 DEF Succeed, environment, run, rows_written, TypeOK
  <2> QED
    BY <2>1, <2>4 DEF TypeInv
<1>12. ASSUME NEW a \in Assets, DeleteArchive(a) \/ DeleteFails(a) PROVE TypeInv'
  <2>1. \/ Close(a, "failed")
        \/ Close(a, run_status[a])
    BY <1>12 DEF DeleteArchive, DeleteFails
  <2>2. /\ run_status[a] \in {"none", "running", "succeeded", "failed"}
        /\ recorded' \in [Assets -> Answer] /\ file' \in [Assets -> 0 .. MaxArchive]
        /\ faults' \in 0 .. MaxFaults
    <3>1. /\ run_status[a] \in {"none", "running", "succeeded", "failed"}
          /\ recorded \in [Assets -> Answer] /\ previous[a] \in Answer
          /\ file \in [Assets -> 0 .. MaxArchive] /\ faults \in 0 .. MaxFaults
      BY DEF TypeOK
    <3>2. CASE DeleteArchive(a)
      BY <3>1, <3>2 DEF DeleteArchive
    <3>3. CASE DeleteFails(a)
      BY <3>1, <3>3 DEF DeleteFails
    <3> QED
      BY <1>12, <3>2, <3>3
  <2> QED
    BY <1>5, <2>1, <2>2
<1> QED
  BY <1>1, <1>2, <1>3, <1>4, <1>6, <1>7, <1>8, <1>9, <1>10, <1>11, <1>12 DEF Next, RunStep

LEMMA InitTypeInv == Init => TypeInv
  BY SecArchivesAssumption DEF Init, TypeInv, TypeOK, Serves, Observed, Answer, NoAnswer, Archives, Dates

\* Every reachable state has the types the model declares.
THEOREM TypeCorrect == Spec => []TypeOK
<1>1. TypeInv => TypeOK
  BY DEF TypeInv
<1> QED
  BY InitTypeInv, NextTypeInv, <1>1, PTL DEF Spec
--------------------------------------------------------------------------------
(* What a step does to one asset. *)

Same(a) ==
    /\ recorded'[a] = recorded[a] /\ stored'[a] = stored[a] /\ phase'[a] = phase[a]
    /\ previous'[a] = previous[a] /\ targets'[a] = targets[a] /\ result'[a] = result[a]
    /\ observed_at'[a] = observed_at[a] /\ todo'[a] = todo[a]

\* A run is over, with or without success.
Ends(a) ==
    /\ phase'[a] = "idle" /\ todo'[a] = {} /\ targets'[a] = {}
    /\ previous'[a] = NoAnswer /\ result'[a] = NoAnswer /\ observed_at'[a] = 0
    /\ UNCHANGED <<served, today, stored, securities, classifications, profile_runs>>
    /\ \/ recorded'[a] \in {recorded[a], previous[a]}
       \/ ~Changed(a) /\ recorded'[a] = served[a]

LEMMA Closing ==
    ASSUME TypeOK, NEW a \in Assets, NEW status, Close(a, status),
           NEW b \in Assets,
           recorded' = recorded \/ \E x : recorded' = [recorded EXCEPT ![a] = x],
           \/ recorded'[a] \in {recorded[a], previous[a]}
           \/ ~Changed(a) /\ recorded'[a] = served[a]
    PROVE  Same(b) \/ Ends(b)
<1>1. CASE a = b
  BY <1>1 DEF Close, Ends, TypeOK, environment, rows_written
<1>2. CASE a # b
  BY <1>2 DEF Close, Same, TypeOK, environment, rows_written
<1> QED
  BY <1>1, <1>2

LEMMA Steps ==
    ASSUME TypeOK, [Next]_vars, NEW a \in Assets
    PROVE  \/ Same(a) \/ Ends(a)
           \/ BeginRun(a) \/ Download(a) \/ WriteBatch(a) \/ Succeed(a)
<1>1. CASE UNCHANGED vars
  BY <1>1 DEF vars, database, rows_written, run, Same
<1>2. CASE NextDay
  BY <1>2 DEF NextDay, database, rows_written, run, Same
<1>3. ASSUME NEW b \in Assets, Publish(b) PROVE Same(a)
  BY <1>3 DEF Publish, database, rows_written, run, Same
<1>4. ASSUME NEW b \in Assets, a # b, BeginRun(b) \/ Download(b) \/ WriteBatch(b) \/ Succeed(b)
      PROVE  Same(a)
  <2>1. CASE BeginRun(b)
    BY <1>4, <2>1 DEF BeginRun, database, rows_written, Same, TypeOK
  <2>2. CASE Download(b)
    BY <1>4, <2>2 DEF Download, database, rows_written, Same, TypeOK
  <2>3. CASE WriteBatch(b)
    BY <1>4, <2>3 DEF WriteBatch, run, Same, TypeOK
  <2>4. CASE Succeed(b)
    BY <1>4, <2>4 DEF Succeed, run, rows_written, Same, TypeOK
  <2> QED
    BY <1>4, <2>1, <2>2, <2>3, <2>4
<1>5. ASSUME NEW b \in Assets, LocalHit(b) \/ NotModified(b) PROVE Same(a) \/ Ends(a)
  <2>1. /\ Close(b, "succeeded")
        /\ recorded' = [recorded EXCEPT ![b] = previous[b]]
        /\ recorded'[b] = previous[b]
    BY <1>5 DEF LocalHit, NotModified, TypeOK
  <2> QED
    BY <2>1, Closing
<1>6. ASSUME NEW b \in Assets, Identical(b) PROVE Same(a) \/ Ends(a)
  <2>1. /\ Close(b, "succeeded") /\ ~Changed(b)
        /\ recorded' = [recorded EXCEPT ![b] = served[b]]
        /\ recorded'[b] = served[b]
    BY <1>6 DEF Identical, TypeOK
  <2> QED
    BY <2>1, Closing
<1>7. ASSUME NEW b \in Assets,
             BatchRefused(b) \/ DeleteArchive(b) \/ RunFails(b) \/ Crash(b)
      PROVE  Same(a) \/ Ends(a)
  <2>1. /\ Close(b, "failed") \/ Close(b, run_status[b])
        /\ recorded' = recorded
    BY <1>7 DEF BatchRefused, DeleteArchive, RunFails, Crash
  <2>2. recorded'[b] \in {recorded[b], previous[b]}
    BY <2>1
  <2> QED
    BY <2>1, <2>2, Closing
<1>8. ASSUME NEW b \in Assets, DeleteFails(b) PROVE Same(a) \/ Ends(a)
  <2>1. /\ Close(b, "failed")
        /\ recorded' = [recorded EXCEPT ![b] = previous[b]]
        /\ recorded'[b] = previous[b]
    BY <1>8 DEF DeleteFails, TypeOK
  <2> QED
    BY <2>1, Closing
<1> QED
  BY <1>1, <1>2, <1>3, <1>4, <1>5, <1>6, <1>7, <1>8 DEF Next, RunStep

LEMMA Serving ==
    ASSUME TypeOK, [Next]_vars, NEW a \in Assets
    PROVE  served'[a] = served[a] \/ Publish(a)
<1>1. ASSUME NEW b \in Assets, Publish(b) PROVE served'[a] = served[a] \/ Publish(a)
  BY <1>1 DEF Publish, TypeOK
<1>2. ASSUME ~ \E b \in Assets : Publish(b) PROVE served' = served
  BY <1>2 DEF Next, vars, environment, NextDay, BeginRun, RunStep, LocalHit, NotModified,
     Identical, Download, WriteBatch, BatchRefused, Succeed, DeleteArchive, DeleteFails,
     RunFails, Crash, Close
<1> QED
  BY <1>1, <1>2

--------------------------------------------------------------------------------
(* The archives on record. *)

\* x was served before y, or is y.
Before(x, y) == x.hash <= y.hash /\ x.etag <= y.etag /\ (x.etag = y.etag => x.hash = y.hash)

AnswersWereServed ==
    \A a \in Assets : \A x \in {recorded[a], previous[a], result[a]} : Before(x, served[a])

\* A run works on a newer archive than the one on record.
RunsAdvance ==
    \A a \in Assets :
      /\ phase[a] \in {"check", "write"} => recorded[a] = previous[a]
      /\ phase[a] = "write" => previous[a].hash <= result[a].hash

Backed(a, h) == h # 0 => Covered(a, h)

AnswersAreBacked ==
    \A a \in Assets : Backed(a, recorded[a].hash) /\ Backed(a, previous[a].hash)

\* What the run is to write.
Tasks(a) ==
    IF a = "profiles" THEN targets[a]
    ELSE {c \in Companies : Listing[result[a].hash][c] # "absent"}

\* Companies of the new archive that are not to do are done.
DoneIsStored ==
    \A a \in Assets : phase[a] = "write" => Written(a, Tasks(a) \ todo[a], result[a].hash)

\* The runs that have processed an archive preceded the one at work, and what they
\* have written is still that new.
RunsAreStored ==
    \A a \in Assets \cap {"profiles"}, r \in profile_runs :
      /\ r.archive <= served[a].hash
      /\ phase[a] = "write" => r.archive <= result[a].hash
      /\ Written(a, r.targets, r.archive)

ArchivesInv ==
    /\ TypeInv
    /\ AnswersWereServed
    /\ RunsAdvance
    /\ AnswersAreBacked
    /\ DoneIsStored
    /\ RunsAreStored

LEMMA ServedLater ==
    ASSUME TypeInv, [Next]_vars, NEW a \in Assets, NEW x \in Answer, Before(x, served[a])
    PROVE  Before(x, served'[a])
<1>1. CASE Publish(a)
  <2>1. PICK new \in {served[a].hash, served[a].hash + 1} \cap Archives :
          served'[a] = [hash |-> new, etag |-> served[a].etag + 1]
    BY <1>1 DEF Publish, TypeInv, TypeOK
  <2> QED
    BY <2>1 DEF Before, Answer, TypeInv, TypeOK
<1> QED
  BY <1>1, Serving DEF TypeInv

LEMMA NextServed == TypeInv /\ AnswersWereServed /\ [Next]_vars => AnswersWereServed'
<1> SUFFICES ASSUME TypeInv, AnswersWereServed, [Next]_vars, NEW a \in Assets
             PROVE  \A x \in {recorded'[a], previous'[a], result'[a]} : Before(x, served'[a])
  BY DEF AnswersWereServed
<1>1. {recorded[a], previous[a], result[a], served[a], NoAnswer} \subseteq Answer
  <2>1. NoAnswer \in Answer
    BY SecArchivesAssumption DEF NoAnswer, Answer
  <2> QED
    BY <2>1 DEF TypeInv, TypeOK
<1>2. Before(NoAnswer, served[a]) /\ Before(served[a], served[a])
  BY <1>1 DEF Before, NoAnswer, Answer, TypeInv, Serves
<1>3. \A x \in {recorded[a], previous[a], result[a], served[a], NoAnswer} : Before(x, served'[a])
  BY <1>1, <1>2, ServedLater DEF AnswersWereServed
<1>4. {recorded'[a], previous'[a], result'[a]} \subseteq
        {recorded[a], previous[a], result[a], served[a], NoAnswer}
  <2>1. CASE Same(a) \/ Ends(a)
    BY <2>1 DEF Same, Ends
  <2>2. CASE BeginRun(a) \/ Download(a) \/ WriteBatch(a) \/ Succeed(a)
    BY <2>2 DEF BeginRun, Download, WriteBatch, Succeed, database, rows_written, run, TypeInv, TypeOK
  <2> QED
    BY <2>1, <2>2, Steps DEF TypeInv
<1> QED
  BY <1>3, <1>4

LEMMA NextAdvance ==
    TypeInv /\ AnswersWereServed /\ RunsAdvance /\ [Next]_vars => RunsAdvance'
<1> SUFFICES ASSUME TypeInv, AnswersWereServed, RunsAdvance, [Next]_vars, NEW a \in Assets
             PROVE  /\ phase'[a] \in {"check", "write"} => recorded'[a] = previous'[a]
                    /\ phase'[a] = "write" => previous'[a].hash <= result'[a].hash
  BY DEF RunsAdvance
<1>1. CASE Same(a) \/ Ends(a)
  BY <1>1 DEF Same, Ends, RunsAdvance
<1>2. CASE BeginRun(a)
  BY <1>2 DEF BeginRun, database, rows_written, TypeInv, TypeOK
<1>3. CASE Download(a)
  <2>1. /\ phase[a] = "check" /\ result'[a] = served[a]
        /\ recorded' = recorded /\ previous' = previous
    BY <1>3 DEF Download, Downloads, database, rows_written, TypeInv, TypeOK
  <2> QED
    BY <2>1 DEF RunsAdvance, AnswersWereServed, Before
<1>4. CASE WriteBatch(a)
  BY <1>4 DEF WriteBatch, run, RunsAdvance
<1>5. CASE Succeed(a)
  BY <1>5 DEF Succeed, TypeInv, TypeOK
<1> QED
  BY <1>1, <1>2, <1>3, <1>4, <1>5, Steps DEF TypeInv

\* Only a batch changes what is stored, and it writes the run's archive.
LEMMA Writes ==
    ASSUME TypeInv, [Next]_vars, NEW a \in Assets, NEW c \in Companies,
           stored'[a][c] # stored[a][c]
    PROVE  /\ WriteBatch(a) /\ phase[a] = "write" /\ phase' = phase
           /\ stored'[a][c] = result[a].hash /\ result[a].hash \in Nat
<1>1. WriteBatch(a)
  BY Steps DEF TypeInv, Same, Ends, BeginRun, Download, Succeed, database, rows_written
<1>2. phase[a] = "write" /\ phase' = phase /\ stored'[a][c] = result[a].hash
  BY <1>1 DEF WriteBatch, Batch, TypeInv, TypeOK
<1>3. result[a].hash \in Nat
  BY DEF TypeInv, TypeOK, Answer
<1> QED
  BY <1>1, <1>2, <1>3

\* What is as new as h stays so unless the run at work has an older archive.
LEMMA WrittenStays ==
    ASSUME TypeInv, [Next]_vars, NEW a \in Assets, NEW h \in Nat,
           NEW cs \in SUBSET Companies, Written(a, cs, h),
           phase[a] = "write" => h <= result[a].hash
    PROVE  Written(a, cs, h)'
<1> SUFFICES ASSUME NEW c \in cs PROVE stored'[a][c] >= h
  BY DEF Written
<1>1. CASE stored'[a][c] = stored[a][c]
  BY <1>1 DEF Written
<1>2. CASE stored'[a][c] # stored[a][c]
  BY <1>2, Writes
<1> QED
  BY <1>1, <1>2

LEMMA NextDone == TypeInv /\ DoneIsStored /\ [Next]_vars => DoneIsStored'
<1> SUFFICES ASSUME TypeInv, DoneIsStored, [Next]_vars,
                    NEW a \in Assets, phase'[a] = "write", NEW c \in Tasks(a)', c \notin todo'[a]
             PROVE  stored'[a][c] >= result'[a].hash
  BY DEF DoneIsStored, Written
<1>1. CASE Same(a)
  BY <1>1 DEF Same, DoneIsStored, Written, Tasks
<1>2. ~Ends(a) /\ ~BeginRun(a) /\ ~Succeed(a)
  BY DEF Ends, BeginRun, Succeed, TypeInv, TypeOK
<1>3. ~Download(a)
  <2>1. Download(a) => todo'[a] = Tasks(a)'
    BY DEF Download, Tasks, TypeInv, TypeOK
  <2> QED
    BY <2>1
<1>4. CASE WriteBatch(a)
  <2>1. PICK b \in SUBSET todo[a] :
          /\ phase[a] = "write"
          /\ stored' = [stored EXCEPT ![a] =
               [d \in Companies |-> IF d \in b THEN result[a].hash ELSE @[d]]]
          /\ todo' = [todo EXCEPT ![a] = @ \ b]
    BY <1>4 DEF WriteBatch, Batch
  <2>2. result' = result /\ targets' = targets /\ result[a].hash \in Nat
    BY <1>4 DEF WriteBatch, run, TypeInv, TypeOK, Answer
  <2>3. c \in Tasks(a) /\ c \in Companies
    BY <2>2 DEF Tasks, TypeInv, TypeOK
  <2>4. CASE c \in b
    BY <2>1, <2>2, <2>3, <2>4 DEF TypeInv, TypeOK
  <2>5. CASE c \notin b
    <3>1. stored'[a][c] = stored[a][c] /\ c \notin todo[a]
      BY <2>1, <2>3, <2>5 DEF TypeInv, TypeOK
    <3> QED
      BY <2>1, <2>2, <2>3, <3>1 DEF DoneIsStored, Written
  <2> QED
    BY <2>4, <2>5
<1> QED
  BY <1>1, <1>2, <1>3, <1>4, Steps DEF TypeInv

\* A run joins the processed ones when it has written what it was to write.
LEMMA RunsGrow ==
    ASSUME TypeInv, [Next]_vars, NEW r \in profile_runs' \ profile_runs
    PROVE  \E a \in Assets \cap {"profiles"} :
             Succeed(a) /\ r = [archive |-> result[a].hash, targets |-> targets[a]]
<1>1. \/ profile_runs' = profile_runs
      \/ \E a \in Assets : Succeed(a)
  BY DEF Next, vars, database, rows_written, NextDay, Publish, BeginRun, RunStep, LocalHit,
     NotModified, Identical, Download, WriteBatch, BatchRefused, DeleteArchive, DeleteFails,
     RunFails, Crash, Close
<1> QED
  BY <1>1 DEF Succeed

LEMMA NextRuns ==
    TypeInv /\ DoneIsStored /\ AnswersWereServed /\ RunsAreStored /\ [Next]_vars
      => RunsAreStored'
<1> SUFFICES ASSUME TypeInv, DoneIsStored, AnswersWereServed, RunsAreStored, [Next]_vars,
                    NEW a \in Assets \cap {"profiles"}, NEW r \in profile_runs'
             PROVE  /\ r.archive <= served'[a].hash
                    /\ phase'[a] = "write" => r.archive <= result'[a].hash
                    /\ Written(a, r.targets, r.archive)'
  BY DEF RunsAreStored, Written
<1>1. CASE r \in profile_runs
  <2>1. /\ r.archive <= served[a].hash
        /\ phase[a] = "write" => r.archive <= result[a].hash
        /\ Written(a, r.targets, r.archive)
    BY <1>1 DEF RunsAreStored
  <2>2. r.archive \in Nat /\ r.targets \in SUBSET Companies
    BY <1>1 DEF TypeInv, TypeOK, ProfileRun, Archives
  <2>3. Written(a, r.targets, r.archive)'
    <3>1. ASSUME NEW h \in Nat, h = r.archive, NEW cs \in SUBSET Companies, cs = r.targets
          PROVE  \A c \in cs : stored'[a][c] >= h
      BY <2>1, <3>1, WrittenStays DEF Written
    <3> QED
      BY <2>2, <3>1 DEF Written
  <2>4. r.archive <= served'[a].hash
    <3>1. served'[a] = served[a] \/ served'[a].hash \in {served[a].hash, served[a].hash + 1}
      BY Serving DEF Publish, TypeInv, TypeOK
    <3>2. served[a].hash \in Nat
      BY DEF TypeInv, TypeOK, Answer
    <3> QED
      BY <2>1, <2>2, <3>1, <3>2
  <2>5. ASSUME phase'[a] = "write" PROVE r.archive <= result'[a].hash
    <3>1. CASE Same(a) \/ WriteBatch(a)
      BY <2>1, <2>5, <3>1 DEF Same, WriteBatch, run
    <3>2. CASE Download(a)
      BY <2>1, <3>2 DEF Download, TypeInv, TypeOK
    <3>3. ~Ends(a) /\ ~BeginRun(a) /\ ~Succeed(a)
      BY <2>5 DEF Ends, BeginRun, Succeed, TypeInv, TypeOK
    <3> QED
      BY <3>1, <3>2, <3>3, Steps DEF TypeInv
  <2> QED
    BY <2>3, <2>4, <2>5
<1>2. CASE r \notin profile_runs
  <2>1. Succeed(a) /\ r = [archive |-> result[a].hash, targets |-> targets[a]]
    BY <1>2, RunsGrow
  <2>2. /\ phase[a] = "write" /\ todo[a] = {} /\ phase'[a] = "delete"
        /\ served' = served /\ stored' = stored
    BY <2>1 DEF Succeed, environment, rows_written, TypeInv, TypeOK
  <2>3. result[a].hash <= served[a].hash
    BY DEF AnswersWereServed, Before
  <2>4. Written(a, targets[a], result[a].hash)
    BY <2>2 DEF DoneIsStored, Tasks
  <2> QED
    BY <2>1, <2>2, <2>3, <2>4 DEF Written
<1> QED
  BY <1>1, <1>2

\* An archive that was processed remains so.
LEMMA BackedStays ==
    ASSUME ArchivesInv, [Next]_vars, NEW a \in Assets, NEW h \in Nat, Backed(a, h),
           phase[a] = "write" => h <= result[a].hash
    PROVE  Backed(a, h)'
<1> SUFFICES ASSUME h # 0 PROVE Covered(a, h)'
  BY DEF Backed
<1>1. TypeInv
  BY DEF ArchivesInv
<1>2. CASE a = "profiles"
  <2>1. PICK r \in profile_runs : r.archive = h /\ Written(a, r.targets, h)
    BY <1>2 DEF Backed, Covered
  <2>2. r \in profile_runs'
    BY DEF Next, vars, database, rows_written, NextDay, Publish, BeginRun, RunStep, LocalHit,
       NotModified, Identical, Download, WriteBatch, BatchRefused, Succeed, DeleteArchive,
       DeleteFails, RunFails, Crash, Close
  <2>3. r.targets \in SUBSET Companies
    BY <1>1 DEF TypeInv, TypeOK, ProfileRun
  <2>4. ASSUME NEW cs \in SUBSET Companies, cs = r.targets
        PROVE  \A c \in cs : stored'[a][c] >= h
    BY <1>1, <2>1, <2>4, WrittenStays DEF Written
  <2> QED
    BY <1>2, <2>1, <2>2, <2>3, <2>4 DEF Covered, Written
<1>3. CASE a # "profiles"
  <2> DEFINE listed == {c \in Companies : Listing[h][c] # "absent"}
  <2>1. Written(a, listed, h)
    BY <1>3 DEF Backed, Covered
  <2>2. \A c \in listed : stored'[a][c] >= h
    BY <1>1, <2>1, WrittenStays DEF Written
  <2> QED
    BY <1>3, <2>2 DEF Covered, Written
<1> QED
  BY <1>2, <1>3

LEMMA NextBacked == ArchivesInv /\ [Next]_vars => AnswersAreBacked'
<1> SUFFICES ASSUME ArchivesInv, [Next]_vars, NEW a \in Assets
             PROVE  (Backed(a, recorded[a].hash) /\ Backed(a, previous[a].hash))'
  BY DEF AnswersAreBacked
<1> DEFINE Holds(h) ==
             h # 0 =>
               IF a = "profiles"
               THEN \E r \in profile_runs' :
                      r.archive = h /\ \A c \in r.targets : stored'[a][c] >= h
               ELSE \A c \in {d \in Companies : Listing[h][d] # "absent"} : stored'[a][c] >= h
<1>1. /\ recorded[a].hash \in Nat /\ previous[a].hash \in Nat /\ result[a].hash \in Nat
      /\ Backed(a, recorded[a].hash) /\ Backed(a, previous[a].hash)
      /\ phase[a] = "write" => recorded[a] = previous[a] /\ previous[a].hash <= result[a].hash
  BY DEF ArchivesInv, TypeInv, TypeOK, Answer, AnswersAreBacked, RunsAdvance
<1>2. Holds(recorded[a].hash) /\ Holds(previous[a].hash) /\ Holds(0)
  <2>1. ASSUME NEW h \in Nat, Backed(a, h), phase[a] = "write" => h <= result[a].hash
        PROVE  Holds(h)
    <3>1. Backed(a, h)'
      BY <2>1, BackedStays
    <3> QED
      BY <3>1 DEF Backed, Covered, Written
  <2> HIDE DEF Holds
  <2>2. Holds(recorded[a].hash) /\ Holds(previous[a].hash)
    BY <1>1, <2>1
  <2>3. Holds(0)
    BY DEF Holds
  <2> QED
    BY <2>2, <2>3
<1>3. Holds(recorded'[a].hash)
  <2>1. CASE Same(a) \/ BeginRun(a) \/ Download(a) \/ WriteBatch(a)
    <3>1. recorded'[a] = recorded[a]
      BY <2>1 DEF Same, BeginRun, Download, WriteBatch, database
    <3> QED
      BY <1>2, <3>1
  <2>2. CASE Ends(a)
    <3>1. recorded'[a].hash \in {recorded[a].hash, previous[a].hash}
      BY <2>2 DEF Ends, Changed
    <3> HIDE DEF Holds
    <3> QED
      BY <1>2, <3>1
  <2>3. CASE Succeed(a)
    <3>1. /\ phase[a] = "write" /\ todo[a] = {} /\ stored' = stored
          /\ recorded'[a] = result[a]
          /\ a = "profiles" =>
               [archive |-> result[a].hash, targets |-> targets[a]] \in profile_runs'
      BY <2>3 DEF Succeed, rows_written, ArchivesInv, TypeInv, TypeOK
    <3>2. \A c \in Tasks(a) : stored'[a][c] >= result[a].hash
      BY <3>1 DEF ArchivesInv, DoneIsStored, Written
    <3>3. CASE a = "profiles"
      <4> DEFINE r == [archive |-> result[a].hash, targets |-> targets[a]]
      <4>1. r \in profile_runs' /\ r.archive = result[a].hash /\ r.targets = targets[a]
        BY <3>1, <3>3
      <4> HIDE DEF r
      <4> QED
        BY <3>1, <3>2, <3>3, <4>1 DEF Tasks
    <3>4. CASE a # "profiles"
      BY <3>1, <3>2, <3>4 DEF Tasks
    <3> QED
      BY <3>3, <3>4
  <2> QED
    BY <2>1, <2>2, <2>3, Steps DEF ArchivesInv, TypeInv
<1>4. Holds(previous'[a].hash)
  <2>1. previous'[a].hash \in {recorded[a].hash, previous[a].hash, 0}
    <3>1. CASE Same(a) \/ Ends(a)
      BY <3>1 DEF Same, Ends, NoAnswer
    <3>2. CASE BeginRun(a) \/ Download(a) \/ WriteBatch(a) \/ Succeed(a)
      BY <3>2 DEF BeginRun, Download, WriteBatch, Succeed, run, ArchivesInv, TypeInv, TypeOK
    <3> QED
      BY <3>1, <3>2, Steps DEF ArchivesInv, TypeInv
  <2> HIDE DEF Holds
  <2> QED
    BY <1>2, <2>1
<1> QED
  BY <1>3, <1>4 DEF Backed, Covered, Written

\* What the two assets know of archives agrees with what they have stored.
THEOREM ArchivesInvariant == Spec => []ArchivesInv
<1>1. Init => ArchivesInv
  <2> SUFFICES ASSUME Init PROVE ArchivesInv
    OBVIOUS
  <2>1. TypeInv
    BY InitTypeInv
  <2>2. AnswersWereServed
    BY DEF Init, AnswersWereServed, Before, NoAnswer
  <2>3. RunsAdvance /\ AnswersAreBacked /\ DoneIsStored /\ RunsAreStored
    BY DEF Init, RunsAdvance, AnswersAreBacked, Backed, DoneIsStored, RunsAreStored, NoAnswer
  <2> QED
    BY <2>1, <2>2, <2>3 DEF ArchivesInv
<1>2. ArchivesInv /\ [Next]_vars => ArchivesInv'
  BY NextTypeInv, NextServed, NextAdvance, NextBacked, NextDone, NextRuns DEF ArchivesInv
<1> QED
  BY <1>1, <1>2, PTL DEF Spec

\* Whatever the latest succeeded run says it has processed is stored, so that
\* later runs may skip it.
THEOREM RecordedStored == Spec => []StoredCoversRecorded
<1>1. ArchivesInv => StoredCoversRecorded
  BY DEF ArchivesInv, AnswersAreBacked, Backed, StoredCoversRecorded
<1> QED
  BY ArchivesInvariant, <1>1, PTL

\* A validator the server still confirms is that of the archive on record.
THEOREM ValidatorMatches == Spec => []ValidatorMatchesArchive
<1>1. ArchivesInv => ValidatorMatchesArchive
  BY DEF ArchivesInv, AnswersWereServed, Before, ValidatorMatchesArchive
<1> QED
  BY ArchivesInvariant, <1>1, PTL

--------------------------------------------------------------------------------
(* Classifications. *)

\* Every date on record has come, and precedes what a run of the catalog has
\* observed.
DatesArePast ==
    /\ \A a \in Assets : observed_at[a] <= today
    /\ \A c \in Companies : \A row \in classifications[c] :
         /\ row.effective_from <= today /\ row.effective_to <= today
         /\ \A a \in Assets \cap {"catalog"} : phase[a] = "write" =>
              row.effective_from <= observed_at[a] /\ row.effective_to <= observed_at[a]

\* The active rows of a company have one code.
OneCode ==
    \A c \in Companies : \A x, y \in Active(classifications[c]) : x.code = y.code

ClassesInv == TypeInv /\ DatesArePast /\ OneCode /\ ClassificationsFollowArchive

Until(rows, date) ==
    \A row \in rows : row.effective_from <= date /\ row.effective_to <= date

LEMMA ClassifiedUntil ==
    ASSUME NEW rows \in SUBSET Classification, NEW code \in Codes,
           NEW date \in Dates, NEW n \in Nat, date <= n, Until(rows, n)
    PROVE  Until(Classified(rows, code, date), n)
<1>1. \A row \in rows : [row EXCEPT !.effective_to = date].effective_from = row.effective_from
                        /\ [row EXCEPT !.effective_to = date].effective_to = date
  BY DEF Classification
<1>2. ASSUME NEW row \in Classified(rows, code, date)
      PROVE  row.effective_from <= n /\ row.effective_to <= n
  <2>1. CASE row \in rows
    BY <2>1 DEF Until
  <2>2. CASE row = [code |-> code, effective_from |-> date, effective_to |-> 0]
    BY <2>2
  <2>3. CASE \E old \in rows : row = [old EXCEPT !.effective_to = date]
    BY <1>1, <2>3 DEF Until
  <2> QED
    BY <1>2, <2>1, <2>2, <2>3 DEF Classified
<1> QED
  BY <1>2 DEF Until

\* The active row is the one with the code observed.
LEMMA ClassifiedCode ==
    ASSUME NEW rows \in SUBSET Classification, NEW code \in Codes, NEW date \in Dates,
           \A x, y \in Active(rows) : x.code = y.code
    PROVE  {row.code : row \in Active(Classified(rows, code, date))} = {code}
<1> DEFINE added == [code |-> code, effective_from |-> date, effective_to |-> 0]
           shut(row) == IF row.effective_to = 0 THEN [row EXCEPT !.effective_to = date] ELSE row
<1>1. CASE \E row \in Active(rows) : row.code = code
  <2>1. Classified(rows, code, date) = rows
    BY <1>1 DEF Classified
  <2>2. \A row \in Active(rows) : row.code = code
    BY <1>1
  <2> QED
    BY <1>1, <2>1, <2>2
<1>2. CASE ~ \E row \in Active(rows) : row.code = code
  <2>1. Classified(rows, code, date) = {shut(row) : row \in rows} \cup {added}
    BY <1>2 DEF Classified
  <2>2. \A row \in rows : shut(row).effective_to # 0
    BY DEF Classification, Dates
  <2> HIDE DEF shut
  <2>3. added.effective_to = 0 /\ added.code = code
    OBVIOUS
  <2> HIDE DEF added
  <2>4. Active(Classified(rows, code, date)) = {added}
    BY <2>1, <2>2, <2>3 DEF Active
  <2> QED
    BY <2>3, <2>4
<1> QED
  BY <1>1, <1>2

\* A batch of the catalog is what changes classifications, together with the
\* archive a row comes from.
LEMMA Classifying ==
    ASSUME TypeInv, [Next]_vars, NEW c \in Companies
    PROVE  \/ /\ classifications'[c] = classifications[c]
              /\ \A a \in Assets \cap {"catalog"} :
                   \/ stored'[a][c] = stored[a][c]
                   \/ Listing[stored'[a][c]][c] \notin Codes
           \/ \E a \in Assets \cap {"catalog"} :
                /\ phase[a] = "write" /\ phase' = phase /\ observed_at' = observed_at
                /\ today' = today
                /\ Listing[stored'[a][c]][c] \in Codes
                /\ ~Duplicate(classifications[c], Listing[stored'[a][c]][c], observed_at[a])
                /\ classifications'[c] =
                     Classified(classifications[c], Listing[stored'[a][c]][c], observed_at[a])
<1> USE DEF TypeInv
<1>1. ASSUME NEW a \in Assets, WriteBatch(a), c \in Companies
      PROVE  \/ classifications'[c] = classifications[c] /\
                (a = "catalog" => \/ stored'[a][c] = stored[a][c]
                                  \/ Listing[stored'[a][c]][c] \notin Codes)
             \/ /\ a = "catalog"
                /\ phase[a] = "write" /\ phase' = phase /\ observed_at' = observed_at
                /\ today' = today
                /\ Listing[stored'[a][c]][c] \in Codes
                /\ ~Duplicate(classifications[c], Listing[stored'[a][c]][c], observed_at[a])
                /\ classifications'[c] =
                     Classified(classifications[c], Listing[stored'[a][c]][c], observed_at[a])
  <2>1. PICK b \in SUBSET todo[a] :
          /\ phase[a] = "write"
          /\ ~RefusedBatch(a, b)
          /\ stored' = [stored EXCEPT ![a] =
               [d \in Companies |-> IF d \in b THEN result[a].hash ELSE @[d]]]
          /\ classifications' = [d \in Companies |->
               IF d \in b /\ Classifies(a, d)
               THEN Classified(classifications[d], Code(a, d), observed_at[a])
               ELSE classifications[d]]
    BY <1>1 DEF WriteBatch, Batch
  <2>2. phase' = phase /\ observed_at' = observed_at /\ today' = today
    BY <1>1 DEF WriteBatch, run, environment
  <2>3. stored'[a][c] = IF c \in b THEN result[a].hash ELSE stored[a][c]
    BY <2>1 DEF TypeOK
  <2>4. CASE c \in b /\ Classifies(a, c)
    BY <2>1, <2>2, <2>3, <2>4 DEF Classifies, Code, RefusedBatch
  <2>5. CASE ~(c \in b /\ Classifies(a, c))
    BY <2>1, <2>3, <2>5 DEF Classifies, Code
  <2> QED
    BY <2>4, <2>5
<1>2. ASSUME ~ \E a \in Assets : WriteBatch(a)
      PROVE  classifications' = classifications /\ stored' = stored
  BY <1>2 DEF Next, vars, database, rows_written, NextDay, Publish, BeginRun, RunStep, LocalHit, NotModified,
     Identical, Download, BatchRefused, Succeed, DeleteArchive, DeleteFails, RunFails, Crash, Close
<1>3. ASSUME NEW a \in Assets, WriteBatch(a), a # "catalog", "catalog" \in Assets
      PROVE  stored'["catalog"] = stored["catalog"]
  BY <1>3 DEF WriteBatch, TypeOK
<1> QED
  BY <1>1, <1>2, <1>3

LEMMA NextPast == TypeInv /\ DatesArePast /\ [Next]_vars => DatesArePast'
<1> SUFFICES ASSUME TypeInv, DatesArePast, [Next]_vars PROVE DatesArePast'
  OBVIOUS
<1>1. today \in Nat /\ today' \in Nat /\ today <= today'
  <2>1. today' = today \/ NextDay
    BY DEF Next, vars, environment, Publish, BeginRun, RunStep, LocalHit, NotModified,
     Identical, Download, WriteBatch, BatchRefused, Succeed, DeleteArchive, DeleteFails,
     RunFails, Crash, Close
  <2>2. today \in Nat
    BY SecArchivesAssumption DEF TypeInv, TypeOK, Dates
  <2> QED
    BY <2>1, <2>2 DEF NextDay
<1>2. ASSUME NEW a \in Assets
      PROVE  /\ observed_at'[a] <= today'
             /\ phase'[a] = "write" => \/ phase[a] = "write" /\ observed_at'[a] = observed_at[a]
                                       \/ observed_at'[a] = today /\ Download(a)
  <2>1. observed_at[a] <= today /\ observed_at[a] \in Nat
    BY SecArchivesAssumption DEF DatesArePast, TypeInv, TypeOK
  <2>2. CASE Same(a)
    BY <1>1, <2>1, <2>2 DEF Same
  <2>3. CASE BeginRun(a) \/ WriteBatch(a) \/ Succeed(a)
    BY <1>1, <2>1, <2>3 DEF BeginRun, WriteBatch, Batch, Succeed, run, TypeInv, TypeOK
  <2>4. CASE Download(a)
    BY <1>1, <2>4 DEF Download, TypeInv, TypeOK
  <2>5. CASE Ends(a)
    BY <1>1, <2>1, <2>5 DEF Ends
  <2> QED
    BY <2>2, <2>3, <2>4, <2>5, Steps DEF TypeInv
<1>3. ASSUME NEW c \in Companies, NEW row \in classifications'[c]
      PROVE  /\ row.effective_from <= today' /\ row.effective_to <= today'
             /\ \A a \in Assets \cap {"catalog"} : phase'[a] = "write" =>
                  row.effective_from <= observed_at'[a] /\ row.effective_to <= observed_at'[a]
  <2>1. /\ classifications[c] \in SUBSET Classification
        /\ Until(classifications[c], today)
        /\ \A a \in Assets \cap {"catalog"} : phase[a] = "write" =>
             Until(classifications[c], observed_at[a])
    BY DEF DatesArePast, Until, TypeInv, TypeOK
  <2>2. CASE classifications'[c] = classifications[c]
    <3>1. row.effective_from \in Nat /\ row.effective_to \in Nat
      BY <2>1, <2>2 DEF Classification, Dates
    <3> QED
      BY <1>1, <1>2, <2>1, <2>2, <3>1 DEF Until
  <2>3. CASE classifications'[c] # classifications[c]
    <3>1. PICK a \in Assets \cap {"catalog"}, code \in Codes :
            /\ phase[a] = "write" /\ phase' = phase /\ observed_at' = observed_at
            /\ today' = today
            /\ classifications'[c] = Classified(classifications[c], code, observed_at[a])
      BY <2>3, Classifying
    <3>2. observed_at[a] \in Dates /\ observed_at[a] \in Nat /\ observed_at[a] <= today
      BY <3>1 DEF TypeInv, Observed, Dates, DatesArePast
    <3>3. Until(classifications'[c], observed_at[a]) /\ Until(classifications'[c], today)
      BY <1>1, <2>1, <3>1, <3>2, ClassifiedUntil
    <3> QED
      BY <3>1, <3>3 DEF Until
  <2> QED
    BY <2>2, <2>3
<1> QED
  BY <1>2, <1>3 DEF DatesArePast

LEMMA NextFollow ==
    ASSUME TypeInv, OneCode, ClassificationsFollowArchive, [Next]_vars
    PROVE  OneCode' /\ ClassificationsFollowArchive'
<1> SUFFICES ASSUME NEW c \in Companies
             PROVE  /\ \A x, y \in Active(classifications'[c]) : x.code = y.code
                    /\ \A a \in Assets \cap {"catalog"} :
                         stored'[a][c] # 0 /\ Listing[stored'[a][c]][c] \in Codes =>
                           {row.code : row \in Active(classifications'[c])}
                             = {Listing[stored'[a][c]][c]}
  BY DEF OneCode, ClassificationsFollowArchive, Active
<1>1. CASE /\ classifications'[c] = classifications[c]
           /\ \A a \in Assets \cap {"catalog"} :
                \/ stored'[a][c] = stored[a][c]
                \/ Listing[stored'[a][c]][c] \notin Codes
  BY <1>1 DEF OneCode, ClassificationsFollowArchive
<1>2. ASSUME NEW a \in Assets \cap {"catalog"}, phase[a] = "write",
             Listing[stored'[a][c]][c] \in Codes,
             classifications'[c] =
               Classified(classifications[c], Listing[stored'[a][c]][c], observed_at[a])
      PROVE  {row.code : row \in Active(classifications'[c])} = {Listing[stored'[a][c]][c]}
  <2>1. observed_at[a] \in Dates /\ classifications[c] \in SUBSET Classification
    BY <1>2 DEF TypeInv, Observed, TypeOK
  <2>2. \A x, y \in Active(classifications[c]) : x.code = y.code
    BY DEF OneCode
  <2>3. ASSUME NEW code \in Codes
        PROVE  {row.code : row \in Active(Classified(classifications[c], code, observed_at[a]))}
                 = {code}
    BY <2>1, <2>2, ClassifiedCode
  <2> QED
    BY <1>2, <2>3
<1>3. CASE ~(/\ classifications'[c] = classifications[c]
             /\ \A a \in Assets \cap {"catalog"} :
                  \/ stored'[a][c] = stored[a][c]
                  \/ Listing[stored'[a][c]][c] \notin Codes)
  <2>1. PICK a \in Assets \cap {"catalog"} :
          /\ phase[a] = "write" /\ Listing[stored'[a][c]][c] \in Codes
          /\ classifications'[c] =
               Classified(classifications[c], Listing[stored'[a][c]][c], observed_at[a])
    BY <1>3, Classifying
  <2>2. {row.code : row \in Active(classifications'[c])} = {Listing[stored'[a][c]][c]}
    BY <1>2, <2>1
  <2> QED
    BY <2>2
<1> QED
  BY <1>1, <1>3

\* Classifications are dated in the past and follow what the catalog has written.
THEOREM ClassesInvariant == Spec => []ClassesInv
<1>1. Init => ClassesInv
  <2> SUFFICES ASSUME Init PROVE ClassesInv
    OBVIOUS
  <2>1. DatesArePast /\ OneCode /\ ClassificationsFollowArchive
    BY DEF Init, DatesArePast, OneCode, Active, ClassificationsFollowArchive
  <2> QED
    BY <2>1, InitTypeInv DEF ClassesInv
<1>2. ClassesInv /\ [Next]_vars => ClassesInv'
  BY NextTypeInv, NextPast, NextFollow DEF ClassesInv
<1> QED
  BY <1>1, <1>2, PTL DEF Spec

\* The active classification of a company has the code its row was last written
\* with.
THEOREM ClassificationsFollow == Spec => []ClassificationsFollowArchive
<1>1. ClassesInv => ClassificationsFollowArchive
  BY DEF ClassesInv
<1> QED
  BY ClassesInvariant, <1>1, PTL

--------------------------------------------------------------------------------
(* Refinement. *)

Entry(row) == [value |-> row.code, from |-> row.effective_from, until |-> row.effective_to]

LEMMA EntryTypes ==
    ASSUME NEW row \in Classification PROVE Entry(row) \in Dating!RowOf
  BY DEF Entry, Classification, Dating!RowOf

\* Classifying is a revision at the date of the observation.
LEMMA ClassifiedRevises ==
    ASSUME NEW rows \in SUBSET Classification, NEW code \in Codes, NEW date \in Dates,
           Until(rows, date), Classified(rows, code, date) # rows
    PROVE  Dating!Revised({Entry(row) : row \in rows},
                          {Entry(row) : row \in Classified(rows, code, date)})
<1> DEFINE old == {Entry(row) : row \in rows}
           added == [code |-> code, effective_from |-> date, effective_to |-> 0]
           shut(row) == IF row.effective_to = 0 THEN [row EXCEPT !.effective_to = date] ELSE row
           closed(x) == IF x.until = 0 THEN [x EXCEPT !.until = date] ELSE x
<1>1. Classified(rows, code, date) = {shut(row) : row \in rows} \cup {added}
  BY DEF Classified
<1>2. \A row \in rows : Entry(shut(row)) = closed(Entry(row))
  BY DEF Entry, Classification
<1>3. Entry(added) = [value |-> code, from |-> date, until |-> 0]
  BY DEF Entry
<1>4. {Entry(row) : row \in Classified(rows, code, date)} =
        {closed(x) : x \in old} \cup {[value |-> code, from |-> date, until |-> 0]}
  <2> HIDE DEF shut, closed, added
  <2> QED
    BY <1>1, <1>2, <1>3
<1>5. Dating!Recorded(old, date)
  BY DEF Dating!Recorded, Until, Entry
<1> QED
  BY <1>4, <1>5 DEF Dating!Revised, Dating!Closed

\* The classifications implement effective dating: upsert_sec_sic_classification
\* closes and opens rows at dates that do not go back, whatever batches are refused
\* or repeated.
THEOREM ClassificationsImplementDating == Spec => ImplementsDating
<1>1. Init => Dating!HistoryInit
  BY DEF Init, Dating!HistoryInit, History
<1>2. ClassesInv /\ [Next]_vars => [Dating!HistoryNext]_History
  <2> SUFFICES ASSUME ClassesInv, [Next]_vars PROVE Dating!HistoryNext
    OBVIOUS
  <2>1. TypeInv /\ TypeInv'
    BY NextTypeInv DEF ClassesInv
  <2>2. \A c \in Companies : /\ History[c] = {Entry(row) : row \in classifications[c]}
                             /\ History'[c] = {Entry(row) : row \in classifications'[c]}
    BY DEF History, Entry
  <2>3. History' \in [Companies -> SUBSET Dating!RowOf]
    <3>1. \A c \in Companies : classifications'[c] \in SUBSET Classification
      BY <2>1 DEF TypeInv, TypeOK
    <3> QED
      BY <2>2, <3>1, EntryTypes DEF History
  <2>4. ASSUME NEW c \in Companies
        PROVE  History'[c] = History[c] \/ Dating!Revised(History[c], History'[c])
    <3>1. CASE classifications'[c] = classifications[c]
      BY <2>2, <3>1
    <3>2. CASE classifications'[c] # classifications[c]
      <4>1. PICK a \in Assets \cap {"catalog"}, code \in Codes :
              /\ phase[a] = "write"
              /\ classifications'[c] = Classified(classifications[c], code, observed_at[a])
        BY <2>1, <3>2, Classifying
      <4>2. /\ observed_at[a] \in Dates
            /\ classifications[c] \in SUBSET Classification
            /\ Until(classifications[c], observed_at[a])
        BY <2>1, <4>1 DEF TypeInv, TypeOK, Observed, ClassesInv, DatesArePast, Until
      <4>3. Dating!Revised({Entry(row) : row \in classifications[c]},
              {Entry(row) : row \in Classified(classifications[c], code, observed_at[a])})
        BY <3>2, <4>1, <4>2, ClassifiedRevises
      <4> QED
        BY <2>2, <4>1, <4>3
    <3> QED
      BY <3>1, <3>2
  <2> QED
    BY <2>3, <2>4 DEF Dating!HistoryNext
<1> QED
  BY <1>1, <1>2, ClassesInvariant, PTL DEF Spec, ImplementsDating, Dating!HistorySpec
================================================================================
