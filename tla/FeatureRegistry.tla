---------------------------- MODULE FeatureRegistry ----------------------------
(***************************************************************************)
(* Registration of the versioned feature definitions and feature sets of   *)
(* configs/features/*.yaml (FeatureRegistryService.materialize).           *)
(*                                                                         *)
(* A run works in one transaction: it finds or creates every feature, then *)
(* every set, then the members of sets that have none.  A version that     *)
(* exists with another hash is refused with a ValueError; the handler then *)
(* marks the run failed and commits, with everything flushed before.  A    *)
(* database error aborts the transaction instead.  Runs may overlap: a row *)
(* another transaction has inserted is invisible until it commits, but an  *)
(* insert with the same key waits for it.                                  *)
(*                                                                         *)
(* Features and sets are numbered in the order of the file.  A hash is the *)
(* content it is computed over.                                            *)
(***************************************************************************)
EXTENDS Naturals, Sequences, FiniteSets

CONSTANTS
    Configs,         \* the configurations that are ever deployed
    NumFeatures,     \* feature names are 1 .. NumFeatures
    NumSets,         \* set names are 1 .. NumSets
    Runs,            \* processes that materialise the asset
    MaxEdits,        \* bound: deployments of another configuration
    MaxFaults        \* bound: database errors and crashes

Absent == <<>>
FeatureNames == 1 .. NumFeatures
SetNames == 1 .. NumSets

\* A configuration names features with a version and a content, and sets with a
\* version and an ordered list of features; a validated one names each feature
\* once and only features it declares.
Declared(c) == {n \in FeatureNames : c.features[n] # Absent}
DeclaredSets(c) == {n \in SetNames : c.sets[n] # Absent}

ASSUME RegistryAssumption ==
    /\ NumFeatures \in Nat
    /\ NumSets \in Nat
    /\ MaxEdits \in Nat
    /\ MaxFaults \in Nat
    /\ \A c \in Configs :
         /\ DOMAIN c.features = FeatureNames
         /\ DOMAIN c.sets = SetNames
         /\ \A n \in DeclaredSets(c) :
              LET fs == c.sets[n].members
              IN  /\ \A i \in 1 .. Len(fs) : fs[i] \in Declared(c)
                  /\ \A i, j \in 1 .. Len(fs) : fs[i] = fs[j] => i = j

VARIABLES
    config,          \* the deployed configuration
    edits,
    faults,
    \* the committed tables; rows are [key, hash], members [key, ordinal] with
    \* the key <<set, feature>>
    definitions,
    sets,
    members,
    registered,      \* configurations with a succeeded run on record
    \* the runs
    phase,           \* phase[r]: the statement materialize executes next
    registry,        \* registry[r]: the configuration r has loaded
    at,              \* at[r]: the feature or set r works on
    written          \* written[r]: rows of r's open transaction

environment == <<config, edits, faults>>
database == <<definitions, sets, members, registered>>
vars == <<environment, database, phase, registry, at, written>>

Nothing == [definitions |-> {}, sets |-> {}, members |-> {}]

TypeOK ==
    /\ config \in Configs
    /\ edits \in 0 .. MaxEdits
    /\ faults \in 0 .. MaxFaults
    /\ registered \in SUBSET Configs
    /\ phase \in [Runs -> {"idle", "find", "create", "find set", "create set",
                           "count", "insert", "succeed"}]
    /\ registry \in [Runs -> Configs]
    /\ at \in [Runs -> Nat]
    /\ DOMAIN written = Runs

Init ==
    /\ config \in Configs
    /\ edits = 0
    /\ faults = 0
    /\ definitions = {}
    /\ sets = {}
    /\ members = {}
    /\ registered = {}
    /\ phase = [r \in Runs |-> "idle"]
    /\ registry = [r \in Runs |-> config]
    /\ at = [r \in Runs |-> 1]
    /\ written = [r \in Runs |-> Nothing]
--------------------------------------------------------------------------------
(***************************************************************************)
(* The rows a configuration stands for.                                    *)
(***************************************************************************)

Definition(c, n) == [key |-> <<n, c.features[n].version>>, hash |-> c.features[n].content]

\* Mutant: the hash of a set covers the names of its members only.
SetDefinition_NamesOnly(c, n) ==
    [key |-> <<n, c.sets[n].version>>, hash |-> c.sets[n].members]

\* compute_feature_set_hash: "Hash over ordered feature members".
SetDefinition(c, n) ==
    [key |-> <<n, c.sets[n].version>>,
     hash |-> [i \in 1 .. Len(c.sets[n].members) |-> Definition(c, c.sets[n].members[i])]]

\* feature_set_id_map is keyed by the version alone: of sets with one version
\* the last takes the place of the others.
SetId(c, n) ==
    LET same == {m \in DeclaredSets(c) : c.sets[m].version = c.sets[n].version}
    IN  <<CHOOSE m \in same : \A k \in same : k <= m, c.sets[n].version>>

MemberRows(c, id, n) ==
    {[key |-> <<id, Definition(c, c.sets[n].members[i]).key>>, ordinal |-> i] :
       i \in 1 .. Len(c.sets[n].members)}
--------------------------------------------------------------------------------
(***************************************************************************)
(* Transactions.                                                           *)
(***************************************************************************)

Find(rows, key) == {row \in rows : row.key = key}

\* Another open transaction has inserted one of the keys.
Waits(r, table, keys) ==
    \E q \in Runs \ {r} : \E row \in written[q][table] : row.key \in keys

Forget(r) ==
    /\ phase' = [phase EXCEPT ![r] = "idle"]
    /\ at' = [at EXCEPT ![r] = 1]
    /\ written' = [written EXCEPT ![r] = Nothing]
    /\ registry' = [registry EXCEPT ![r] = CHOOSE c \in Configs : TRUE]

\* session.commit(): also after a refusal.
Commit(r) ==
    /\ definitions' = definitions \cup written[r].definitions
    /\ sets' = sets \cup written[r].sets
    /\ members' = members \cup written[r].members
    /\ Forget(r)
    /\ UNCHANGED environment

\* Mutant: what was flushed before a database error is committed as well.
Rollback_Committed(r) == Commit(r) /\ UNCHANGED registered

\* The transaction is aborted, the failure cannot be recorded in it either.
Rollback(r) == Forget(r) /\ UNCHANGED database
--------------------------------------------------------------------------------
(***************************************************************************)
(* materialize.                                                            *)
(***************************************************************************)

Edit ==
    /\ edits < MaxEdits
    /\ edits' = edits + 1
    /\ config' \in Configs \ {config}
    /\ UNCHANGED <<faults, database, phase, registry, at, written>>

BeginRun(r) ==
    /\ phase[r] = "idle"
    /\ phase' = [phase EXCEPT ![r] = "find"]
    /\ registry' = [registry EXCEPT ![r] = config]
    /\ UNCHANGED <<environment, database, at, written>>

Goto(r, p, n) ==
    /\ phase' = [phase EXCEPT ![r] = p]
    /\ at' = [at EXCEPT ![r] = n]
    /\ UNCHANGED <<environment, database, registry>>

\* ValueError: "Immutable-version conflict".
Refuse(r) == Commit(r) /\ UNCHANGED registered

FindFeature(r) ==
    LET c == registry[r]
        row == Definition(c, at[r])
        found == Find(definitions \cup written[r].definitions, row.key)
    IN  /\ phase[r] = "find"
        /\ \/ at[r] \notin FeatureNames /\ Goto(r, "find set", 1) /\ UNCHANGED written
           \/ at[r] \in FeatureNames \ Declared(c) /\ Goto(r, "find", at[r] + 1) /\ UNCHANGED written
           \/ /\ at[r] \in Declared(c)
              /\ \/ found = {} /\ Goto(r, "create", at[r]) /\ UNCHANGED written
                 \/ found = {row} /\ Goto(r, "find", at[r] + 1) /\ UNCHANGED written
                 \/ found \notin {{}, {row}} /\ Refuse(r)

\* uq_feature_definitions_name_version
CreateFeature(r) ==
    LET row == Definition(registry[r], at[r])
    IN  /\ phase[r] = "create"
        /\ ~ Waits(r, "definitions", {row.key})
        /\ \/ /\ Find(definitions, row.key) = {}
              /\ written' = [written EXCEPT ![r].definitions = @ \cup {row}]
              /\ Goto(r, "find", at[r] + 1)
           \/ Find(definitions, row.key) # {} /\ Rollback(r) /\ UNCHANGED environment

FindSet(r) ==
    LET c == registry[r]
        row == SetDefinition(c, at[r])
        found == Find(sets \cup written[r].sets, row.key)
    IN  /\ phase[r] = "find set"
        /\ \/ at[r] \notin SetNames /\ Goto(r, "count", 1) /\ UNCHANGED written
           \/ at[r] \in SetNames \ DeclaredSets(c) /\ Goto(r, "find set", at[r] + 1) /\ UNCHANGED written
           \/ /\ at[r] \in DeclaredSets(c)
              /\ \/ found = {} /\ Goto(r, "create set", at[r]) /\ UNCHANGED written
                 \/ found = {row} /\ Goto(r, "find set", at[r] + 1) /\ UNCHANGED written
                 \/ found \notin {{}, {row}} /\ Refuse(r)

\* uq_feature_set_definitions_name_version
CreateSet(r) ==
    LET row == SetDefinition(registry[r], at[r])
    IN  /\ phase[r] = "create set"
        /\ ~ Waits(r, "sets", {row.key})
        /\ \/ /\ Find(sets, row.key) = {}
              /\ written' = [written EXCEPT ![r].sets = @ \cup {row}]
              /\ Goto(r, "find set", at[r] + 1)
           \/ Find(sets, row.key) # {} /\ Rollback(r) /\ UNCHANGED environment

MembersOf(rows, id) == {m \in rows : m.key[1] = id}

\* Mutant: a set that was there already is taken to have its members.
HasMembers_WithItsRow(r, id) ==
    \/ Find(sets, id) # {}
    \/ MembersOf(written[r].members, id) # {}

\* count_feature_set_members
HasMembers(r, id) == MembersOf(members \cup written[r].members, id) # {}

CountMembers(r) ==
    LET c == registry[r]
    IN  /\ phase[r] = "count"
        /\ \/ at[r] \notin SetNames /\ Goto(r, "succeed", 1)
           \/ at[r] \in SetNames \ DeclaredSets(c) /\ Goto(r, "count", at[r] + 1)
           \/ /\ at[r] \in DeclaredSets(c)
              /\ IF HasMembers(r, SetId(c, at[r])) THEN Goto(r, "count", at[r] + 1)
                 ELSE Goto(r, "insert", at[r])
        /\ UNCHANGED written

\* ON CONFLICT DO NOTHING on (feature_set_id, feature_definition_id).
InsertMembers(r) ==
    LET c == registry[r]
        new == MemberRows(c, SetId(c, at[r]), at[r])
    IN  /\ phase[r] = "insert"
        /\ ~ Waits(r, "members", {m.key : m \in new})
        /\ written' = [written EXCEPT ![r].members =
             @ \cup {m \in new : Find(members, m.key) = {}}]
        /\ Goto(r, "count", at[r] + 1)

Succeed(r) ==
    /\ phase[r] = "succeed"
    /\ registered' = registered \cup {registry[r]}
    /\ Commit(r)

\* A statement fails or the process dies.
Fails(r) ==
    /\ phase[r] # "idle"
    /\ faults < MaxFaults
    /\ faults' = faults + 1
    /\ Rollback(r)
    /\ UNCHANGED <<config, edits>>

RunStep(r) ==
    \/ FindFeature(r) \/ CreateFeature(r)
    \/ FindSet(r) \/ CreateSet(r)
    \/ CountMembers(r) \/ InsertMembers(r)
    \/ Succeed(r)

Next == Edit \/ \E r \in Runs : BeginRun(r) \/ RunStep(r) \/ Fails(r)

Spec == Init /\ [][Next]_vars

\* A run that was started goes on and the asset keeps being materialised.
FairSpec == Spec /\ \A r \in Runs : WF_vars(BeginRun(r)) /\ WF_vars(RunStep(r))
--------------------------------------------------------------------------------
(***************************************************************************)
(* Properties.                                                             *)
(***************************************************************************)

\* Two sets of one version in one file, which only one of them survives: the
\* members of the first are stored for the last.
SharedVersions ==
    UNION {{c.sets[n].version : n \in {m \in DeclaredSets(c) : SetId(c, m)[1] # m}} :
             c \in Configs}

Registers(c) ==
    /\ \A n \in Declared(c) : Definition(c, n) \in definitions
    /\ \A n \in DeclaredSets(c) :
         /\ \E row \in sets : row.key = <<n, c.sets[n].version>>
         /\ c.sets[n].version \notin SharedVersions =>
              MembersOf(members, <<n, c.sets[n].version>>)
                = MemberRows(c, <<n, c.sets[n].version>>, n)

\* Every configuration a run has ever succeeded with is in the tables, feature
\* by feature and set by set with its members in order, whatever was edited
\* since, whichever runs were refused half-way or met in the unique indexes
\* ("Definitions are immutable: same version + different hash raises an error").
\* Excepted are the members of sets that share a version.
RegisteredStays == \A c \in registered : Registers(c)

\* A run that does not succeed leaves nothing behind, except that a refused
\* one commits the definitions and sets it has flushed ("Uses one transaction
\* for all writes.  Rolls back on any error"), never a member.
OnlyRefusalLeavesRows ==
    [][(\A r \in Runs : ~Succeed(r)) =>
         /\ members' = members
         /\ <<definitions, sets>>' # <<definitions, sets>> =>
              \E r \in Runs : phase[r] \in {"find", "find set"} /\ phase'[r] = "idle"]_vars

\* c reuses a version with another content than some other configuration.
Reuses(c) ==
    \E o \in Configs :
      \/ \E n \in Declared(c) \cap Declared(o) :
           Definition(c, n) # Definition(o, n) /\ Definition(c, n).key = Definition(o, n).key
      \/ \E n \in DeclaredSets(c) \cap DeclaredSets(o) :
           /\ SetDefinition(c, n) # SetDefinition(o, n)
           /\ SetDefinition(c, n).key = SetDefinition(o, n).key

\* What refused, failed and overlapping runs leave behind never stands in the
\* way of a configuration with versions of its own: once deployed for good it
\* is registered.
FreshIsRegistered == <>[](Reuses(config) \/ (config \in registered /\ Registers(config)))
================================================================================
