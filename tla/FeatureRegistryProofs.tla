------------------------- MODULE FeatureRegistryProofs -------------------------
(***************************************************************************)
(* Proofs about FeatureRegistry, for any configurations, any number of     *)
(* overlapping runs, edits, errors and crashes.                            *)
(***************************************************************************)
EXTENDS FeatureRegistry, TLAPS

Early == {"find", "create"}
Middle == {"find set", "create set"}
Late == {"count", "insert", "succeed"}

\* What a run's transaction sees.
Definitions(r) == definitions \cup written[r].definitions
Sets(r) == sets \cup written[r].sets
Members(r) == members \cup written[r].members

\* Set n of c keeps its members under its own key.
Own(c, n) == n \in DeclaredSets(c) /\ c.sets[n].version \notin SharedVersions

Shaped(x) == x = [definitions |-> x.definitions, sets |-> x.sets, members |-> x.members]

Typed ==
    /\ config \in Configs
    /\ registered \in SUBSET Configs
    /\ phase \in [Runs -> {"idle"} \cup Early \cup Middle \cup Late]
    /\ registry \in [Runs -> Configs]
    /\ at \in [Runs -> Nat \ {0}]
    /\ written = [r \in Runs |-> written[r]]
    /\ \A r \in Runs :
         /\ Shaped(written[r])
         /\ phase[r] = "idle" => at[r] = 1
         /\ phase[r] = "create" => at[r] \in Declared(registry[r])
         /\ phase[r] \in {"create set", "insert"} => at[r] \in DeclaredSets(registry[r])
         /\ phase[r] \notin Late => written[r].members = {}

\* A run goes through the features, then the sets, then the members.
FeaturesFound ==
    \A r \in Runs : \A n \in Declared(registry[r]) :
      \/ phase[r] \in Early /\ n < at[r]
      \/ phase[r] \in Middle \cup Late
      => Definition(registry[r], n) \in Definitions(r)

SetsFound ==
    \A r \in Runs : \A n \in DeclaredSets(registry[r]) :
      \/ phase[r] \in Middle /\ n < at[r]
      \/ phase[r] \in Late
      => SetDefinition(registry[r], n) \in Sets(r)

MembersFound ==
    \A r \in Runs : \A n \in SetNames :
      /\ Own(registry[r], n)
      /\ \/ phase[r] \in {"count", "insert"} /\ n < at[r]
         \/ phase[r] = "succeed"
      => MemberRows(registry[r], SetDefinition(registry[r], n).key, n) \subseteq Members(r)

\* A set that is about to be inserted is not in the transaction yet.
CreatesNew ==
    \A r \in Runs : phase[r] = "create set" =>
      Find(written[r].sets, SetDefinition(registry[r], at[r]).key) = {}

\* No key of a set occurs twice, in the table or in open transactions.
SetsAreUnique ==
    \A r, q \in Runs : \A x \in Sets(r), y \in Sets(q) : x.key = y.key => x = y

\* A set has all its members or none.
Full(id, hash) == {[key |-> <<id, hash[i].key>>, ordinal |-> i] : i \in DOMAIN hash}

WholeIn(rows, id, table) ==
    MembersOf(rows, id) = {} \/ \E x \in table : x.key = id /\ MembersOf(rows, id) = Full(id, x.hash)

MembersAreWhole ==
    \A c \in Configs, n \in SetNames : Own(c, n) =>
      LET id == SetDefinition(c, n).key
      IN  /\ WholeIn(members, id, sets)
          /\ \A r \in Runs : WholeIn(written[r].members, id, Sets(r))

RegisteredIsStored ==
    \A c \in registered :
      /\ Runs # {}
      /\ \A n \in Declared(c) : Definition(c, n) \in definitions
      /\ \A n \in DeclaredSets(c) :
           /\ SetDefinition(c, n) \in sets
           /\ Own(c, n) => MemberRows(c, SetDefinition(c, n).key, n) \subseteq members

RegistryInv ==
    /\ Typed
    /\ FeaturesFound
    /\ SetsFound
    /\ MembersFound
    /\ CreatesNew
    /\ SetsAreUnique
    /\ MembersAreWhole
    /\ RegisteredIsStored

--------------------------------------------------------------------------------
(* Rows. *)

LEMMA OwnKey ==
    ASSUME NEW c \in Configs, NEW n \in DeclaredSets(c), c.sets[n].version \notin SharedVersions
    PROVE  SetId(c, n) = SetDefinition(c, n).key
<1>1. SetId(c, n)[1] = n
  BY DEF SharedVersions
<1>2. SetId(c, n)[2] = c.sets[n].version /\ SetId(c, n) = <<SetId(c, n)[1], SetId(c, n)[2]>>
  BY DEF SetId
<1> QED
  BY <1>1, <1>2 DEF SetDefinition

\* A key of an own set is the identifier of that set only.
LEMMA OwnId ==
    ASSUME NEW c \in Configs, NEW n \in DeclaredSets(c),
           NEW d \in Configs, NEW m \in SetNames, Own(d, m),
           SetId(c, n) = SetDefinition(d, m).key
    PROVE  Own(c, n) /\ SetDefinition(c, n).key = SetDefinition(d, m).key
<1>1. SetId(c, n)[2] = c.sets[n].version
  BY DEF SetId
<1>2. SetDefinition(d, m).key[2] = d.sets[m].version
  BY DEF SetDefinition
<1>3. c.sets[n].version \notin SharedVersions
  BY <1>1, <1>2 DEF Own
<1> QED
  BY <1>3, OwnKey DEF Own

LEMMA FullIsMembers ==
    ASSUME NEW c, NEW n, NEW id PROVE MemberRows(c, id, n) = Full(id, SetDefinition(c, n).hash)
<1>1. DOMAIN SetDefinition(c, n).hash = 1 .. Len(c.sets[n].members)
  BY DEF SetDefinition
<1>2. \A i \in 1 .. Len(c.sets[n].members) :
        SetDefinition(c, n).hash[i] = Definition(c, c.sets[n].members[i])
  BY DEF SetDefinition
<1> QED
  BY <1>1, <1>2 DEF MemberRows, Full

--------------------------------------------------------------------------------
(* Steps. *)

Same(r) ==
    /\ phase'[r] = phase[r] /\ registry'[r] = registry[r]
    /\ at'[r] = at[r] /\ written'[r] = written[r]

Idles(r) ==
    phase'[r] = "idle" /\ at'[r] = 1 /\ written'[r] = Nothing /\ registry'[r] \in Configs

\* A query, after which the transaction goes on.
Looks(r, c, n) ==
    /\ written'[r] = written[r]
    /\ \/ /\ phase[r] = "find" /\ n \notin FeatureNames
          /\ phase'[r] = "find set" /\ at'[r] = 1
       \/ /\ phase[r] = "find" /\ n \in FeatureNames
          /\ n \in Declared(c) => Definition(c, n) \in Definitions(r)
          /\ phase'[r] = "find" /\ at'[r] = n + 1
       \/ /\ phase[r] = "find" /\ n \in Declared(c)
          /\ phase'[r] = "create" /\ at'[r] = n
       \/ /\ phase[r] = "find set" /\ n \notin SetNames
          /\ phase'[r] = "count" /\ at'[r] = 1
       \/ /\ phase[r] = "find set" /\ n \in SetNames
          /\ n \in DeclaredSets(c) => SetDefinition(c, n) \in Sets(r)
          /\ phase'[r] = "find set" /\ at'[r] = n + 1
       \/ /\ phase[r] = "find set" /\ n \in DeclaredSets(c)
          /\ Find(Sets(r), SetDefinition(c, n).key) = {}
          /\ phase'[r] = "create set" /\ at'[r] = n
       \/ /\ phase[r] = "count" /\ n \notin SetNames
          /\ phase'[r] = "succeed" /\ at'[r] = 1
       \/ /\ phase[r] = "count" /\ n \in SetNames
          /\ n \in DeclaredSets(c) => HasMembers(r, SetId(c, n))
          /\ phase'[r] = "count" /\ at'[r] = n + 1
       \/ /\ phase[r] = "count" /\ n \in DeclaredSets(c)
          /\ phase'[r] = "insert" /\ at'[r] = n

AddsFeature(r, c, n) ==
    /\ phase[r] = "create" /\ phase'[r] = "find" /\ at'[r] = n + 1
    /\ written'[r] = [written[r] EXCEPT !.definitions = @ \cup {Definition(c, n)}]

AddsSet(r, c, n) ==
    /\ phase[r] = "create set" /\ phase'[r] = "find set" /\ at'[r] = n + 1
    /\ ~Waits(r, "sets", {SetDefinition(c, n).key})
    /\ Find(sets, SetDefinition(c, n).key) = {}
    /\ written'[r] = [written[r] EXCEPT !.sets = @ \cup {SetDefinition(c, n)}]

AddsMembers(r, c, n) ==
    /\ phase[r] = "insert" /\ phase'[r] = "count" /\ at'[r] = n + 1
    /\ written'[r] = [written[r] EXCEPT !.members =
         @ \cup {m \in MemberRows(c, SetId(c, n), n) : Find(members, m.key) = {}}]

Moves(r) ==
    /\ registry'[r] = registry[r]
    /\ UNCHANGED database
    /\ \/ Looks(r, registry[r], at[r])
       \/ AddsFeature(r, registry[r], at[r])
       \/ AddsSet(r, registry[r], at[r])
       \/ AddsMembers(r, registry[r], at[r])

\* A transaction ends with a commit.
Commits(r) ==
    /\ definitions' = definitions \cup written[r].definitions
    /\ sets' = sets \cup written[r].sets
    /\ members' = members \cup written[r].members
    /\ Idles(r)
    /\ registered' = registered \/ Succeed(r)

LEMMA Forgetting ==
    ASSUME Typed, NEW r \in Runs, Forget(r)
    PROVE  /\ Idles(r) /\ \A q \in Runs \ {r} : Same(q)
           /\ phase' \in [Runs -> {"idle"} \cup Early \cup Middle \cup Late]
           /\ registry' \in [Runs -> Configs] /\ at' \in [Runs -> Nat \ {0}]
           /\ written' = [q \in Runs |-> written'[q]]
<1>1. (CHOOSE c \in Configs : TRUE) \in Configs
  BY DEF Typed
<1>2. /\ phase \in [Runs -> {"idle"} \cup Early \cup Middle \cup Late]
      /\ registry \in [Runs -> Configs] /\ at \in [Runs -> Nat \ {0}]
      /\ written = [q \in Runs |-> written[q]]
  BY DEF Typed
<1>3. /\ phase' = [phase EXCEPT ![r] = "idle"] /\ at' = [at EXCEPT ![r] = 1]
      /\ written' = [written EXCEPT ![r] = Nothing]
      /\ registry' = [registry EXCEPT ![r] = CHOOSE c \in Configs : TRUE]
  BY DEF Forget
<1>4. Idles(r) /\ \A q \in Runs \ {r} : Same(q)
  BY <1>2, <1>3 DEF Idles, Same
<1> HIDE DEF Early, Middle, Late
<1> QED
  BY <1>1, <1>2, <1>3, <1>4

LEMMA Steps ==
    ASSUME Typed, [Next]_vars
    PROVE  \/ UNCHANGED database /\ \A q \in Runs : Same(q)
           \/ \E r \in Runs :
                /\ \A q \in Runs \ {r} : Same(q)
                /\ \/ UNCHANGED database /\ (BeginRun(r) \/ Idles(r) \/ Moves(r))
                   \/ Commits(r)
<1>1. CASE UNCHANGED vars
  BY <1>1 DEF vars, Same
<1>2. CASE Edit
  BY <1>2 DEF Edit, Same
<1>3. ASSUME NEW r \in Runs, BeginRun(r)
      PROVE  UNCHANGED database /\ \A q \in Runs \ {r} : Same(q)
  BY <1>3 DEF BeginRun, Typed, Same
<1>4. ASSUME NEW r \in Runs, Rollback(r)
      PROVE  UNCHANGED database /\ Idles(r) /\ \A q \in Runs \ {r} : Same(q)
  BY <1>4, Forgetting DEF Rollback
<1>5. ASSUME NEW r \in Runs, Commit(r), registered' = registered \/ Succeed(r)
      PROVE  Commits(r) /\ \A q \in Runs \ {r} : Same(q)
  BY <1>5, Forgetting DEF Commit, Commits
<1>6. ASSUME NEW r \in Runs, NEW p, NEW n, Goto(r, p, n),
             written' = written \/ \E x : written' = [written EXCEPT ![r] = x]
      PROVE  /\ UNCHANGED database /\ registry'[r] = registry[r]
             /\ phase'[r] = p /\ at'[r] = n
             /\ \A q \in Runs \ {r} : Same(q)
  BY <1>6 DEF Goto, Typed, Same
<1>7. ASSUME NEW r \in Runs, RunStep(r)
      PROVE  /\ \A q \in Runs \ {r} : Same(q)
             /\ \/ UNCHANGED database /\ (Idles(r) \/ Moves(r))
                \/ Commits(r)
  <2>1. CASE FindFeature(r)
    <3>1. CASE Refuse(r)
      BY <1>5, <3>1 DEF Refuse
    <3>2. CASE ~Refuse(r)
      <4>1. /\ phase[r] = "find" /\ written' = written
            /\ \/ at[r] \notin FeatureNames /\ Goto(r, "find set", 1)
               \/ at[r] \in FeatureNames \ Declared(registry[r]) /\ Goto(r, "find", at[r] + 1)
               \/ at[r] \in Declared(registry[r]) /\ Goto(r, "create", at[r])
               \/ /\ at[r] \in Declared(registry[r]) /\ Goto(r, "find", at[r] + 1)
                  /\ Find(Definitions(r), Definition(registry[r], at[r]).key)
                       = {Definition(registry[r], at[r])}
        BY <2>1, <3>2 DEF FindFeature, Definitions
      <4>2. Definition(registry[r], at[r]) \in
              Find(Definitions(r), Definition(registry[r], at[r]).key)
              => Definition(registry[r], at[r]) \in Definitions(r)
        BY DEF Find
      <4>3. at[r] \in Declared(registry[r]) => at[r] \in FeatureNames
        BY DEF Declared
      <4> QED
        BY <1>6, <4>1, <4>2, <4>3 DEF Moves, Looks
    <3> QED
      BY <3>1, <3>2
  <2>2. CASE FindSet(r)
    <3>1. CASE Refuse(r)
      BY <1>5, <3>1 DEF Refuse
    <3>2. CASE ~Refuse(r)
      <4>1. /\ phase[r] = "find set" /\ written' = written
            /\ \/ at[r] \notin SetNames /\ Goto(r, "count", 1)
               \/ at[r] \in SetNames \ DeclaredSets(registry[r]) /\ Goto(r, "find set", at[r] + 1)
               \/ /\ at[r] \in DeclaredSets(registry[r]) /\ Goto(r, "create set", at[r])
                  /\ Find(Sets(r), SetDefinition(registry[r], at[r]).key) = {}
               \/ /\ at[r] \in DeclaredSets(registry[r]) /\ Goto(r, "find set", at[r] + 1)
                  /\ Find(Sets(r), SetDefinition(registry[r], at[r]).key)
                       = {SetDefinition(registry[r], at[r])}
        BY <2>2, <3>2 DEF FindSet, Sets
      <4>2. SetDefinition(registry[r], at[r]) \in
              Find(Sets(r), SetDefinition(registry[r], at[r]).key)
              => SetDefinition(registry[r], at[r]) \in Sets(r)
        BY DEF Find
      <4>3. at[r] \in DeclaredSets(registry[r]) => at[r] \in SetNames
        BY DEF DeclaredSets
      <4> QED
        BY <1>6, <4>1, <4>2, <4>3 DEF Moves, Looks
    <3> QED
      BY <3>1, <3>2
  <2>3. CASE CreateFeature(r)
    <3>1. CASE Rollback(r)
      BY <1>4, <3>1
    <3>2. CASE ~Rollback(r)
      <4>1. /\ phase[r] = "create" /\ Goto(r, "find", at[r] + 1)
            /\ written' = [written EXCEPT ![r].definitions =
                             @ \cup {Definition(registry[r], at[r])}]
        BY <2>3, <3>2 DEF CreateFeature
      <4>2. written' = [written EXCEPT ![r] =
              [written[r] EXCEPT !.definitions = @ \cup {Definition(registry[r], at[r])}]]
        BY <4>1
      <4>3. written'[r] = [written[r] EXCEPT !.definitions = @ \cup {Definition(registry[r], at[r])}]
        BY <4>2 DEF Typed
      <4> QED
        BY <1>6, <4>1, <4>2, <4>3 DEF Moves, AddsFeature
    <3> QED
      BY <3>1, <3>2
  <2>4. CASE CreateSet(r)
    <3>1. CASE Rollback(r)
      BY <1>4, <3>1
    <3>2. CASE ~Rollback(r)
      <4>1. /\ phase[r] = "create set" /\ Goto(r, "find set", at[r] + 1)
            /\ ~Waits(r, "sets", {SetDefinition(registry[r], at[r]).key})
            /\ Find(sets, SetDefinition(registry[r], at[r]).key) = {}
            /\ written' = [written EXCEPT ![r].sets =
                             @ \cup {SetDefinition(registry[r], at[r])}]
        BY <2>4, <3>2 DEF CreateSet
      <4>2. written' = [written EXCEPT ![r] =
              [written[r] EXCEPT !.sets = @ \cup {SetDefinition(registry[r], at[r])}]]
        BY <4>1
      <4>3. written'[r] = [written[r] EXCEPT !.sets = @ \cup {SetDefinition(registry[r], at[r])}]
        BY <4>2 DEF Typed
      <4> QED
        BY <1>6, <4>1, <4>2, <4>3 DEF Moves, AddsSet
    <3> QED
      BY <3>1, <3>2
  <2>5. CASE CountMembers(r)
    <3>1. /\ phase[r] = "count" /\ written' = written
          /\ \/ at[r] \notin SetNames /\ Goto(r, "succeed", 1)
             \/ at[r] \in SetNames \ DeclaredSets(registry[r]) /\ Goto(r, "count", at[r] + 1)
             \/ /\ at[r] \in DeclaredSets(registry[r]) /\ Goto(r, "count", at[r] + 1)
                /\ HasMembers(r, SetId(registry[r], at[r]))
             \/ at[r] \in DeclaredSets(registry[r]) /\ Goto(r, "insert", at[r])
      BY <2>5 DEF CountMembers
    <3>2. at[r] \in DeclaredSets(registry[r]) => at[r] \in SetNames
      BY DEF DeclaredSets
    <3> QED
      BY <1>6, <3>1, <3>2 DEF Moves, Looks
  <2>6. CASE InsertMembers(r)
    <3> DEFINE new == {m \in MemberRows(registry[r], SetId(registry[r], at[r]), at[r]) :
                         Find(members, m.key) = {}}
    <3>1. /\ phase[r] = "insert" /\ Goto(r, "count", at[r] + 1)
          /\ written' = [written EXCEPT ![r].members = @ \cup new]
      BY <2>6 DEF InsertMembers
    <3>2. written' = [written EXCEPT ![r] = [written[r] EXCEPT !.members = @ \cup new]]
      BY <3>1
    <3>3. written'[r] = [written[r] EXCEPT !.members = @ \cup new]
      BY <3>2 DEF Typed
    <3> QED
      BY <1>6, <3>1, <3>2, <3>3 DEF Moves, AddsMembers
  <2>7. CASE Succeed(r)
    BY <1>5, <2>7 DEF Succeed
  <2> QED
    BY <1>7, <2>1, <2>2, <2>3, <2>4, <2>5, <2>6, <2>7 DEF RunStep
<1>8. ASSUME NEW r \in Runs, RunStep(r) \/ Fails(r)
      PROVE  /\ \A q \in Runs \ {r} : Same(q)
             /\ \/ UNCHANGED database /\ (Idles(r) \/ Moves(r))
                \/ Commits(r)
  BY <1>4, <1>7, <1>8 DEF Fails
<1> QED
  BY <1>1, <1>2, <1>3, <1>8 DEF Next

LEMMA Successor == 1 \in Nat \ {0} /\ \A k \in Nat \ {0} : k + 1 \in Nat \ {0}
  OBVIOUS

LEMMA NextTyped == Typed /\ [Next]_vars => Typed'
<1> SUFFICES ASSUME Typed, [Next]_vars PROVE Typed'
  OBVIOUS
<1> DEFINE Phases == {"idle"} \cup Early \cup Middle \cup Late
           Local(r) ==
             /\ phase'[r] \in Phases /\ registry'[r] \in Configs
             /\ at'[r] \in Nat \ {0} /\ Shaped(written'[r])
             /\ phase'[r] = "idle" => at'[r] = 1
             /\ phase'[r] = "create" => at'[r] \in Declared(registry'[r])
             /\ phase'[r] \in {"create set", "insert"} => at'[r] \in DeclaredSets(registry'[r])
             /\ phase'[r] \notin Late => written'[r].members = {}
<1>1. config' \in Configs /\ registered' \in SUBSET Configs
  BY DEF Typed, Next, vars, environment, database, Edit, BeginRun, RunStep, FindFeature,
     CreateFeature, FindSet, CreateSet, CountMembers, InsertMembers, Succeed, Fails, Goto,
     Refuse, Commit, Rollback
<1>2. /\ phase' = [r \in Runs |-> phase'[r]] /\ registry' = [r \in Runs |-> registry'[r]]
      /\ at' = [r \in Runs |-> at'[r]] /\ written' = [r \in Runs |-> written'[r]]
  <2>1. /\ phase = [r \in Runs |-> phase[r]] /\ registry = [r \in Runs |-> registry[r]]
        /\ at = [r \in Runs |-> at[r]] /\ written = [r \in Runs |-> written[r]]
    BY DEF Typed
  <2> DEFINE Updated(f, g) == g = f \/ \E r, x : g = [f EXCEPT ![r] = x]
  <2>2. Updated(phase, phase') /\ Updated(registry, registry') /\ Updated(at, at')
    <3>1. ASSUME NEW r, Forget(r) \/ BeginRun(r) \/ \E p, n : Goto(r, p, n)
          PROVE  Updated(phase, phase') /\ Updated(registry, registry') /\ Updated(at, at')
      BY <3>1 DEF Forget, BeginRun, Goto
    <3>2. ASSUME NEW r \in Runs, RunStep(r) PROVE Forget(r) \/ \E p, n : Goto(r, p, n)
      BY <3>2 DEF RunStep, FindFeature, CreateFeature, FindSet, CreateSet, CountMembers,
         InsertMembers, Succeed, Refuse, Commit, Rollback
    <3>3. CASE UNCHANGED vars \/ Edit
      BY <3>3 DEF vars, Edit
    <3> QED
      BY <3>1, <3>2, <3>3 DEF Next, Fails, Rollback
  <2>3. \/ written' = written
        \/ \E r, x : \/ written' = [written EXCEPT ![r] = x]
                     \/ written' = [written EXCEPT ![r].definitions = @ \cup x]
                     \/ written' = [written EXCEPT ![r].sets = @ \cup x]
                     \/ written' = [written EXCEPT ![r].members = @ \cup x]
    <3>1. CASE \E r \in Runs : RunStep(r)
      <4>1. PICK r \in Runs : RunStep(r)
        BY <3>1
      <4>2. CASE Forget(r)
        BY <4>2 DEF Forget
      <4>3. CASE ~Forget(r)
        BY <4>1, <4>3 DEF RunStep, FindFeature, CreateFeature, FindSet, CreateSet, CountMembers,
         InsertMembers, Succeed, Refuse, Commit, Rollback
      <4> QED
        BY <4>2, <4>3
    <3>2. CASE \E r \in Runs : Fails(r)
      <4>1. PICK r \in Runs : written' = [written EXCEPT ![r] = Nothing]
        BY <3>2 DEF Fails, Rollback, Forget
      <4> QED
        BY <4>1
    <3>3. CASE UNCHANGED vars \/ Edit \/ \E r \in Runs : BeginRun(r)
      BY <3>3 DEF vars, Edit, BeginRun
    <3> QED
      BY <3>1, <3>2, <3>3 DEF Next
  <2>4. written' = [r \in Runs |-> written'[r]]
    BY <2>1, <2>3
  <2> QED
    BY <2>1, <2>2, <2>4
<1>3. ASSUME NEW r \in Runs PROVE Local(r)
  <2> USE DEF Early, Middle, Late
  <2>1. CASE Same(r)
    BY <2>1 DEF Same, Typed
  <2>2. CASE Idles(r)
    BY <2>2 DEF Idles, Nothing, Shaped
  <2>3. CASE BeginRun(r)
    BY <2>3 DEF BeginRun, Typed
  <2>4. CASE Moves(r)
    <3> DEFINE c == registry[r]
               n == at[r]
    <3>5. /\ registry'[r] = c /\ c \in Configs /\ n \in Nat \ {0} /\ Shaped(written[r])
          /\ phase[r] = "create" => n \in Declared(c)
          /\ phase[r] \in {"create set", "insert"} => n \in DeclaredSets(c)
          /\ phase[r] \notin Late => written[r].members = {}
      BY <2>4 DEF Moves, Typed
    <3> HIDE DEF c, n
    <3>6. 1 \in Nat \ {0} /\ n + 1 \in Nat \ {0}
      BY <3>5, Successor
    <3>1. CASE Looks(r, c, n)
      <4> HIDE DEF Early, Middle
      <4>1. /\ written'[r] = written[r] /\ at'[r] \in {1, n, n + 1}
            /\ phase'[r] # "idle"
            /\ phase'[r] = "create" => at'[r] \in Declared(c)
            /\ phase'[r] \in {"create set", "insert"} => at'[r] \in DeclaredSets(c)
            /\ phase'[r] \notin Late => phase[r] \notin Late
        BY <3>1 DEF Looks
      <4>2. phase'[r] \in Phases
        BY <3>1 DEF Looks, Early, Middle
      <4>3. at'[r] \in Nat \ {0}
        BY <3>5, <3>6, <4>1
      <4> QED
        BY <3>5, <4>1, <4>2, <4>3
    <3>2. CASE AddsFeature(r, c, n)
      BY <3>5, <3>6, <3>2 DEF AddsFeature, Shaped
    <3>3. CASE AddsSet(r, c, n)
      BY <3>5, <3>6, <3>3 DEF AddsSet, Shaped
    <3>4. CASE AddsMembers(r, c, n)
      <4>1. phase'[r] = "count" /\ at'[r] = n + 1 /\ Shaped(written'[r])
        BY <3>5, <3>4 DEF AddsMembers, Shaped
      <4>2. phase'[r] \in Phases
        BY <4>1
      <4>3. registry'[r] \in Configs
        BY <3>5
      <4>4. at'[r] \in Nat \ {0}
        BY <3>5, <3>6, <4>1
      <4>5. /\ phase'[r] # "create" /\ phase'[r] # "idle"
            /\ phase'[r] \notin {"create set", "insert"}
            /\ phase'[r] \in Late
        BY <4>1
      <4> QED
        BY <4>1, <4>2, <4>3, <4>4, <4>5
    <3> QED
      BY <2>4, <3>1, <3>2, <3>3, <3>4 DEF Moves, c, n
  <2> QED
    BY <2>1, <2>2, <2>3, <2>4, Steps DEF Commits
<1> QED
  BY <1>1, <1>2, <1>3 DEF Typed

\* Tables only grow, and so does what a transaction sees until it ends.
LEMMA Growth ==
    ASSUME Typed, [Next]_vars
    PROVE  /\ definitions \subseteq definitions' /\ sets \subseteq sets' /\ members \subseteq members'
           /\ \A q \in Runs :
                /\ Same(q) \/ Idles(q) \/ BeginRun(q) \/ Moves(q)
                /\ \/ Idles(q)
                   \/ /\ Definitions(q) \subseteq Definitions(q)' /\ Sets(q) \subseteq Sets(q)'
                      /\ Members(q) \subseteq Members(q)'
<1>1. /\ definitions \subseteq definitions' /\ sets \subseteq sets' /\ members \subseteq members'
  BY Steps DEF database, Commits
<1>2. ASSUME NEW q \in Runs PROVE Same(q) \/ Idles(q) \/ BeginRun(q) \/ Moves(q)
  BY Steps DEF Commits
<1>3. ASSUME NEW q \in Runs, ~Idles(q)
      PROVE  /\ written[q].definitions \subseteq written'[q].definitions
             /\ written[q].sets \subseteq written'[q].sets
             /\ written[q].members \subseteq written'[q].members
  <2>1. CASE Same(q)
    BY <2>1 DEF Same
  <2>2. CASE BeginRun(q)
    BY <2>2 DEF BeginRun
  <2>3. CASE Moves(q)
    <3>1. Shaped(written[q])
      BY DEF Typed
    <3>2. CASE Looks(q, registry[q], at[q])
      BY <3>2 DEF Looks
    <3>3. CASE AddsFeature(q, registry[q], at[q])
      BY <3>1, <3>3 DEF AddsFeature, Shaped
    <3>4. CASE AddsSet(q, registry[q], at[q])
      BY <3>1, <3>4 DEF AddsSet, Shaped
    <3>5. CASE AddsMembers(q, registry[q], at[q])
      BY <3>1, <3>5 DEF AddsMembers, Shaped
    <3> QED
      BY <2>3, <3>2, <3>3, <3>4, <3>5 DEF Moves
  <2> QED
    BY <1>2, <1>3, <2>1, <2>2, <2>3
<1> QED
  BY <1>1, <1>2, <1>3 DEF Definitions, Sets, Members

LEMMA NextFeaturesFound == Typed /\ FeaturesFound /\ [Next]_vars => FeaturesFound'
<1> SUFFICES ASSUME Typed, FeaturesFound, [Next]_vars, NEW r \in Runs,
                    NEW n \in Declared(registry'[r]),
                    \/ phase'[r] \in Early /\ n < at'[r]
                    \/ phase'[r] \in Middle \cup Late
             PROVE  Definition(registry'[r], n) \in Definitions(r)'
  BY DEF FeaturesFound, Declared, Definition
<1> DEFINE c == registry[r]
           Passed(k) == \/ phase[r] \in Early /\ k < at[r]
                        \/ phase[r] \in Middle \cup Late
<1>1. /\ ~Idles(r) /\ Definitions(r) \subseteq Definitions(r)'
      /\ Same(r) \/ BeginRun(r) \/ Moves(r)
  BY Growth DEF Idles, Early, Middle, Late
<1>2. at[r] \in Nat \ {0} /\ n \in 1 .. NumFeatures /\ NumFeatures \in Nat
  BY RegistryAssumption DEF Typed, Declared, FeatureNames
<1>3. registry'[r] = c /\ Passed(n) => Definition(c, n) \in Definitions(r)'
  BY <1>1 DEF FeaturesFound
<1>4. CASE Same(r)
  BY <1>3, <1>4 DEF Same
<1>5. CASE BeginRun(r)
  <2>1. phase'[r] = "find" /\ at'[r] = 1
    BY <1>5 DEF BeginRun, Typed
  <2> QED
    BY <2>1, <1>2 DEF Middle, Late
<1>6. CASE Moves(r)
  <2>1. registry'[r] = c
    BY <1>6 DEF Moves
  <2>2. CASE Looks(r, c, at[r])
    <3>1. CASE phase[r] = "find" /\ at[r] \notin FeatureNames
      BY <1>2, <1>3, <2>1, <3>1 DEF FeatureNames, Early
    <3>2. CASE phase[r] = "find" /\ at[r] \in FeatureNames /\ phase'[r] = "find" /\ at'[r] = at[r] + 1
      <4>1. n = at[r] => Definition(c, n) \in Definitions(r)
        BY <2>1, <2>2, <3>2 DEF Looks
      <4>2. n = at[r] \/ n < at[r]
        BY <1>2, <3>2 DEF Middle, Late
      <4> QED
        BY <1>1, <1>3, <2>1, <3>2, <4>1, <4>2 DEF Early
    <3>3. CASE phase[r] = "find" /\ phase'[r] = "create" /\ at'[r] = at[r]
      BY <1>3, <2>1, <3>3 DEF Early, Middle, Late
    <3>4. CASE phase[r] \in Middle \cup Late
      BY <1>3, <2>1, <3>4
    <3> QED
      BY <2>2, <3>1, <3>2, <3>3, <3>4 DEF Looks, Middle, Late
  <2>3. CASE AddsFeature(r, c, at[r])
    <3>1. Definition(c, at[r]) \in Definitions(r)'
      BY <2>3 DEF AddsFeature, Definitions, Typed, Shaped
    <3>2. n = at[r] \/ n < at[r]
      BY <1>2, <2>3 DEF AddsFeature, Middle, Late
    <3> QED
      BY <1>3, <2>1, <2>3, <3>1, <3>2 DEF AddsFeature, Early
  <2>4. CASE AddsSet(r, c, at[r]) \/ AddsMembers(r, c, at[r])
    BY <1>3, <2>1, <2>4 DEF AddsSet, AddsMembers, Middle, Late
  <2> QED
    BY <1>6, <2>2, <2>3, <2>4 DEF Moves
<1> QED
  BY <1>1, <1>4, <1>5, <1>6

LEMMA NextSetsFound == Typed /\ SetsFound /\ [Next]_vars => SetsFound'
<1> SUFFICES ASSUME Typed, SetsFound, [Next]_vars, NEW r \in Runs,
                    NEW n \in DeclaredSets(registry'[r]),
                    \/ phase'[r] \in Middle /\ n < at'[r]
                    \/ phase'[r] \in Late
             PROVE  SetDefinition(registry'[r], n) \in Sets(r)'
  BY DEF SetsFound, DeclaredSets, SetDefinition, Definition
<1> DEFINE c == registry[r]
           Passed(k) == (phase[r] \in Middle /\ k < at[r]) \/ phase[r] \in Late
<1>1. /\ ~Idles(r) /\ Sets(r) \subseteq Sets(r)'
      /\ Same(r) \/ BeginRun(r) \/ Moves(r)
  BY Growth DEF Idles, Middle, Late
<1>2. at[r] \in Nat \ {0} /\ n \in 1 .. NumSets /\ NumSets \in Nat
  BY RegistryAssumption DEF Typed, DeclaredSets, SetNames
<1>3. \A k \in Nat \ {0} : n < k + 1 => n = k \/ n < k
  BY <1>2
<1>4. ~(n < 1) /\ (at[r] \notin SetNames => n < at[r])
  BY <1>2 DEF SetNames
<1>5. registry'[r] = c /\ Passed(n) => SetDefinition(c, n) \in Sets(r)'
  BY <1>1 DEF SetsFound
<1>6. CASE Same(r)
  BY <1>5, <1>6 DEF Same
<1>7. CASE BeginRun(r)
  BY <1>7 DEF BeginRun, Typed, Middle, Late
<1>8. CASE Moves(r)
  <2>1. registry'[r] = c
    BY <1>8 DEF Moves
  <2>2. CASE Looks(r, c, at[r])
    <3>1. CASE phase[r] = "find"
      <4>1. phase'[r] = "find set" /\ at'[r] = 1
        BY <2>2, <3>1 DEF Looks, Middle, Late
      <4> QED
        BY <1>4, <4>1 DEF Late
    <3>2. CASE phase[r] = "find set" /\ at[r] \notin SetNames
      BY <1>4, <1>5, <2>1, <3>2 DEF Middle
    <3>3. CASE phase[r] = "find set" /\ at[r] \in SetNames /\ phase'[r] = "find set" /\ at'[r] = at[r] + 1
      <4>1. n = at[r] => SetDefinition(c, n) \in Sets(r)
        BY <2>1, <2>2, <3>3 DEF Looks
      <4>2. n = at[r] \/ n < at[r]
        BY <1>2, <1>3, <3>3 DEF Late
      <4> QED
        BY <1>1, <1>5, <2>1, <3>3, <4>1, <4>2 DEF Middle
    <3>4. CASE phase[r] = "find set" /\ phase'[r] = "create set" /\ at'[r] = at[r]
      BY <1>5, <2>1, <3>4 DEF Middle, Late
    <3>5. CASE phase[r] \in Late
      BY <1>5, <2>1, <3>5
    <3> QED
      BY <2>2, <3>1, <3>2, <3>3, <3>4, <3>5 DEF Looks, Late
  <2>3. CASE AddsSet(r, c, at[r])
    <3>1. SetDefinition(c, at[r]) \in Sets(r)'
      BY <2>3 DEF AddsSet, Sets, Typed, Shaped
    <3>2. n = at[r] \/ n < at[r]
      BY <1>2, <1>3, <2>3 DEF AddsSet, Late
    <3> QED
      BY <1>5, <2>1, <2>3, <3>1, <3>2 DEF AddsSet, Middle
  <2>4. CASE AddsFeature(r, c, at[r]) \/ AddsMembers(r, c, at[r])
    BY <1>5, <2>1, <2>4 DEF AddsFeature, AddsMembers, Middle, Late
  <2> QED
    BY <1>8, <2>2, <2>3, <2>4 DEF Moves
<1> QED
  BY <1>1, <1>6, <1>7, <1>8

LEMMA NextCreatesNew == Typed /\ CreatesNew /\ [Next]_vars => CreatesNew'
<1> SUFFICES ASSUME Typed, CreatesNew, [Next]_vars, NEW r \in Runs, phase'[r] = "create set"
             PROVE  Find(written'[r].sets, SetDefinition(registry'[r], at'[r]).key) = {}
  BY DEF CreatesNew, Find, SetDefinition, Definition
<1>1. Same(r) \/ Moves(r)
  BY Growth DEF Idles, BeginRun, Typed
<1>2. CASE Same(r)
  BY <1>2 DEF Same, CreatesNew
<1>3. CASE Moves(r)
  <2>1. /\ registry'[r] = registry[r] /\ at'[r] = at[r] /\ written'[r] = written[r]
        /\ Find(Sets(r), SetDefinition(registry[r], at[r]).key) = {}
    BY <1>3 DEF Moves, Looks, AddsFeature, AddsSet, AddsMembers
  <2> QED
    BY <2>1 DEF Find, Sets
<1> QED
  BY <1>1, <1>2, <1>3

LEMMA NextSetsAreUnique ==
    Typed /\ CreatesNew /\ SetsAreUnique /\ [Next]_vars => SetsAreUnique'
<1> SUFFICES ASSUME Typed, CreatesNew, SetsAreUnique, [Next]_vars PROVE SetsAreUnique'
  OBVIOUS
<1>1. CASE \E r \in Runs : AddsSet(r, registry[r], at[r]) /\ Moves(r)
                           /\ \A q \in Runs \ {r} : Same(q)
  <2>1. PICK r \in Runs : /\ AddsSet(r, registry[r], at[r]) /\ Moves(r)
                          /\ \A q \in Runs \ {r} : Same(q)
    BY <1>1
  <2> DEFINE new == SetDefinition(registry[r], at[r])
  <2> HIDE DEF new
  <2>2. \A q \in Runs : \A x \in Sets(q) : x.key # new.key
    <3>1. \A x \in sets : x.key # new.key
      BY <2>1 DEF AddsSet, Find, new
    <3>2. \A x \in written[r].sets : x.key # new.key
      BY <2>1 DEF AddsSet, CreatesNew, Find, new
    <3>3. \A q \in Runs \ {r} : \A x \in written[q].sets : x.key # new.key
      BY <2>1 DEF AddsSet, Waits, new
    <3> QED
      BY <3>1, <3>2, <3>3 DEF Sets
  <2>3. ASSUME NEW q \in Runs, NEW x \in Sets(q)' PROVE x = new \/ x \in Sets(q)
    <3>1. sets' = sets
      BY <2>1 DEF Moves, database
    <3>2. q # r => written'[q] = written[q]
      BY <2>1 DEF Same
    <3>3. written'[r].sets = written[r].sets \cup {new}
      BY <2>1 DEF AddsSet, Typed, Shaped, new
    <3> QED
      BY <2>3, <3>1, <3>2, <3>3 DEF Sets
  <2> QED
    BY <2>2, <2>3 DEF SetsAreUnique
<1>2. CASE ~ \E r \in Runs : AddsSet(r, registry[r], at[r]) /\ Moves(r)
                             /\ \A q \in Runs \ {r} : Same(q)
  <2>1. ASSUME NEW q \in Runs
        PROVE  written'[q].sets \subseteq written[q].sets
    <3>1. Same(q) \/ Idles(q) \/ BeginRun(q) \/ (Moves(q) /\ ~AddsSet(q, registry[q], at[q]))
      <4>1. CASE Same(q)
        BY <4>1
      <4>2. CASE ~Same(q)
        <5>1. /\ \A o \in Runs \ {q} : Same(o)
              /\ BeginRun(q) \/ Idles(q) \/ Moves(q)
          BY <4>2, Steps DEF Commits
        <5> QED
          BY <1>2, <5>1
      <4> QED
        BY <4>1, <4>2
    <3>2. Shaped(written[q])
      BY DEF Typed
    <3>3. CASE Moves(q) /\ ~AddsSet(q, registry[q], at[q])
      BY <3>2, <3>3 DEF Moves, Looks, AddsFeature, AddsMembers, Shaped
    <3> QED
      BY <3>1, <3>3 DEF Same, Idles, BeginRun, Nothing
  <2>2. \A x \in sets' : x \in sets \/ \E r \in Runs : x \in written[r].sets
    BY Steps DEF database, Commits
  <2>3. ASSUME NEW q \in Runs, NEW x \in Sets(q)' PROVE \E r \in Runs : x \in Sets(r)
    BY <2>1, <2>2, <2>3 DEF Sets
  <2> QED
    BY <2>3 DEF SetsAreUnique
<1> QED
  BY <1>1, <1>2

\* A whole set keeps its members whole when the table of sets grows.
LEMMA WholeStays ==
    ASSUME NEW rows, NEW id, NEW old, NEW new, old \subseteq new, WholeIn(rows, id, old)
    PROVE  WholeIn(rows, id, new)
BY DEF WholeIn

\* Two parts of the members of a set that are whole are the same.
LEMMA WholeUnion ==
    ASSUME NEW a, NEW b, NEW id, NEW old, NEW new, old \subseteq new,
           WholeIn(a, id, old), WholeIn(b, id, new),
           \A x \in old, y \in new : x.key = y.key => x = y
    PROVE  WholeIn(a \cup b, id, new)
<1>1. MembersOf(a \cup b, id) = MembersOf(a, id) \cup MembersOf(b, id)
  BY DEF MembersOf
<1>2. CASE MembersOf(a, id) = {} \/ MembersOf(b, id) = {}
  BY <1>1, <1>2 DEF WholeIn
<1>3. CASE MembersOf(a, id) # {} /\ MembersOf(b, id) # {}
  <2>1. PICK x \in old : x.key = id /\ MembersOf(a, id) = Full(id, x.hash)
    BY <1>3 DEF WholeIn
  <2>2. PICK y \in new : y.key = id /\ MembersOf(b, id) = Full(id, y.hash)
    BY <1>3 DEF WholeIn
  <2>3. x = y
    BY <2>1, <2>2
  <2> QED
    BY <1>1, <2>1, <2>2, <2>3 DEF WholeIn
<1> QED
  BY <1>2, <1>3

\* What the members a transaction sees of an own set of its configuration are.
LEMMA OwnMembers ==
    ASSUME Typed, SetsFound, SetsAreUnique, MembersAreWhole, NEW r \in Runs, phase[r] \in Late,
           NEW n, Own(registry[r], n)
    PROVE  LET id == SetDefinition(registry[r], n).key
               all == MemberRows(registry[r], id, n)
           IN  /\ SetId(registry[r], n) = id
               /\ MembersOf(members, id) \in {{}, all}
               /\ MembersOf(written[r].members, id) \in {{}, all}
<1> DEFINE c == registry[r]
           id == SetDefinition(c, n).key
           all == MemberRows(c, id, n)
<1>1. c \in Configs /\ n \in DeclaredSets(c) /\ n \in SetNames
  BY DEF Typed, Own, DeclaredSets
<1>2. SetId(c, n) = id
  BY <1>1, OwnKey DEF Own
<1>3. SetDefinition(c, n) \in Sets(r)
  BY <1>1 DEF SetsFound
<1>4. all = Full(id, SetDefinition(c, n).hash)
  BY FullIsMembers
<1>5. WholeIn(members, id, sets) /\ WholeIn(written[r].members, id, Sets(r))
  BY <1>1 DEF MembersAreWhole
<1>6. \A x \in Sets(r) : x.key = id => x = SetDefinition(c, n)
  BY <1>3 DEF SetsAreUnique
<1>7. sets \subseteq Sets(r)
  BY DEF Sets
<1> HIDE DEF id, all, c
<1>8. MembersOf(members, id) \in {{}, all} /\ MembersOf(written[r].members, id) \in {{}, all}
  BY <1>4, <1>5, <1>6, <1>7 DEF WholeIn
<1> QED
  BY <1>2, <1>8 DEF c, id, all

\* After InsertMembers the transaction has all of them.
LEMMA Inserting ==
    ASSUME Typed, SetsFound, SetsAreUnique, MembersAreWhole, NEW r \in Runs,
           AddsMembers(r, registry[r], at[r]), Own(registry[r], at[r])
    PROVE  LET id == SetDefinition(registry[r], at[r]).key
               all == MemberRows(registry[r], id, at[r])
           IN  /\ MembersOf(written'[r].members, id) \in {{}, all}
               /\ all \subseteq members \cup written'[r].members
<1> DEFINE c == registry[r]
           n == at[r]
           id == SetDefinition(c, n).key
           all == MemberRows(c, id, n)
           new == {m \in all : Find(members, m.key) = {}}
<1>1. phase[r] \in Late
  BY DEF AddsMembers, Late
<1>2. /\ SetId(c, n) = id
      /\ MembersOf(members, id) \in {{}, all}
      /\ MembersOf(written[r].members, id) \in {{}, all}
  BY <1>1, OwnMembers
<1>3. written'[r].members = written[r].members \cup new
  BY <1>2 DEF AddsMembers, Typed, Shaped
<1>4. \A m \in all : m.key[1] = id
  BY DEF MemberRows
<1> HIDE DEF id, all
<1>5. MembersOf(members, id) = {} => new = all
  BY <1>4 DEF MembersOf, Find
<1>6. MembersOf(members, id) = all => new = {}
  BY <1>4 DEF MembersOf, Find
<1>7. MembersOf(written'[r].members, id) = MembersOf(written[r].members, id) \cup new
  BY <1>3, <1>4 DEF MembersOf
<1>8. MembersOf(written'[r].members, id) \in {{}, all}
  BY <1>2, <1>5, <1>6, <1>7
<1>9. all \subseteq members \cup written'[r].members
  BY <1>2, <1>3, <1>5, <1>6 DEF MembersOf
<1> QED
  BY <1>8, <1>9 DEF id, all

LEMMA NextMembersAreWhole ==
    Typed /\ SetsFound /\ SetsAreUnique /\ MembersAreWhole /\ [Next]_vars
    => MembersAreWhole'
<1> SUFFICES ASSUME Typed, SetsFound, SetsAreUnique, MembersAreWhole, [Next]_vars,
                    NEW d \in Configs, NEW m \in SetNames, Own(d, m)
             PROVE  LET id == SetDefinition(d, m).key
                    IN  /\ WholeIn(members', id, sets')
                        /\ \A q \in Runs : WholeIn(written'[q].members, id, Sets(q)')
  BY DEF MembersAreWhole, WholeIn, Full, MembersOf, Own, DeclaredSets, SharedVersions, SetId,
     SetDefinition, Definition, Sets
<1> DEFINE id == SetDefinition(d, m).key
<1>1. WholeIn(members, id, sets) /\ \A q \in Runs : WholeIn(written[q].members, id, Sets(q))
  BY DEF MembersAreWhole
<1> HIDE DEF id
<1>2. WholeIn(members', id, sets')
  <2>1. CASE UNCHANGED database
    BY <1>1, <2>1 DEF database
  <2>2. CASE \E r \in Runs : Commits(r)
    <3>1. PICK r \in Runs : Commits(r)
      BY <2>2
    <3>2. members' = members \cup written[r].members /\ sets' = Sets(r) /\ sets \subseteq Sets(r)
      BY <3>1 DEF Commits, Sets
    <3>3. \A x \in sets, y \in Sets(r) : x.key = y.key => x = y
      BY <3>2 DEF SetsAreUnique
    <3> QED
      BY <1>1, <3>2, <3>3, WholeUnion
  <2> QED
    BY <2>1, <2>2, Steps
<1>3. ASSUME NEW q \in Runs PROVE WholeIn(written'[q].members, id, Sets(q)')
  <2>1. Idles(q) \/ Sets(q) \subseteq Sets(q)'
    BY Growth
  <2>2. CASE Idles(q)
    BY <2>2 DEF Idles, Nothing, WholeIn, MembersOf
  <2>3. CASE ~Idles(q) /\ MembersOf(written'[q].members, id) = MembersOf(written[q].members, id)
    <3>1. WholeIn(written[q].members, id, Sets(q)')
      BY <1>1, <2>1, <2>3, WholeStays
    <3> QED
      BY <2>3, <3>1 DEF WholeIn
  <2>4. CASE ~Idles(q) /\ MembersOf(written'[q].members, id) # MembersOf(written[q].members, id)
    <3> DEFINE c == registry[q]
               n == at[q]
    <3>1. AddsMembers(q, c, n)
      <4>1. Shaped(written[q])
        BY DEF Typed
      <4>2. Same(q) \/ BeginRun(q) \/ Moves(q)
        BY <2>4, Growth
      <4> QED
        BY <2>4, <4>1, <4>2
           DEF Same, BeginRun, Moves, Looks, AddsFeature, AddsSet, Shaped
    <3>2. c \in Configs /\ n \in DeclaredSets(c) /\ phase[q] \in Late
      BY <3>1 DEF Typed, AddsMembers, Late
    <3>3. SetId(c, n) = id
      <4>1. \A x \in MemberRows(c, SetId(c, n), n) : x.key[1] = SetId(c, n)
        BY DEF MemberRows
      <4>2. written'[q].members = written[q].members
              \cup {x \in MemberRows(c, SetId(c, n), n) : Find(members, x.key) = {}}
        BY <3>1 DEF AddsMembers, Typed, Shaped
      <4> QED
        BY <2>4, <4>1, <4>2 DEF MembersOf
    <3>4. Own(c, n) /\ SetDefinition(c, n).key = id
      BY <3>2, <3>3, OwnId DEF id
    <3>5. SetDefinition(c, n) \in Sets(q)'
      BY <2>1, <2>4, <3>2 DEF SetsFound
    <3>6. MembersOf(written'[q].members, id) \in {{}, MemberRows(c, id, n)}
      BY <3>1, <3>4, Inserting
    <3>7. MemberRows(c, id, n) = Full(id, SetDefinition(c, n).hash)
      BY FullIsMembers
    <3> QED
      BY <3>4, <3>5, <3>6, <3>7 DEF WholeIn
  <2> QED
    BY <2>2, <2>3, <2>4
<1> QED
  BY <1>2, <1>3 DEF id

LEMMA NextMembersFound ==
    Typed /\ SetsFound /\ MembersFound /\ SetsAreUnique /\ MembersAreWhole /\ [Next]_vars
    => MembersFound'
<1> SUFFICES ASSUME Typed, SetsFound, MembersFound, SetsAreUnique, MembersAreWhole, [Next]_vars,
                    NEW r \in Runs, NEW n \in SetNames, Own(registry'[r], n),
                    \/ phase'[r] \in {"count", "insert"} /\ n < at'[r]
                    \/ phase'[r] = "succeed"
             PROVE  MemberRows(registry'[r], SetDefinition(registry'[r], n).key, n)
                      \subseteq Members(r)'
  BY DEF MembersFound, MemberRows, Own, DeclaredSets, SharedVersions, SetId, SetDefinition,
     Definition
<1> DEFINE c == registry[r]
           Stored(k) == MemberRows(c, SetDefinition(c, k).key, k)
<1>1. /\ ~Idles(r) /\ Members(r) \subseteq Members(r)'
      /\ Same(r) \/ Moves(r)
  BY Growth DEF Idles, BeginRun, Typed
<1>2. at[r] \in Nat \ {0} /\ n \in 1 .. NumSets /\ NumSets \in Nat
  BY RegistryAssumption DEF Typed, SetNames
<1>3. /\ ~(n < 1)
      /\ at[r] \notin SetNames => n < at[r]
      /\ n < at[r] + 1 => n = at[r] \/ n < at[r]
  BY <1>2 DEF SetNames
<1>4. ASSUME registry'[r] = c,
             \/ phase[r] \in {"count", "insert"} /\ n < at[r]
             \/ phase[r] = "succeed"
      PROVE  Stored(n) \subseteq Members(r)'
  BY <1>1, <1>4 DEF MembersFound
<1>5. CASE Same(r)
  BY <1>4, <1>5 DEF Same
<1>6. CASE Moves(r)
  <2>1. registry'[r] = c
    BY <1>6 DEF Moves
  <2>2. CASE Looks(r, c, at[r])
    <3>1. CASE phase[r] = "find set"
      BY <1>3, <2>2, <3>1 DEF Looks
    <3>2. CASE phase[r] = "count" /\ at[r] \notin SetNames
      BY <1>3, <1>4, <2>1, <3>2
    <3>3. CASE phase[r] = "count" /\ at[r] \in SetNames /\ phase'[r] = "count" /\ at'[r] = at[r] + 1
      <4>1. CASE n = at[r]
        <5>1. HasMembers(r, SetId(c, n))
          BY <2>1, <2>2, <3>3, <4>1 DEF Looks, Own
        <5>2. /\ SetId(c, n) = SetDefinition(c, n).key
              /\ MembersOf(members, SetId(c, n)) \in {{}, Stored(n)}
              /\ MembersOf(written[r].members, SetId(c, n)) \in {{}, Stored(n)}
          BY <2>1, <3>3, OwnMembers DEF Late
        <5>3. Stored(n) \subseteq Members(r)
          BY <5>1, <5>2 DEF HasMembers, MembersOf, Members
        <5> QED
          BY <1>1, <2>1, <5>3
      <4>2. CASE n # at[r]
        BY <1>3, <1>4, <2>1, <3>3, <4>2
      <4> QED
        BY <4>1, <4>2
    <3>4. CASE phase[r] = "count" /\ phase'[r] = "insert" /\ at'[r] = at[r]
      BY <1>4, <2>1, <3>4
    <3> QED
      BY <2>2, <3>1, <3>2, <3>3, <3>4 DEF Looks
  <2>3. CASE AddsMembers(r, c, at[r])
    <3>1. CASE n = at[r]
      <4>1. Stored(n) \subseteq members \cup written'[r].members
        BY <2>1, <2>3, <3>1, Inserting
      <4>2. members \subseteq members'
        BY Growth
      <4> QED
        BY <2>1, <4>1, <4>2 DEF Members
    <3>2. CASE n # at[r]
      BY <1>3, <1>4, <2>1, <2>3, <3>2 DEF AddsMembers
    <3> QED
      BY <3>1, <3>2
  <2>4. CASE AddsFeature(r, c, at[r]) \/ AddsSet(r, c, at[r])
    BY <2>4 DEF AddsFeature, AddsSet
  <2> QED
    BY <1>6, <2>2, <2>3, <2>4 DEF Moves
<1> QED
  BY <1>1, <1>5, <1>6

LEMMA NextRegisteredIsStored ==
    Typed /\ FeaturesFound /\ SetsFound /\ MembersFound /\ RegisteredIsStored /\ [Next]_vars
    => RegisteredIsStored'
<1> SUFFICES ASSUME Typed, FeaturesFound, SetsFound, MembersFound, RegisteredIsStored,
                    [Next]_vars, NEW c \in registered'
             PROVE  /\ Runs # {}
                    /\ \A n \in Declared(c) : Definition(c, n) \in definitions'
                    /\ \A n \in DeclaredSets(c) :
                         /\ SetDefinition(c, n) \in sets'
                         /\ Own(c, n) => MemberRows(c, SetDefinition(c, n).key, n) \subseteq members'
  BY DEF RegisteredIsStored, MemberRows, Own, Declared, DeclaredSets, SharedVersions, SetId,
     SetDefinition, Definition
<1>1. CASE c \in registered
  BY <1>1, Growth DEF RegisteredIsStored
<1>2. CASE c \notin registered
  <2>1. PICK r \in Runs : Commits(r) /\ Succeed(r)
    BY <1>2, Steps DEF database, Commits
  <2>2. phase[r] = "succeed" /\ c = registry[r]
    BY <1>2, <2>1 DEF Succeed
  <2>3. definitions' = Definitions(r) /\ sets' = Sets(r) /\ members' = Members(r)
    BY <2>1 DEF Commits, Definitions, Sets, Members
  <2>4. \A n \in DeclaredSets(c) : n \in SetNames
    BY DEF DeclaredSets
  <2> QED
    BY <2>2, <2>3, <2>4 DEF FeaturesFound, SetsFound, MembersFound, Late
<1> QED
  BY <1>1, <1>2

--------------------------------------------------------------------------------
(* The theorems. *)

LEMMA InitInvariant == Init => RegistryInv
<1> SUFFICES ASSUME Init PROVE RegistryInv
  OBVIOUS
<1>1. Typed
  BY Successor DEF Init, Typed, Nothing, Shaped
<1>2. \A r \in Runs : phase[r] = "idle" /\ written[r] = Nothing
  BY DEF Init
<1>3. FeaturesFound /\ SetsFound /\ MembersFound /\ CreatesNew
  BY <1>2 DEF FeaturesFound, SetsFound, MembersFound, CreatesNew, Early, Middle, Late
<1>4. SetsAreUnique /\ MembersAreWhole
  BY <1>2 DEF Init, SetsAreUnique, MembersAreWhole, Sets, Nothing, WholeIn, MembersOf
<1>5. RegisteredIsStored
  BY DEF Init, RegisteredIsStored
<1> QED
  BY <1>1, <1>3, <1>4, <1>5 DEF RegistryInv

\* Overlapping runs find or create every row they go by, a set's key is unique
\* and its members are all there or none is, at every state of the tables and
\* of each open transaction.
THEOREM RegistryInvariant == Spec => []RegistryInv
<1>1. RegistryInv /\ [Next]_vars => RegistryInv'
  BY NextTyped, NextFeaturesFound, NextSetsFound, NextMembersFound, NextCreatesNew,
     NextSetsAreUnique, NextMembersAreWhole, NextRegisteredIsStored DEF RegistryInv
<1> QED
  BY <1>1, InitInvariant, PTL DEF Spec

LEMMA InvariantRegisters == RegistryInv => RegisteredStays
<1> SUFFICES ASSUME RegistryInv, NEW c \in registered PROVE Registers(c)
  BY DEF RegisteredStays
<1>1. /\ Runs # {} /\ c \in Configs
      /\ \A n \in Declared(c) : Definition(c, n) \in definitions
      /\ \A n \in DeclaredSets(c) :
           /\ SetDefinition(c, n) \in sets
           /\ Own(c, n) => MemberRows(c, SetDefinition(c, n).key, n) \subseteq members
  BY DEF RegistryInv, RegisteredIsStored, Typed
<1>2. ASSUME NEW n \in DeclaredSets(c), c.sets[n].version \notin SharedVersions
      PROVE  MembersOf(members, SetDefinition(c, n).key) = MemberRows(c, SetDefinition(c, n).key, n)
  <2> DEFINE id == SetDefinition(c, n).key
             all == MemberRows(c, id, n)
  <2>1. n \in SetNames /\ Own(c, n)
    BY <1>2 DEF DeclaredSets, Own
  <2>2. WholeIn(members, id, sets)
    BY <1>1, <2>1 DEF RegistryInv, MembersAreWhole
  <2>3. all \subseteq MembersOf(members, id)
    BY <1>1, <2>1 DEF MembersOf, MemberRows
  <2>4. \A x \in sets : x.key = id => x = SetDefinition(c, n)
    BY <1>1 DEF RegistryInv, SetsAreUnique, Sets
  <2>5. all = Full(id, SetDefinition(c, n).hash)
    BY FullIsMembers
  <2> HIDE DEF id, all
  <2>6. MembersOf(members, id) = all
    BY <2>2, <2>3, <2>4, <2>5 DEF WholeIn
  <2> QED
    BY <2>6 DEF id, all
<1>3. \A n \in DeclaredSets(c) : SetDefinition(c, n).key = <<n, c.sets[n].version>>
  BY DEF SetDefinition
<1> QED
  BY <1>1, <1>2, <1>3 DEF Registers

\* Whatever is edited, refused, failed or run concurrently afterwards, a
\* configuration materialize has once succeeded with stays in the tables.
THEOREM Stays == Spec => []RegisteredStays
BY RegistryInvariant, InvariantRegisters, PTL

\* The session commits without a success only in the ValueError branch of
\* materialize, and there no member has been flushed yet.
THEOREM OnlyRefusals == Spec => OnlyRefusalLeavesRows
<1> DEFINE Leaves == (\A r \in Runs : ~Succeed(r)) =>
             /\ members' = members
             /\ <<definitions, sets>>' # <<definitions, sets>> =>
                  \E r \in Runs : phase[r] \in {"find", "find set"} /\ phase'[r] = "idle"
<1>1. Typed /\ [Next]_vars => [Leaves]_vars
  <2> SUFFICES ASSUME Typed, Next, \A r \in Runs : ~Succeed(r)
               PROVE  /\ members' = members
                      /\ <<definitions, sets>>' # <<definitions, sets>> =>
                           \E r \in Runs : phase[r] \in {"find", "find set"} /\ phase'[r] = "idle"
    OBVIOUS
  <2>1. \/ UNCHANGED database
        \/ \E r \in Runs : phase[r] \in {"find", "find set"} /\ Commit(r)
    <3>1. ASSUME NEW r \in Runs, RunStep(r)
          PROVE  UNCHANGED database \/ (phase[r] \in {"find", "find set"} /\ Commit(r))
      <4>1. FindFeature(r) \/ FindSet(r)
            => UNCHANGED database \/ (phase[r] \in {"find", "find set"} /\ Commit(r))
        BY DEF FindFeature, FindSet, Refuse, Goto
      <4>2. CreateFeature(r) \/ CreateSet(r) \/ CountMembers(r) \/ InsertMembers(r)
            => UNCHANGED database
        BY DEF CreateFeature, CreateSet, CountMembers, InsertMembers, Goto, Rollback
      <4> QED
        BY <3>1, <4>1, <4>2 DEF RunStep
    <3> QED
      BY <3>1 DEF Next, Edit, BeginRun, Fails, Rollback
  <2>2. CASE UNCHANGED database
    BY <2>2 DEF database
  <2>3. CASE \E r \in Runs : phase[r] \in {"find", "find set"} /\ Commit(r)
    <3>1. PICK r \in Runs : phase[r] \in {"find", "find set"} /\ Commit(r)
      BY <2>3
    <3>2. written[r].members = {} /\ phase'[r] = "idle"
      BY <3>1 DEF Typed, Late, Commit, Forget
    <3> QED
      BY <3>1, <3>2 DEF Commit
  <2> QED
    BY <2>1, <2>2, <2>3
<1>2. RegistryInv => Typed
  BY DEF RegistryInv
<1> QED
  BY <1>1, <1>2, RegistryInvariant, PTL DEF Spec, OnlyRefusalLeavesRows
================================================================================
