--------------------------- MODULE EvalRunProofs ----------------------------
(***************************************************************************)
(* Safety of EvalRun for every set of tier files, of packages and every    *)
(* limit.  The argument: the file goes from what it was at first through   *)
(* the empty file to its migration and never back (Seen), and of two reads *)
(* that differ the second does not load.                                   *)
(***************************************************************************)
EXTENDS EvalRun, FiniteSetTheorems, WellFoundedInduction, TLAPS

\* What a reader of the file can have seen.
Seen(doc) == doc = origin \/ (Migratable(origin) /\ doc \in {Empty, Migrated(origin)})

\* Functions on the packages, and one package at most is being resolved.
Shape ==
  /\ DOMAIN job = Jobs /\ DOMAIN used = Jobs
  /\ \A i, j \in Jobs : job[i] = "reading" /\ job[j] = "reading" => i = j

FileOK ==
  /\ Seen(file)
  /\ migrator \in {"built", "truncated"} => Migratable(origin)
  /\ \A k \in Jobs : job[k] = "reading" => Seen(raw)

IInv == Shape /\ FileOK /\ OneWholeTierFile

LEMMA EmptyIsNeither == ~IsV1(Empty) /\ ~Migratable(Empty)
  BY DEF Empty, IsV1, Migratable, SomeTierHasAgent

LEMMA MigratedIsV1 ==
  ASSUME NEW doc
  PROVE  IsV1(Migrated(doc)) /\ ~Migratable(Migrated(doc))
  BY DEF Migrated, IsV1, Migratable

LEMMA OnlyOriginLoads ==
  ASSUME NEW doc, NEW tier, Seen(doc), Loads(doc, tier)
  PROVE  doc = origin
<1>1. Empty.runtime = {} /\ Migrated(origin).runtime = {}
  BY DEF Empty, Migrated
<1>. QED  BY <1>1 DEF Loads, ValidRuntime, Seen

LEMMA OnlyOriginHasMultiTurn ==
  ASSUME NEW doc, Seen(doc), doc.multiturn \notin {"none", "bad"}
  PROVE  doc = origin
<1>1. Empty.multiturn = "none" /\ Migrated(origin).multiturn = "none"
  BY DEF Empty, Migrated
<1>. QED  BY <1>1 DEF Seen

LEMMA NoMixture ==
  ASSUME NEW first, NEW again, NEW pkg, Seen(first), Seen(again),
         Resolves(first, again, pkg)
  PROVE  \E doc \in WholeFiles : /\ Resolves(doc, doc, pkg)
                                 /\ Configs(first, again, pkg) = Configs(doc, doc, pkg)
<1>1. CASE IsV1(first)
  <2>1. first \in WholeFiles
    BY <1>1, EmptyIsNeither DEF Seen, WholeFiles
  <2>2. Resolves(first, first, pkg)
    BY <1>1 DEF Resolves
  <2>3. Configs(first, again, pkg) = Configs(first, first, pkg)
    BY <1>1 DEF Configs
  <2>. QED  BY <2>1, <2>2, <2>3
<1>2. CASE ~IsV1(first) /\ pkg.turns
  <2>1. first = origin
    BY <1>2, OnlyOriginHasMultiTurn DEF Resolves
  <2>2. Resolves(first, first, pkg)
    BY <1>2 DEF Resolves
  <2>3. Configs(first, again, pkg) = Configs(first, first, pkg)
    BY <1>2 DEF Configs
  <2>. QED  BY <2>1, <2>2, <2>3 DEF WholeFiles
<1>3. CASE ~IsV1(first) /\ ~pkg.turns
  <2>1. again = origin /\ Loads(origin, pkg.tier)
    BY <1>3, OnlyOriginLoads DEF Resolves
  <2>2. ~IsV1(origin)
    BY <1>3 DEF Seen, Migratable
  <2>3. Resolves(origin, origin, pkg)
    BY <1>3, <2>1, <2>2 DEF Resolves
  <2>4. Configs(first, again, pkg) = Configs(origin, origin, pkg)
    BY <1>3, <2>1, <2>2 DEF Configs
  <2>. QED  BY <2>3, <2>4 DEF WholeFiles
<1>. QED  BY <1>1, <1>2, <1>3

LEMMA InitOK == Init => IInv
  BY DEF Init, IInv, Shape, FileOK, Seen, OneWholeTierFile, In, Jobs

LEMMA StepOK == IInv /\ [Next]_vars => IInv'
<1>. SUFFICES ASSUME IInv, [Next]_vars PROVE IInv'
  OBVIOUS
<1>. USE DEF IInv
<1>1. CASE Validate \/ ValidationFails \/ WalkDirectory \/ Finish \/ UNCHANGED vars
  BY <1>1 DEF Validate, ValidationFails, WalkDirectory, Finish, End, vars, files,
     Shape, FileOK, Seen, OneWholeTierFile, In, Jobs, WholeFiles
<1>2. ASSUME NEW k \in Jobs, ReadTier(k) PROVE IInv'
  <2>1. /\ job' = [job EXCEPT ![k] = "reading"] /\ raw' = file
        /\ UNCHANGED <<file, migrator, origin, used, packages, Jobs, WholeFiles>>
        /\ \A j \in Jobs : job[j] # "reading"
    BY <1>2 DEF ReadTier, files, In, Jobs, WholeFiles
  <2>2. Shape'
    BY <2>1 DEF Shape
  <2>3. FileOK'
    BY <2>1 DEF FileOK, Seen
  <2>4. OneWholeTierFile'
    BY <2>1 DEF OneWholeTierFile, In, Shape
  <2>. QED  BY <2>2, <2>3, <2>4
<1>3. ASSUME NEW k \in Jobs, Materialise(k) PROVE IInv'
  <2>0. /\ job' = [job EXCEPT ![k] = "spawned"] /\ job[k] = "reading"
        /\ UNCHANGED <<file, migrator, origin, packages, Jobs, WholeFiles>>
    BY <1>3 DEF Materialise, files, Jobs, WholeFiles
  <2>a. \A j \in Jobs : job'[j] # "reading"
    BY <2>0 DEF Shape
  <2>1. Shape'
    BY <1>3, <2>0, <2>a DEF Materialise, Shape
  <2>2. FileOK'
    BY <2>0, <2>a DEF FileOK, Seen
  <2>3. \E doc \in WholeFiles :
           /\ Resolves(doc, doc, packages[k])
           /\ Configs(raw, file, packages[k]) = Configs(doc, doc, packages[k])
    BY <1>3, NoMixture DEF Materialise, FileOK, In
  <2>4. OneWholeTierFile'
    <3>1. used'[k] = Configs(raw, file, packages[k])
      BY <1>3 DEF Materialise, Shape
    <3>2. \A j \in Jobs : j # k => used'[j] = used[j] /\ job'[j] = job[j]
      BY <1>3 DEF Materialise, Shape
    <3>3. WholeFiles' = WholeFiles /\ packages' = packages /\ Jobs' = Jobs
      BY <1>3 DEF Materialise, WholeFiles, Jobs
    <3>. QED  BY <2>3, <3>1, <3>2, <3>3 DEF OneWholeTierFile, In
  <2>. QED  BY <2>1, <2>2, <2>4
<1>4. ASSUME NEW k \in Jobs, Refuse(k) PROVE IInv'
  <2>1. /\ job' = [job EXCEPT ![k] = "refused"] /\ job[k] = "reading"
        /\ UNCHANGED <<file, migrator, origin, used, packages, Jobs, WholeFiles>>
    BY <1>4 DEF Refuse, files, Jobs, WholeFiles
  <2>2. \A j \in Jobs : job'[j] # "reading"
    BY <2>1 DEF Shape
  <2>3. Shape'
    BY <2>1, <2>2 DEF Shape
  <2>4. FileOK'
    BY <2>1, <2>2 DEF FileOK, Seen
  <2>5. OneWholeTierFile'
    BY <2>1 DEF OneWholeTierFile, In, Shape
  <2>. QED  BY <2>3, <2>4, <2>5
<1>5. ASSUME NEW k \in Jobs, NEW code \in Statuses, ChildEnds(k, code) PROVE IInv'
  BY <1>5 DEF ChildEnds, files, Shape, FileOK, Seen, OneWholeTierFile, In, Jobs,
     WholeFiles
<1>6. CASE BuildV1 \/ Truncate \/ Write \/ MigratorDies
  <2>1. Shape' /\ OneWholeTierFile'
    BY <1>6 DEF BuildV1, Truncate, Write, MigratorDies, run, Shape, Jobs,
       OneWholeTierFile, In, WholeFiles
  <2>2. BuildV1 => Migratable(origin)
    BY EmptyIsNeither, MigratedIsV1 DEF BuildV1, FileOK, Seen
  <2>3. FileOK'
    BY <1>6, <2>2 DEF BuildV1, Truncate, Write, MigratorDies, run, FileOK, Seen, In,
       Jobs
  <2>. QED  BY <2>1, <2>3
<1>. QED
  BY <1>1, <1>2, <1>3, <1>4, <1>5, <1>6 DEF Next, Over

\* What promptfoo is given for a package is what one whole tier file says,
\* whatever the migration does between the reads of resolveConfigFile.
THEOREM ReadsOneFile == Spec => []OneWholeTierFile
<1>1. IInv => OneWholeTierFile
  BY DEF IInv
<1>. QED  BY InitOK, StepOK, <1>1, PTL DEF Spec

LEMMA MigratedProviders ==
  ASSUME NEW doc, ~IsV1(doc), Parses(doc)
  PROVE  Parses(Migrated(doc)) /\ Providers(Migrated(doc)) = Providers(doc)
<1>. DEFINE m == Migrated(doc)
<1>1. DOMAIN m.tiers = DOMAIN doc.tiers /\ DOMAIN doc.tiers # {}
  BY DEF Migrated, Parses, EveryTierHasAgent
<1>2. \A t \in DOMAIN doc.tiers : m.tiers[t].listed /\ m.tiers[t].providers = <<CliEntry(doc, t)>>
  BY DEF Migrated, MigratedTier, CliEntry
<1>3. \A t \in DOMAIN doc.tiers : CliEntry(doc, t).kind = "opencode_cli"
  BY DEF CliEntry
<1>4. ValidV1(m)
  BY <1>1, <1>2, <1>3 DEF ValidV1
<1>5. IsV1(m)
  BY MigratedIsV1
<1>6. Providers(m) = Providers(doc)
  BY <1>1, <1>2, <1>5 DEF Providers
<1>. QED  BY <1>4, <1>5, <1>6 DEF Parses

\* A tier file that has been migrated lists for every tier the provider that
\* parseTierConfig made of it before.
THEOREM MigrationKeepsThem == Spec => []MigrationKeepsProviders
<1>1. IInv => MigrationKeepsProviders
  BY EmptyIsNeither, MigratedProviders DEF IInv, FileOK, Seen, MigrationKeepsProviders
<1>. QED  BY InitOK, StepOK, <1>1, PTL DEF Spec

-----------------------------------------------------------------------------
(* What is validated is what runs *)

\* A file of version 1 is never rewritten, so that what the validator and the
\* start of the daemon read is still there; one of version 0 says opencode_cli
\* for every tier, before and after its migration.
Validated ==
  (/\ mode # "directory" /\ IsV1(origin)
   /\ pc = "run" \/ \E k \in Jobs : job[k] # "waiting") =>
    Validates(origin) /\ server = NeedsServer(origin)

LEMMA ValidatedInit == Init => Validated
  BY DEF Init, Validated

\* A step after the start, which neither validates nor begins a package.
LEMMA ValidatedStays ==
  ASSUME Validated,
         UNCHANGED <<mode, origin, server, packages, here>>,
         mode = "directory" \/ pc' # "run" \/ pc = "run",
         pc = "run" \/ \A k \in Jobs : job'[k] # "waiting" => job[k] # "waiting"
  PROVE  Validated'
<1>1. Jobs' = Jobs /\ NeedsServer(origin)' = NeedsServer(origin)
  BY DEF Jobs, NeedsServer, Looked
<1>2. CASE mode = "directory"
  BY <1>2 DEF Validated
<1>3. CASE pc = "run" /\ mode # "directory"
  BY <1>1, <1>3 DEF Validated
<1>4. CASE pc # "run" /\ mode # "directory"
  BY <1>1, <1>4 DEF Validated
<1>. QED  BY <1>2, <1>3, <1>4

LEMMA ValidatedStep == IInv /\ Validated /\ [Next]_vars => Validated'
<1>. SUFFICES ASSUME IInv, Validated, [Next]_vars PROVE Validated'
  OBVIOUS
<1>1. CASE Validate
  <2>1. IsV1(origin) => file = origin
    BY DEF IInv, FileOK, Seen, Migratable
  <2>2. (mode # "directory" /\ IsV1(origin)) => Validates(origin) /\ server' = NeedsServer(origin)
    BY <1>1, <2>1 DEF Validate
  <2>3. UNCHANGED <<mode, origin>> /\ NeedsServer(origin)' = NeedsServer(origin)
    BY <1>1 DEF Validate, NeedsServer, Looked, Jobs
  <2>. QED  BY <2>2, <2>3 DEF Validated
<1>2. CASE ValidationFails \/ WalkDirectory \/ Finish \/ UNCHANGED vars
  BY <1>2, ValidatedStays
  DEF ValidationFails, WalkDirectory, Finish, End, vars
<1>3. CASE \E k \in Jobs : ReadTier(k)
  BY <1>3, ValidatedStays DEF ReadTier
<1>4. CASE \E k \in Jobs : Materialise(k) \/ Refuse(k)
  <2>1. PICK k \in Jobs : Materialise(k) \/ Refuse(k)
    BY <1>4
  <2>2. UNCHANGED <<mode, origin, server, packages, here>> /\ (pc' = pc \/ pc' = "done")
    BY <2>1 DEF Materialise, Refuse, End
  <2>3. job[k] = "reading" /\ \A j \in Jobs : j # k => job'[j] = job[j]
    BY <2>1 DEF Materialise, Refuse, IInv, Shape
  <2>. QED  BY <2>2, <2>3, ValidatedStays
<1>5. CASE \E k \in Jobs, code \in Statuses : ChildEnds(k, code)
  <2>1. PICK k \in Jobs, code \in Statuses : ChildEnds(k, code)
    BY <1>5
  <2>2. UNCHANGED <<mode, origin, server, packages, here, pc>> /\ job[k] = "spawned"
    BY <2>1 DEF ChildEnds
  <2>3. \A j \in Jobs : j # k => job'[j] = job[j]
    BY <2>1 DEF ChildEnds, IInv, Shape
  <2>. QED  BY <2>2, <2>3, ValidatedStays
<1>6. CASE BuildV1 \/ Truncate \/ Write \/ MigratorDies
  BY <1>6, ValidatedStays DEF BuildV1, Truncate, Write, MigratorDies, run
<1>. QED
  BY <1>1, <1>2, <1>3, <1>4, <1>5, <1>6 DEF Next, Over

\* A whole file's configurations, if a file of version 1 has been validated.
LEMMA ValidConfigs ==
  ASSUME NEW doc \in WholeFiles, NEW pkg, Resolves(doc, doc, pkg),
         IsV1(origin) => Validates(origin),
         NEW configs, configs = Configs(doc, doc, pkg),
         NEW i \in DOMAIN configs
  PROVE  /\ \/ configs[i].label = "multiturn"
            \/ /\ configs[i].kind \in Registry \cup {AgentServer}
               /\ NeedsModel(configs[i].kind) => configs[i].model
         /\ configs[i].via = "wrapper" =>
              /\ IsV1(origin) /\ pkg.tier # "none"
              /\ UsesAgentServer(origin, pkg.tier)
<1>. DEFINE c == configs[i]
            e == Providers(doc)[pkg.tier][i]
<1>1. CASE IsV1(doc)
  <2>1. /\ pkg.tier \in DOMAIN doc.tiers /\ pkg.tier # "none"
        /\ configs = BridgeConfigs(doc, pkg.tier)
    BY <1>1 DEF Resolves, Configs
  <2>2. i \in DOMAIN Providers(doc)[pkg.tier]
    BY <2>1 DEF BridgeConfigs
  <2>3. c = BridgeConfig(e, doc.runtime, pkg.tier, i)
    BY <2>1, <2>2 DEF BridgeConfigs
  <2>4. /\ c.kind = e.kind /\ c.model = e.model
        /\ c.via = "wrapper" => e.kind = AgentServer
    BY <2>3 DEF BridgeConfig
  <2>5. CASE doc = origin
    <3>1. ValidEntry(e)
      BY <1>1, <2>1, <2>2, <2>5 DEF Validates
    <3>2. e.kind = AgentServer => UsesAgentServer(origin, pkg.tier)
      BY <2>1, <2>2, <2>5 DEF UsesAgentServer
    <3>. QED  BY <1>1, <2>1, <2>4, <2>5, <3>1, <3>2 DEF ValidEntry
  <2>6. CASE doc # origin
    <3>1. doc = Migrated(origin)
      BY <2>6 DEF WholeFiles
    <3>2. pkg.tier \in DOMAIN origin.tiers
      BY <2>1, <3>1 DEF Migrated
    <3>3. Providers(doc)[pkg.tier] = <<CliEntry(origin, pkg.tier)>>
      BY <1>1, <2>1, <3>1, <3>2 DEF Migrated, MigratedTier, CliEntry, Providers
    <3>4. e.kind = "opencode_cli"
      BY <2>2, <3>3 DEF CliEntry
    <3>. QED  BY <2>4, <3>4 DEF Registry, AgentServer, NeedsModel, SubprocessKinds
  <2>. QED  BY <2>5, <2>6
<1>2. CASE ~IsV1(doc) /\ pkg.turns
  <2>1. c = MultiTurnConfig(doc)
    BY <1>2 DEF Configs
  <2>. QED  BY <2>1 DEF MultiTurnConfig
<1>3. CASE ~IsV1(doc) /\ ~pkg.turns
  <2>1. c = CliConfig(doc, pkg.tier)
    BY <1>3 DEF Configs
  <2>. QED  BY <2>1 DEF CliConfig, Registry, NeedsModel, SubprocessKinds, AgentServer
<1>. QED  BY <1>1, <1>2, <1>3

LEMMA ValidatedRuns ==
  ASSUME IInv, Validated, mode # "directory",
         NEW k \in In("spawned") \cup In("ended"), NEW i \in DOMAIN used[k]
  PROVE  /\ \/ used[k][i].label = "multiturn"
            \/ /\ used[k][i].kind \in Registry \cup {AgentServer}
               /\ NeedsModel(used[k][i].kind) => used[k][i].model
         /\ used[k][i].via = "wrapper" /\ Covered(k) => server
<1>1. PICK doc \in WholeFiles :
        Resolves(doc, doc, packages[k]) /\ used[k] = Configs(doc, doc, packages[k])
  BY DEF IInv, OneWholeTierFile
<1>2. k \in Jobs /\ job[k] # "waiting"
  BY DEF In
<1>3. IsV1(origin) => Validates(origin) /\ server = NeedsServer(origin)
  BY <1>2 DEF Validated
<1>4. Covered(k) => packages[k].tier \in Looked
  BY <1>2 DEF Covered, Looked
<1>5. (/\ Covered(k) /\ packages[k].tier # "none"
       /\ UsesAgentServer(origin, packages[k].tier))
      => NeedsServer(origin)
  BY <1>4 DEF NeedsServer
<1>6. /\ \/ used[k][i].label = "multiturn"
         \/ /\ used[k][i].kind \in Registry \cup {AgentServer}
            /\ NeedsModel(used[k][i].kind) => used[k][i].model
      /\ used[k][i].via = "wrapper" => /\ IsV1(origin) /\ packages[k].tier # "none"
                                       /\ UsesAgentServer(origin, packages[k].tier)
  <2>1. IsV1(origin) => Validates(origin)
    BY <1>3
  <2>. QED  BY <1>1, <2>1, ValidConfigs
<1>. QED  BY <1>3, <1>5, <1>6

\* Every provider promptfoo is given in a validated invocation is one the
\* validator would pass, though the file has been read again since.
THEOREM ValidatedProvidersOnly == Spec => []OnlyValidatedProviders
<1>1. IInv /\ Validated => OnlyValidatedProviders
  BY ValidatedRuns DEF OnlyValidatedProviders
<1>. QED  BY InitOK, StepOK, ValidatedInit, ValidatedStep, <1>1, PTL DEF Spec

\* No provider of the agent server runs without the daemon for a package that
\* smoke or regression discovered, nor for a given one whose path means the
\* same file from the working directory and from the eval root; the daemon
\* was decided on an earlier read of the tier file (ad-evals.js:185-209, 635).
THEOREM ServerIsThere == Spec => []ServerWhereNeeded
<1>1. IInv /\ Validated => ServerWhereNeeded
  <2> SUFFICES ASSUME IInv, Validated,
                      NEW k \in In("spawned") \cup In("ended"), Covered(k),
                      NEW i \in DOMAIN used[k], used[k][i].via = "wrapper"
               PROVE  server
    BY DEF ServerWhereNeeded
  <2>1. mode # "directory"
    BY DEF Covered
  <2> QED  BY <2>1, ValidatedRuns
<1>. QED  BY InitOK, StepOK, ValidatedInit, ValidatedStep, <1>1, PTL DEF Spec

-----------------------------------------------------------------------------
(* The exit code *)

\* Only a promptfoo that ended has a status; the guard ends at a refusal.
Outcomes ==
  /\ packages \in PackageLists
  /\ job \in [Jobs -> {"waiting", "reading", "spawned", "ended", "refused"}]
  /\ status \in [Jobs -> Statuses]
  /\ \A k \in Jobs : status[k] # 0 => job[k] = "ended"
  /\ mode # "directory" /\ pc # "done" => \A k \in Jobs : job[k] # "refused"

OutcomeInv == Outcomes /\ ExitCodeHonest

LEMMA OutcomeInit == Init => OutcomeInv
  BY DEF Init, OutcomeInv, Outcomes, ExitCodeHonest, Statuses, Jobs

\* A set of naturals that is not empty has a least member.
LEMMA HasLeast ==
  ASSUME NEW S \in SUBSET Nat, S # {}
  PROVE  \E n \in S : \A m \in S : n <= m
<1>1. PICK n \in S : \A m \in S : <<m, n>> \notin OpToRel(<, Nat)
  BY NatLessThanWellFounded, WFMin
<1>2. ASSUME NEW m \in S PROVE n <= m
  <2>1. ~(m < n)
    BY <1>1 DEF OpToRel
  <2> QED  BY <2>1
<1> QED  BY <1>2

\* The guard's status is 0 only if no promptfoo ended with another than 0
\* or 100: the first of the failing ones is one of them.
LEMMA GuardStatusZero ==
  ASSUME Outcomes, GuardStatus = 0
  PROVE  \A k \in Jobs : status[k] \in {0, 100}
<1> SUFFICES ASSUME Failing # {} PROVE FALSE
  BY DEF Failing
<1>1. Failing \in SUBSET Nat
  BY ListsType DEF Failing, Outcomes, Jobs
<1>2. \E k \in Failing : \A j \in Failing : k <= j
  BY <1>1, HasLeast
<1> DEFINE first == CHOOSE k \in Failing : \A j \in Failing : k <= j
<1>3. first \in Failing
  BY <1>2
<1>4. status[first] = 0
  BY DEF GuardStatus
<1> QED  BY <1>3, <1>4 DEF Failing

\* A job moves on before the invocation has ended, or no exit code of 0 and no
\* other job's outcome depends on it.
LEMMA OutcomeStep == OutcomeInv /\ [Next]_vars => OutcomeInv'
<1> SUFFICES ASSUME OutcomeInv, [Next]_vars PROVE OutcomeInv'
  OBVIOUS
<1> USE DEF OutcomeInv
<1>1. CASE Validate \/ ValidationFails \/ WalkDirectory
  <2>1. UNCHANGED <<packages, mode, job, status, Jobs>>
    BY <1>1 DEF Validate, ValidationFails, WalkDirectory, Jobs
  <2>2. Outcomes'
    BY <1>1, <2>1 DEF Validate, ValidationFails, WalkDirectory, End, Outcomes
  <2>3. pc' # "done" \/ (exit' # 0 /\ mode' # "directory")
    BY <1>1 DEF Validate, ValidationFails, WalkDirectory, End
  <2> QED  BY <2>2, <2>3 DEF ExitCodeHonest
<1>2. ASSUME NEW k \in Jobs, ReadTier(k) \/ Materialise(k) PROVE OutcomeInv'
  <2>1. /\ UNCHANGED <<packages, mode, pc, exit, status, Jobs>>
        /\ job[k] \in {"waiting", "reading"}
        /\ \E p \in {"reading", "spawned"} : job' = [job EXCEPT ![k] = p]
    BY <1>2 DEF ReadTier, Materialise, Jobs
  <2>2. Outcomes'
    BY <2>1 DEF Outcomes
  <2>3. \A j \in Jobs : job[j] \in {"ended", "refused"} => job'[j] = job[j]
    BY <2>1 DEF Outcomes
  <2>4. ExitCodeHonest'
    BY <2>1, <2>3 DEF ExitCodeHonest, Outcomes
  <2> QED  BY <2>2, <2>4
<1>3. ASSUME NEW k \in Jobs, Refuse(k) PROVE OutcomeInv'
  <2>1. /\ UNCHANGED <<packages, mode, status, Jobs>>
        /\ job[k] = "reading" /\ job' = [job EXCEPT ![k] = "refused"]
        /\ IF mode # "directory" THEN pc' = "done" /\ exit' = 1
                             ELSE pc' = pc /\ exit' = exit
    BY <1>3 DEF Refuse, Jobs, End
  <2>2. Outcomes'
    BY <2>1 DEF Outcomes
  <2>3. \A j \in Jobs : job[j] \in {"ended", "refused"} => job'[j] = job[j]
    BY <2>1 DEF Outcomes
  <2>4. ExitCodeHonest'
    BY <2>1, <2>3 DEF ExitCodeHonest, Outcomes
  <2> QED  BY <2>2, <2>4
<1>4. ASSUME NEW k \in Jobs, NEW code \in Statuses, ChildEnds(k, code) PROVE OutcomeInv'
  <2>1. /\ UNCHANGED <<packages, mode, pc, exit, Jobs>>
        /\ job[k] = "spawned" /\ job' = [job EXCEPT ![k] = "ended"]
        /\ status' = [status EXCEPT ![k] = code]
    BY <1>4 DEF ChildEnds, Jobs
  <2>2. Outcomes'
    BY <2>1 DEF Outcomes
  <2>3. \A j \in Jobs : /\ job[j] \in {"ended", "refused"} => job'[j] = job[j]
                        /\ j # k => status'[j] = status[j]
    BY <2>1 DEF Outcomes
  <2>4. ExitCodeHonest'
    BY <2>1, <2>3 DEF ExitCodeHonest, Outcomes
  <2> QED  BY <2>2, <2>4
<1>5. CASE Finish
  <2>1. /\ UNCHANGED <<packages, mode, job, status, Jobs>> /\ pc = "run" /\ pc' = "done"
        /\ exit' = (IF mode = "directory" THEN DirectoryStatus ELSE GuardStatus)
        /\ \A k \in Jobs : job[k] \in {"ended", "refused"}
    BY <1>5 DEF Finish, End, Jobs
  <2>2. Outcomes'
    BY <2>1 DEF Outcomes
  <2>3. CASE mode # "directory"
    <3>1. \A k \in Jobs : job[k] = "ended"
      BY <2>1, <2>3 DEF Outcomes
    <3>2. exit' = 0 => \A k \in Jobs : status[k] \in {0, 100}
      BY <2>1, <2>3, GuardStatusZero
    <3> QED  BY <2>1, <2>2, <2>3, <3>1, <3>2 DEF ExitCodeHonest
  <2>4. CASE mode = "directory"
    <3>1. exit' = DirectoryStatus
      BY <2>1, <2>4
    <3>2. exit' = 0 => \A k \in Jobs : job[k] = "ended" /\ status[k] = 0
      BY <3>1 DEF DirectoryStatus
    <3>3. exit' # 0 => \E k \in Jobs : job[k] = "refused" \/ status[k] # 0
      BY <2>1, <3>1 DEF DirectoryStatus
    <3> QED  BY <2>1, <2>2, <2>4, <3>2, <3>3 DEF ExitCodeHonest
  <2> QED  BY <2>3, <2>4
<1>6. CASE BuildV1 \/ Truncate \/ Write \/ MigratorDies \/ UNCHANGED vars
  <2>1. UNCHANGED <<packages, mode, pc, exit, job, status, Jobs>>
    BY <1>6 DEF BuildV1, Truncate, Write, MigratorDies, run, vars, Jobs
  <2> QED  BY <2>1 DEF Outcomes, ExitCodeHonest
<1> QED
  BY <1>1, <1>2, <1>3, <1>4, <1>5, <1>6 DEF Next, Over

\* Exit code 0 hides no package that was refused, left out or failed, and in a
\* directory no other code comes without one (ad-evals.js, dir-walk.js).
THEOREM ExitsHonestly == Spec => []ExitCodeHonest
<1>1. OutcomeInv => ExitCodeHonest
  BY DEF OutcomeInv
<1> QED  BY OutcomeInit, OutcomeStep, <1>1, PTL DEF Spec

-----------------------------------------------------------------------------
(* The limit *)

\* The packages that take room, or soon will.
Busy == In("reading") \cup In("spawned")

\* Room is looked at before a package is resolved, and promptfoo is spawned
\* after that: the package in between must be counted.
Bounded ==
  /\ IsFiniteSet(Busy) /\ Cardinality(Busy) <= Limit
  /\ pc = "start" => In("waiting") = Jobs

Scalars ==
  /\ migrator \in {"idle", "built", "truncated", "dead"}
  /\ pc \in {"start", "run", "done"} /\ server \in BOOLEAN
  /\ exit \in Statuses \cup {2}

LimitIsPositive == Limit \in Nat /\ Limit >= 1
LEMMA LimitType == LimitIsPositive
  BY OuterCapType DEF Limit, LimitIsPositive

LEMMA BoundedInit == Init => Bounded /\ Scalars
<1> SUFFICES ASSUME Init PROVE Bounded /\ Scalars
  OBVIOUS
<1>1. Busy = {} /\ In("waiting") = Jobs
  BY DEF Init, Busy, In, Jobs
<1>2. IsFiniteSet(Busy) /\ Cardinality(Busy) <= Limit
  BY <1>1, FS_EmptySet, LimitType DEF LimitIsPositive
<1> QED  BY <1>1, <1>2 DEF Init, Bounded, Scalars, Statuses

\* No package takes room that had none.
LEMMA BoundedStays ==
  ASSUME Bounded, mode' = mode, Busy' \subseteq Busy, pc' # "start"
  PROVE  Bounded'
<1>1. IsFiniteSet(Busy) /\ Cardinality(Busy) <= Limit /\ Limit' = Limit
  BY DEF Bounded, Limit
<1>2. IsFiniteSet(Busy') /\ Cardinality(Busy') <= Cardinality(Busy)
  BY <1>1, FS_Subset
<1>3. Cardinality(Busy') \in Nat /\ Cardinality(Busy) \in Nat /\ Limit \in Nat
  BY <1>1, <1>2, FS_CardinalityType, LimitType DEF LimitIsPositive
<1> QED  BY <1>1, <1>2, <1>3 DEF Bounded

LEMMA BoundedStep == Outcomes /\ Bounded /\ [Next]_vars => Bounded'
<1> SUFFICES ASSUME Outcomes, Bounded, [Next]_vars PROVE Bounded'
  OBVIOUS
<1>1. CASE Validate \/ ValidationFails \/ WalkDirectory \/ Finish
  <2>1. mode' = mode /\ pc' # "start" /\ UNCHANGED <<packages, job>>
    BY <1>1 DEF Validate, ValidationFails, WalkDirectory, Finish, End
  <2> QED  BY <2>1, BoundedStays DEF Busy, In, Jobs
<1>2. ASSUME NEW k \in Jobs, ReadTier(k) PROVE Bounded'
  <2>1. /\ UNCHANGED <<mode, packages, pc, Jobs>> /\ pc = "run"
        /\ job' = [job EXCEPT ![k] = "reading"] /\ In("reading") = {}
        /\ Cardinality(In("spawned")) < Limit
    BY <1>2 DEF ReadTier, Room, Jobs
  <2>2. Busy = In("spawned")
    BY <2>1 DEF Busy
  <2>3. Busy' = Busy \cup {k}
    BY <1>2, <2>1, <2>2 DEF Busy, In, Outcomes, ReadTier
  <2>4. /\ IsFiniteSet(Busy')
        /\ Cardinality(Busy') \in {Cardinality(Busy), Cardinality(Busy) + 1}
    BY <2>3, FS_AddElement DEF Bounded
  <2>5. Cardinality(Busy) \in Nat /\ Limit \in Nat /\ Limit' = Limit
    BY <2>1, FS_CardinalityType, LimitType DEF Bounded, LimitIsPositive, Limit
  <2>6. Cardinality(Busy') <= Limit
    BY <2>1, <2>2, <2>4, <2>5
  <2> QED  BY <2>1, <2>4, <2>5, <2>6 DEF Bounded
<1>3. ASSUME NEW k \in Jobs, NEW code \in Statuses,
             Materialise(k) \/ Refuse(k) \/ ChildEnds(k, code)
      PROVE  Bounded'
  <2>1. /\ UNCHANGED <<mode, packages, Jobs>> /\ pc' \in {pc, "done"}
        /\ job[k] \in {"reading", "spawned"}
        /\ \E p \in {"spawned", "refused", "ended"} : job' = [job EXCEPT ![k] = p]
    BY <1>3 DEF Materialise, Refuse, ChildEnds, End, Jobs
  <2>2. Busy' \subseteq Busy
    BY <2>1 DEF Busy, In, Outcomes
  <2>3. pc # "start"
    BY <2>1 DEF Bounded, In
  <2> QED  BY <2>1, <2>2, <2>3, BoundedStays
<1>4. CASE BuildV1 \/ Truncate \/ Write \/ MigratorDies \/ UNCHANGED vars
  <2>1. UNCHANGED <<packages, mode, pc, job>>
    BY <1>4 DEF BuildV1, Truncate, Write, MigratorDies, run, vars
  <2> QED  BY <2>1 DEF Bounded, Busy, In, Jobs, Limit
<1> QED
  BY <1>1, <1>2, <1>3, <1>4 DEF Next, Over, Statuses

\* GuardStatus is the status of some package, the first of the failing ones.
LEMMA ExitIsStatus ==
  ASSUME Outcomes PROVE GuardStatus \in Statuses /\ DirectoryStatus \in Statuses
<1>1. CASE Failing # {}
  <2>1. Failing \in SUBSET Nat
    BY ListsType DEF Failing, Outcomes, Jobs
  <2>2. \E k \in Failing : \A j \in Failing : k <= j
    BY <1>1, <2>1, HasLeast
  <2> DEFINE first == CHOOSE k \in Failing : \A j \in Failing : k <= j
  <2>3. first \in Failing
    BY <2>2
  <2>4. GuardStatus = status[first]
    BY <1>1 DEF GuardStatus
  <2>5. status[first] \in Statuses
    BY <2>3 DEF Failing, Outcomes
  <2> QED  BY <2>4, <2>5 DEF DirectoryStatus, Statuses
<1> QED  BY <1>1 DEF GuardStatus, DirectoryStatus, Statuses

LEMMA ScalarsStep == Outcomes /\ Scalars /\ [Next]_vars => Scalars'
<1> SUFFICES ASSUME Outcomes, Scalars, [Next]_vars PROVE Scalars'
  OBVIOUS
<1> USE DEF Scalars
<1>1. CASE Validate
  <2>1. NeedsServer(file) \in BOOLEAN
    BY DEF NeedsServer
  <2> QED  BY <1>1, <2>1 DEF Validate, files
<1>2. CASE ValidationFails \/ WalkDirectory
  BY <1>2 DEF ValidationFails, WalkDirectory, End, files, Statuses
<1>3. ASSUME NEW k \in Jobs, NEW code \in Statuses,
             ReadTier(k) \/ Materialise(k) \/ Refuse(k) \/ ChildEnds(k, code)
      PROVE  Scalars'
  BY <1>3 DEF ReadTier, Materialise, Refuse, ChildEnds, End, files, Statuses
<1>4. CASE Finish
  BY <1>4, ExitIsStatus DEF Finish, End, files
<1>5. CASE BuildV1 \/ Truncate \/ Write \/ MigratorDies \/ UNCHANGED vars
  BY <1>5 DEF BuildV1, Truncate, Write, MigratorDies, run, vars
<1> QED
  BY <1>1, <1>2, <1>3, <1>4, <1>5 DEF Next, Over, Statuses

LEMMA TypesFollow ==
  ASSUME Shape, Outcomes, Scalars, Bounded PROVE TypeOK
<1>1. In("reading") \subseteq Busy /\ In("spawned") \subseteq Busy /\ IsFiniteSet(Busy)
  BY DEF Busy, Bounded
<1>2. /\ IsFiniteSet(In("reading")) /\ IsFiniteSet(In("spawned"))
      /\ Cardinality(In("spawned")) <= Cardinality(Busy)
  BY <1>1, FS_Subset
<1>3. Cardinality(In("spawned")) <= Limit
  BY <1>1, <1>2, FS_CardinalityType, LimitType DEF Bounded, LimitIsPositive
<1>4. Cardinality(In("reading")) <= 1
  <2>1. CASE In("reading") = {}
    BY <2>1, FS_EmptySet
  <2>2. ASSUME NEW k \in In("reading") PROVE Cardinality(In("reading")) = 1
    <3>1. In("reading") = {k}
      BY <2>2 DEF Shape, In
    <3> QED  BY <3>1, FS_Singleton
  <2>3. Cardinality(In("reading")) \in Nat
    BY <1>2, FS_CardinalityType
  <2> QED  BY <2>1, <2>2, <2>3
<1> QED  BY <1>3, <1>4 DEF TypeOK, Scalars, Outcomes, Bounded

\* dir-walk.js:197-216, concurrency.js:46-63: no more promptfoos run at a time
\* than AD_EVALS_OUTER_CONCURRENCY allows, in the guard one, although the
\* resolution of a package lies between the look at the limit and the spawn.
THEOREM FanOutCapped == Spec => []TypeOK
<1>1. Init => IInv /\ OutcomeInv /\ Bounded /\ Scalars
  BY InitOK, OutcomeInit, BoundedInit
<1>2. IInv /\ OutcomeInv /\ Bounded /\ Scalars /\ [Next]_vars
        => (IInv /\ OutcomeInv /\ Bounded /\ Scalars)'
  BY StepOK, OutcomeStep, BoundedStep, ScalarsStep DEF OutcomeInv
<1>3. IInv /\ OutcomeInv /\ Bounded /\ Scalars => TypeOK
  BY TypesFollow DEF IInv, OutcomeInv
<1> QED  BY <1>1, <1>2, <1>3, PTL DEF Spec

\* A promptfoo is spawned into the room that was seen before its resolution.
LEMMA FanOutStep == Outcomes /\ Bounded /\ [Next]_vars => [FanOut!Next]_(In("spawned"))
<1> SUFFICES ASSUME Outcomes, Bounded, [Next]_vars PROVE [FanOut!Next]_(In("spawned"))
  OBVIOUS
<1>1. Jobs \subseteq Positions
  BY DEF Outcomes, Jobs, Positions
<1>2. CASE UNCHANGED <<packages, job>>
  BY <1>2 DEF In, Jobs
<1>3. ASSUME NEW k \in Jobs, Materialise(k) PROVE FanOut!Enter(k)
  <2>1. /\ job[k] = "reading" /\ job' = [job EXCEPT ![k] = "spawned"] /\ Jobs' = Jobs
    BY <1>3 DEF Materialise, Jobs
  <2>2. In("spawned")' = In("spawned") \cup {k} /\ k \notin In("spawned")
    BY <1>3, <2>1 DEF In, Outcomes
  <2>3. In("spawned") \cup {k} \subseteq Busy
    BY <1>3, <2>1 DEF Busy, In
  <2>4. /\ IsFiniteSet(In("spawned")) /\ IsFiniteSet(In("spawned") \cup {k})
        /\ Cardinality(In("spawned") \cup {k}) <= Cardinality(Busy)
    BY <2>3, FS_Subset DEF Bounded
  <2>5. Cardinality(In("spawned") \cup {k}) = Cardinality(In("spawned")) + 1
    BY <2>2, <2>4, FS_AddElement
  <2>6. Cardinality(In("spawned")) \in Nat /\ Cardinality(Busy) \in Nat
    BY <2>4, FS_CardinalityType DEF Bounded
  <2>7. Limit \in Nat /\ Limit <= OuterCap /\ OuterCap \in Nat
    BY OuterCapType DEF Limit
  <2>8. Cardinality(In("spawned")) < OuterCap
    BY <2>4, <2>5, <2>6, <2>7 DEF Bounded
  <2> QED  BY <2>2, <2>8 DEF FanOut!Enter, FanOut!Cardinality, Cardinality
<1>4. ASSUME NEW k \in Jobs, NEW code \in Statuses, ChildEnds(k, code)
      PROVE  FanOut!Leave(k)
  <2>1. job[k] = "spawned" /\ job' = [job EXCEPT ![k] = "ended"] /\ Jobs' = Jobs
    BY <1>4 DEF ChildEnds, Jobs
  <2>2. In("spawned")' = In("spawned") \ {k} /\ k \in In("spawned")
    BY <1>4, <2>1 DEF In, Outcomes
  <2> QED  BY <2>2 DEF FanOut!Leave
<1>5. ASSUME NEW k \in Jobs, ReadTier(k) \/ Refuse(k)
      PROVE  In("spawned")' = In("spawned")
  <2>1. /\ job[k] # "spawned" /\ Jobs' = Jobs
        /\ \E p \in {"reading", "refused"} : job' = [job EXCEPT ![k] = p]
    BY <1>5 DEF ReadTier, Refuse, Jobs
  <2> QED  BY <2>1 DEF In, Outcomes
<1>6. CASE \/ Validate \/ ValidationFails \/ WalkDirectory \/ Finish
           \/ BuildV1 \/ Truncate \/ Write \/ MigratorDies \/ UNCHANGED vars
  BY <1>2, <1>6 DEF Validate, ValidationFails, WalkDirectory, Finish, BuildV1, Truncate,
                    Write, MigratorDies, run, vars
<1> QED
  BY <1>1, <1>3, <1>4, <1>5, <1>6 DEF Next, Over, FanOut!Next

\* dir-walk.js:197-216: behind the resolutions, the refusals and the migration,
\* the promptfoos of an invocation are a set that never exceeds its limit.
THEOREM FanOutFillsSlots == Spec => ImplementsBoundedFanOut
<1>1. Init => FanOut!Init
  BY DEF Init, In, Jobs, FanOut!Init
<1>2. OutcomeInv => Outcomes
  BY DEF OutcomeInv
<1> QED
  BY <1>1, <1>2, OutcomeInit, OutcomeStep, BoundedInit, BoundedStep, FanOutStep, PTL
  DEF Spec, ImplementsBoundedFanOut, FanOut!Spec

-----------------------------------------------------------------------------
(* What passes *)

\* A promptfoo with status 0 has had no provider that refused its
\* configuration; none has begun before the server was decided on.
Passed ==
  /\ pc = "start" => \A k \in Jobs : job[k] = "waiting"
  /\ \A k \in Jobs : job[k] = "ended" /\ status[k] = 0 => AllAccept(k)

LEMMA PassedInit == Init => Passed
  BY DEF Init, Passed, Jobs

LEMMA PassedStep == Shape /\ Outcomes /\ Passed /\ [Next]_vars => Passed'
<1> SUFFICES ASSUME Shape, Outcomes, Passed, [Next]_vars PROVE Passed'
  OBVIOUS
<1>1. CASE Validate
  <2>1. UNCHANGED <<packages, job>> /\ pc = "start" /\ pc' = "run"
    BY <1>1 DEF Validate
  <2> QED  BY <2>1 DEF Passed, Jobs
<1>2. CASE \/ ValidationFails \/ WalkDirectory \/ Finish
           \/ BuildV1 \/ Truncate \/ Write \/ MigratorDies \/ UNCHANGED vars
  <2>1. UNCHANGED <<packages, job, used, status, server>> /\ (pc' = "start" => pc = "start")
    BY <1>2 DEF ValidationFails, WalkDirectory, Finish, End, BuildV1, Truncate, Write,
                MigratorDies, run, vars
  <2> QED  BY <2>1 DEF Passed, AllAccept, Jobs
<1>3. ASSUME NEW k \in Jobs, ReadTier(k) \/ Materialise(k) \/ Refuse(k) PROVE Passed'
  <2>1. /\ UNCHANGED <<packages, status, server, Jobs>> /\ (pc' = "start" => pc = "start")
        /\ job[k] # "ended"
        /\ \E p \in {"reading", "spawned", "refused"} : job' = [job EXCEPT ![k] = p]
        /\ \A j \in Jobs \ {k} : used'[j] = used[j]
    BY <1>3 DEF ReadTier, Materialise, Refuse, End, Shape, Jobs
  <2>2. job'[k] # "ended" /\ \A j \in Jobs \ {k} : job'[j] = job[j]
    BY <2>1 DEF Shape
  <2>3. pc # "start"
    BY <1>3, <2>1 DEF Passed, ReadTier, Materialise, Refuse
  <2> QED  BY <2>1, <2>2, <2>3 DEF Passed, AllAccept
<1>4. ASSUME NEW k \in Jobs, NEW code \in Statuses, ChildEnds(k, code) PROVE Passed'
  <2>1. /\ UNCHANGED <<packages, pc, used, server, Jobs>>
        /\ job[k] = "spawned" /\ (code = 0 => AllAccept(k))
        /\ job' = [job EXCEPT ![k] = "ended"] /\ status' = [status EXCEPT ![k] = code]
    BY <1>4 DEF ChildEnds, Jobs
  <2>2. /\ status'[k] = code
        /\ \A j \in Jobs \ {k} : job'[j] = job[j] /\ status'[j] = status[j]
    BY <2>1 DEF Outcomes
  <2> QED  BY <2>1, <2>2 DEF Passed, AllAccept
<1> QED
  BY <1>1, <1>2, <1>3, <1>4 DEF Next, Over

\* The one provider of a migrated tier has neither [runtime] nor fields of its
\* own, so that nothing it is given names an opencode_config.
LEMMA MigratedRefused ==
  ASSUME NEW doc, NEW pkg, NEW started, Resolves(Migrated(doc), Migrated(doc), pkg)
  PROVE  LET entries == Configs(Migrated(doc), Migrated(doc), pkg)
         IN  1 \in DOMAIN entries /\ ~Accepts(entries[1], pkg, started)
<1> DEFINE m == Migrated(doc)
           entry == [kind |-> "opencode_cli", model |-> FALSE,
                     label |-> doc.tiers[pkg.tier].agent,
                     config |-> "launch" \in doc.runtime, fields |-> {}]
<1>1. IsV1(m) /\ m.runtime = {} /\ pkg.tier \in DOMAIN m.tiers
  BY MigratedIsV1 DEF Resolves, Migrated
<1>2. m.tiers[pkg.tier].providers = <<entry>>
  BY <1>1 DEF Migrated, MigratedTier
<1>3. Providers(m)[pkg.tier] = <<entry>>
  BY <1>1, <1>2 DEF Providers
<1> DEFINE c == BridgeConfig(entry, {}, pkg.tier, 1)
<1>4. 1 \in DOMAIN Configs(m, m, pkg) /\ Configs(m, m, pkg)[1] = c
  <2> DEFINE list == Providers(m)[pkg.tier]
  <2>1. DOMAIN list = {1} /\ list[1] = entry
    BY <1>3
  <2>2. Configs(m, m, pkg) = [i \in DOMAIN list |-> BridgeConfig(list[i], {}, pkg.tier, i)]
    BY <1>1 DEF Configs, BridgeConfigs
  <2> HIDE DEF list, entry
  <2> QED  BY <2>1, <2>2
<1>5. c.via = "bridge" /\ c.kind = "opencode_cli" /\ c.source["agent"] = "none"
  BY DEF BridgeConfig, Source, Fields, AgentServer
<1>6. ~Accepts(c, pkg, started)
  BY <1>5 DEF Accepts, Fields
<1> QED  BY <1>4, <1>6

\* Of a file of version 0 a promptfoo only passes on what it said before the
\* migration (migrate-from-v0.js:55-89, opencode-cli-provider.js:139-149).
THEOREM PassesBeforeMigration == Spec => []OnlyOriginPasses
<1>1. ASSUME IInv, Passed PROVE OnlyOriginPasses
  <2> SUFFICES ASSUME NEW k \in In("ended"), status[k] = 0
               PROVE  /\ Resolves(origin, origin, packages[k])
                      /\ used[k] = Configs(origin, origin, packages[k])
    BY DEF OnlyOriginPasses
  <2>1. PICK doc \in WholeFiles : /\ Resolves(doc, doc, packages[k])
                                  /\ used[k] = Configs(doc, doc, packages[k])
    BY <1>1 DEF IInv, OneWholeTierFile
  <2>2. AllAccept(k)
    BY <1>1 DEF Passed, In
  <2>3. doc # Migrated(origin)
    BY <2>1, <2>2, MigratedRefused DEF AllAccept
  <2> QED  BY <2>1, <2>3 DEF WholeFiles
<1>2. Init => IInv /\ OutcomeInv /\ Passed
  BY InitOK, OutcomeInit, PassedInit
<1>3. IInv /\ OutcomeInv /\ Passed /\ [Next]_vars => (IInv /\ OutcomeInv /\ Passed)'
  BY StepOK, OutcomeStep, PassedStep DEF IInv, OutcomeInv
<1> QED  BY <1>1, <1>2, <1>3, PTL DEF Spec
=============================================================================
