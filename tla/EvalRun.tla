------------------------------ MODULE EvalRun -------------------------------
(***************************************************************************)
(* One invocation of ad-evals (bin/ad-evals.js) over a list of packages,   *)
(* in one of three ways.  "discovered" (smoke, regression: every package   *)
(* under the eval root) and "given" (run <file>, perhaps with more -c)     *)
(* validate the tier file, start the agent server if it is needed and run  *)
(* the packages one after the other in the guard.  "directory" (run <dir>, *)
(* dir-walk.js, of a directory under the eval root) does neither and runs  *)
(* a promptfoo for each package at the same time, up to a limit.           *)
(*                                                                         *)
(* Both read the tier file again for every package, and nothing locks it:  *)
(* eval-harness-init --migrate-from-v0 may rewrite it, or die rewriting    *)
(* it, at any time.  What the guard does about dirty files is GuardedRun.  *)
(***************************************************************************)
EXTENDS TierConfig, FiniteSets

CONSTANTS
  Documents,     \* the tier files to start from
  PackageLists,  \* the lists of packages to run
  Elsewhere,     \* tiers of other files at the place a given path names
  OuterCap       \* AD_EVALS_OUTER_CONCURRENCY

ASSUME OuterCapType == OuterCap \in Nat \ {0}
ASSUME ListsType    == \A list \in PackageLists : DOMAIN list = 1..Len(list)

Statuses == {0, 1, 100}   \* of promptfoo; 100: a test failed or erred

VARIABLES
  file,      \* the tier file
  migrator,  \* "idle", "built", "truncated", "dead"
  mode,      \* "discovered", "given", "directory"
  packages,
  here,      \* the tier of the file that a given path names from the cwd
  pc,        \* "start", "run", "done"
  server,    \* the agent server was started
  raw,       \* the tier file as the resolver read it first
  job,       \* of a package: "waiting", "reading", "spawned", "ended", "refused"
  used,      \* the providers of a package that was spawned
  status,    \* the exit status of its promptfoo
  exit,      \* the exit code when pc = "done"
  origin     \* history: the tier file at first

files == <<file, migrator>>
vars  == <<file, migrator, mode, packages, here, pc, server, raw, job, used,
           status, exit, origin>>

Jobs == DOMAIN packages

In(place) == {k \in Jobs : job[k] = place}

Init ==
  /\ file \in Documents /\ origin = file /\ raw = Empty
  /\ migrator = "idle"
  /\ mode \in {"discovered", "given", "directory"} /\ packages \in PackageLists
  /\ here \in IF mode = "given" THEN {packages[1].tier} \cup Elsewhere
                                ELSE {"none"}
  /\ pc = "start" /\ server = FALSE /\ exit = 0
  /\ job = [k \in Jobs |-> "waiting"]
  /\ used = [k \in Jobs |-> <<>>]
  /\ status = [k \in Jobs |-> 0]

End(code) == pc' = "done" /\ exit' = code

-----------------------------------------------------------------------------
(* Before the first package *)

\* The tiers of the files that are looked at: the discovered ones; or one, the
\* first given path, which is resolved against the working directory, while
\* the resolver takes it from the eval root: another file may be there, or
\* none ("none").
Looked == IF mode = "given" THEN {here} ELSE {packages[k].tier : k \in Jobs}

\* Mutant: the daemon is started for the first package only.
ServerForFirst(doc) == UsesAgentServer(doc, packages[1].tier)

\* _configsUseAgentServer: a file without a tier stands for the default one.
NeedsServer(doc) ==
  \E t \in Looked : UsesAgentServer(doc, IF t = "none" THEN doc.default ELSE t)

\* runTierConfigValidation, and the daemon if a package needs it.
Validate ==
  /\ mode # "directory" /\ pc = "start" /\ Validates(file)
  /\ pc' = "run" /\ server' = NeedsServer(file)
  /\ UNCHANGED <<files, mode, packages, here, raw, job, used, status, exit,
                 origin>>

ValidationFails ==
  /\ mode # "directory" /\ pc = "start"
  /\ \/ ~Validates(file) /\ End(2)
     \/ Validates(file) /\ NeedsServer(file) /\ End(1)   \* it does not start
  /\ UNCHANGED <<files, mode, packages, here, server, raw, job, used,
                 status, origin>>

\* runDirScenarios is called before any of that.
WalkDirectory ==
  /\ mode = "directory" /\ pc = "start" /\ pc' = "run"
  /\ UNCHANGED <<files, mode, packages, here, server, raw, job, used,
                 status, exit, origin>>

-----------------------------------------------------------------------------
(* A package *)

\* The guard's loop waits for each promptfoo; p-limit starts the next as soon
\* as there is room, whatever became of the others.
Limit == IF mode = "directory" THEN OuterCap ELSE 1

Room == Cardinality(In("spawned")) < Limit

\* resolveConfigFile reads the tier file.
ReadTier(k) ==
  /\ pc = "run" /\ Room /\ In("reading") = {}
  /\ job[k] = "waiting" /\ \A j \in In("waiting") : k <= j
  /\ raw' = file
  /\ job' = [job EXCEPT ![k] = "reading"]
  /\ UNCHANGED <<files, mode, packages, here, pc, server, used, status,
                 exit, origin>>

\* writeResolvedConfig ends, and promptfoo is spawned on what it wrote.
Materialise(k) ==
  /\ job[k] = "reading" /\ Resolves(raw, file, packages[k])
  /\ used' = [used EXCEPT ![k] = Configs(raw, file, packages[k])]
  /\ job' = [job EXCEPT ![k] = "spawned"]
  /\ raw' = Empty
  /\ UNCHANGED <<files, mode, packages, here, pc, server, status, exit,
                 origin>>

\* Mutant: the process exits on the first rejection, in a directory too.
RefuseAndExit(k) ==
  /\ job[k] = "reading" /\ ~Resolves(raw, file, packages[k])
  /\ job' = [job EXCEPT ![k] = "refused"] /\ raw' = Empty /\ End(1)
  /\ UNCHANGED <<files, mode, packages, here, server, used, status, origin>>

\* It throws.  In the guard that is the end; in a directory it rejects the
\* Promise.all, which stops nothing.
Refuse(k) ==
  /\ job[k] = "reading" /\ ~Resolves(raw, file, packages[k])
  /\ job' = [job EXCEPT ![k] = "refused"]
  /\ raw' = Empty
  /\ IF mode = "directory" THEN UNCHANGED <<pc, exit>> ELSE End(1)
  /\ UNCHANGED <<files, mode, packages, here, server, used, status, origin>>

AllAccept(k) ==
  \A i \in DOMAIN used[k] : Accepts(used[k][i], packages[k], server)

ChildEnds(k, code) ==
  /\ job[k] = "spawned" /\ (code = 0 => AllAccept(k))
  /\ job' = [job EXCEPT ![k] = "ended"]
  /\ status' = [status EXCEPT ![k] = code]
  /\ UNCHANGED <<files, mode, packages, here, pc, server, raw, used, exit,
                 origin>>

-----------------------------------------------------------------------------
(* The end *)

Failing == {k \in Jobs : status[k] \notin {0, 100}}

\* The guard: the first status that is neither 0 nor 100.
GuardStatus ==
  IF Failing = {} THEN 0
  ELSE status[CHOOSE k \in Failing : \A j \in Failing : k <= j]

\* Mutant: the last result decides.
LastStatus == IF status[Len(packages)] = 0 THEN 0 ELSE 1

\* dir-walk: any other than 0, or a rejection.
DirectoryStatus ==
  IF \A k \in Jobs : job[k] = "ended" /\ status[k] = 0 THEN 0 ELSE 1

Finish ==
  /\ pc = "run" /\ \A k \in Jobs : job[k] \in {"ended", "refused"}
  /\ End(IF mode = "directory" THEN DirectoryStatus ELSE GuardStatus)
  /\ UNCHANGED <<files, mode, packages, here, server, raw, job, used,
                 status, origin>>

-----------------------------------------------------------------------------
(* The migration, in another process; a file that is already of version 1, *)
(* or of none, it leaves alone.                                             *)

run == <<mode, packages, here, pc, server, raw, job, used, status, exit,
         origin>>

BuildV1 ==
  /\ migrator = "idle" /\ Migratable(file)
  /\ migrator' = "built" /\ UNCHANGED <<file, run>>

Truncate ==
  /\ migrator = "built"
  /\ migrator' = "truncated" /\ file' = Empty /\ UNCHANGED run

\* Nothing else writes the file: what was read is what it was at first.
Write ==
  /\ migrator = "truncated"
  /\ migrator' = "idle" /\ file' = Migrated(origin) /\ UNCHANGED run

MigratorDies ==
  /\ migrator \in {"built", "truncated"}
  /\ migrator' = "dead" /\ UNCHANGED <<file, run>>

Over == pc = "done" /\ UNCHANGED vars

Next ==
  \/ Validate \/ ValidationFails \/ WalkDirectory
  \/ \E k \in Jobs : ReadTier(k) \/ Materialise(k) \/ Refuse(k)
  \/ \E k \in Jobs, code \in Statuses : ChildEnds(k, code)
  \/ Finish
  \/ BuildV1 \/ Truncate \/ Write \/ MigratorDies
  \/ Over

Spec == Init /\ [][Next]_vars

\* The event loop of ad-evals turns.
LoopFairness ==
  /\ WF_vars(Validate) /\ WF_vars(WalkDirectory) /\ WF_vars(Finish)
  /\ WF_vars(\E k \in Jobs : ReadTier(k))
  /\ WF_vars(\E k \in Jobs : Materialise(k) \/ Refuse(k))

FairSpec == Spec /\ LoopFairness

\* promptfoo ends, whatever its providers do.
ChildFairness == WF_vars(\E k \in Jobs, code \in Statuses : ChildEnds(k, code))

-----------------------------------------------------------------------------
(* Properties *)

\* Types; and the places of the packages fit the invocation's: none has been
\* begun before the invocation runs, one at most is being resolved, no more
\* than the limit of promptfoos run (getOuterLimit), in the guard only one.
TypeOK ==
  /\ migrator \in {"idle", "built", "truncated", "dead"}
  /\ pc \in {"start", "run", "done"} /\ server \in BOOLEAN
  /\ exit \in Statuses \cup {2}
  /\ job \in [Jobs -> {"waiting", "reading", "spawned", "ended", "refused"}]
  /\ status \in [Jobs -> Statuses]
  /\ Cardinality(In("reading")) <= 1
  /\ Cardinality(In("spawned")) <= Limit
  /\ pc = "start" => In("waiting") = Jobs

WholeFiles ==
  {origin} \cup (IF Migratable(origin) THEN {Migrated(origin)} ELSE {})

\* Whenever the migration runs or dies: what promptfoo is given for a package
\* is what one whole tier file says, the one before the migration or the one
\* after it, and never a mixture of two reads nor what is left of the file in
\* between (resolveConfigFile reads it twice, migrate truncates it first).
OneWholeTierFile ==
  \A k \in In("spawned") \cup In("ended") :
    \E doc \in WholeFiles :
      /\ Resolves(doc, doc, packages[k])
      /\ used[k] = Configs(doc, doc, packages[k])

\* A migrated file lists for every tier the provider that parseTierConfig
\* makes of the file before (_buildV1 and _normalizeV0ToV1 are written apart),
\* so that the validator and the start of the daemon see no difference.
MigrationKeepsProviders ==
  (IsV1(file) /\ ~IsV1(origin) /\ Parses(origin)) =>
    Parses(file) /\ Providers(file) = Providers(origin)

\* A provider that a validated invocation gives promptfoo has a kind that
\* the bridge knows or is the agent server's, and a model where its kind needs
\* one, though the file may have been rewritten since it was validated.  The
\* block [multiturn] of version 0 is not looked at by the validator.
OnlyValidatedProviders ==
  mode # "directory" =>
    \A k \in In("spawned") \cup In("ended") : \A i \in DOMAIN used[k] :
      \/ used[k][i].label = "multiturn"
      \/ /\ used[k][i].kind \in Registry \cup {AgentServer}
         /\ NeedsModel(used[k][i].kind) => used[k][i].model

\* The packages the daemon is decided for: what was discovered, or the first
\* given one, if the path names its file from the working directory too.
Covered(k) ==
  mode = "discovered" \/ (mode = "given" /\ k = 1 /\ here = packages[1].tier)

\* ad-evals.js:616-639: no provider of the agent server runs for a covered
\* package without its daemon, which was decided from an earlier read of the
\* tier file and from trimmed or default tiers.  Nothing is promised for a
\* path that means another file from the cwd, nor for a further -c.
ServerWhereNeeded ==
  \A k \in In("spawned") \cup In("ended") : Covered(k) =>
    \A i \in DOMAIN used[k] : used[k][i].via = "wrapper" => server

\* Exit code 0 means that every package was run: none refused, none left
\* out, and none failed; in a directory, that every provider took its
\* configuration and every test passed, and only then.
ExitCodeHonest ==
  pc = "done" =>
    /\ exit = 0 => \A k \in Jobs :
         /\ job[k] = "ended"
         /\ status[k] = 0 \/ (mode # "directory" /\ status[k] = 100)
    /\ (exit # 0 /\ mode = "directory") =>
         \E k \in Jobs : job[k] = "refused" \/ status[k] # 0

\* Of a file of version 0, a promptfoo only passes on what it said before the
\* migration: after it the providers have lost [runtime] (migrate-from-v0.js:
\* 55-89), without which the bridge refuses them (opencode-cli-provider.js:145).
OnlyOriginPasses ==
  \A k \in In("ended") : status[k] = 0 =>
    /\ Resolves(origin, origin, packages[k])
    /\ used[k] = Configs(origin, origin, packages[k])

\* getOuterLimit (concurrency.js:46-63) with dir-walk.js:197-216: whatever is
\* refused, migrated or ended in between, the promptfoos are a bounded set.
Positions == UNION {DOMAIN list : list \in PackageLists}
FanOut == INSTANCE BoundedSlots WITH Users <- Positions, Cap <- OuterCap,
                                     inside <- In("spawned")
ImplementsBoundedFanOut == FanOut!Spec

\* In a directory every package is run or refused, whatever happens to the
\* others: a rejected Promise.all does not stop p-limit from starting the rest.
EveryPackageSettles ==
  ChildFairness =>
    (mode = "directory" ~> \A k \in Jobs : job[k] \in {"ended", "refused"})

=============================================================================
