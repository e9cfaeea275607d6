---------------------------- MODULE CliInvocation ----------------------------
(***************************************************************************)
(* Concurrent calls of the OpenCode CLI providers in one promptfoo process:*)
(* the base provider (opencode-cli-provider.js), called directly or by the *)
(* bridge, and its plugin sibling (opencode-cli-plugin-provider.js).  Each *)
(* asks which generation of the CLI it is about to run                     *)
(* (opencode-cli-invocation.js): an environment override, a process-wide   *)
(* cache, or a probe of the binary; then it spawns the CLI with arguments  *)
(* of that generation, and again while the output is empty.                *)
(*                                                                         *)
(* Binaries are external.  A probe answers with the binary's generation or *)
(* fails; after 10 seconds it gets SIGTERM.  The wait for a slot is in     *)
(* GatedCalls; OPENCODE_MOCK_MODE spawns nothing and is left out.          *)
(***************************************************************************)
EXTENDS Naturals, FiniteSets

CONSTANTS
  Calls,      \* callApi invocations
  Bridged,    \* those of the bridge, which passes no abort signal
  Siblings,   \* those of the plugin sibling
  Capture,    \* siblings with capture_on_failure
  Commands,   \* runner commands
  Plain,      \* the command "opencode"
  Unset,      \* no runner command given
  Blank,      \* one of white space
  RunnerOf,   \* opencode_runner_command of each call
  EnvRunner,  \* OPENCODE_RUNNER_COMMAND
  Generation, \* what each command speaks, 0 if it is not installed
  EnvMajor,   \* OPENCODE_CLI_MAJOR, normalised: 0 if it says nothing
  Retries     \* empty_output_retries of each call

Runners == Commands \cup {Unset, Blank}

\* Assumed where the module is instantiated (GatedCalls).
ConstantsOK ==
  /\ Bridged \subseteq Calls /\ Capture \subseteq Siblings
  /\ Siblings \subseteq Calls \ Bridged
  /\ Plain \in Commands /\ {Unset, Blank} \cap Commands = {} /\ Unset # Blank
  /\ RunnerOf \in [Calls -> Runners] /\ EnvRunner \in Runners
  /\ Generation \in [Commands -> 0..2] /\ EnvMajor \in 0..2
  /\ Retries \in [Calls -> Nat]

VARIABLES
  pc,       \* each call: "idle", "probing", "running", "parsing", "returned"
  result,   \* what it returned: "none" yet, "ok", "error"; "thrown"
  aborted,  \* calls whose abort signal has fired
  late,     \* calls whose running probe got SIGTERM after PROBE_TIMEOUT_MS
  cache,    \* majorCache: the generation of each command, 0 if absent
  major,    \* the generation each call has resolved
  attempt,  \* CLI runs each call began
  child,    \* its last run: "none", "alive", "stopping" after SIGTERM, "ended";
            \* "failing" if the spawn failed and its error event is to come
  host,     \* the promptfoo process: "up", "crashed"
  answered, \* history: commands whose probe has ended once
  failed    \* history: commands of which a probe failed

probing == <<late, cache, answered, failed>>
vars    == <<pc, result, aborted, probing, major, attempt, child, host>>

Init ==
  /\ pc = [c \in Calls |-> "idle"] /\ result = [c \in Calls |-> "none"]
  /\ aborted = {} /\ late = {} /\ answered = {} /\ failed = {}
  /\ cache = [k \in Commands |-> 0] /\ major = [c \in Calls |-> 0]
  /\ attempt = [c \in Calls |-> 0] /\ child = [c \in Calls |-> "none"]
  /\ host = "up"

-----------------------------------------------------------------------------
(* Which binary, and which arguments *)

\* opencode_runner_command || OPENCODE_RUNNER_COMMAND || 'opencode'.
Chosen(c) == IF RunnerOf[c] # Unset THEN RunnerOf[c]
             ELSE IF EnvRunner # Unset THEN EnvRunner ELSE Plain

\* runOpenCodeCaptureAll runs the chosen command, runOpenCode plain opencode.
RunnerCommand(c) == IF c \in Capture THEN Chosen(c) ELSE Plain

\* Mutant: the override is probed whoever runs.
ProbeChosen(c) == IF Chosen(c) = Blank THEN Plain ELSE Chosen(c)

\* _resolveProbeCommand, and the trim and default of resolveMajor.
ProbeCommand(c) == IF c \in Capture /\ Chosen(c) # Blank THEN Chosen(c) ELSE Plain

\* buildRunArgs and resolveSpawnCwd: what a generation is given.
RunArgs(m) == [dir |-> m = 1, standalone |-> m = 2,
               cwd |-> IF m = 2 THEN "project" ELSE "evalRoot"]

\* What the binaries make of it (opencode-cli-invocation.js:5-18): version 2
\* refuses --dir, and without --standalone finds none of the tier's agents.
Understands(g, args) ==
  IF g = 2 THEN ~args.dir /\ args.standalone /\ args.cwd = "project"
           ELSE args.dir /\ ~args.standalone

-----------------------------------------------------------------------------
(* One run of the CLI *)

Return(c, res) == /\ pc' = [pc EXCEPT ![c] = "returned"]
                  /\ result' = [result EXCEPT ![c] = res]

\* SIGTERM, to a child that lives.
Kill(s) == IF s = "alive" THEN "stopping" ELSE s

\* runner([...args, prompt], ...), up to its first event.  If the signal has
\* fired, the child is spawned, told to stop, and the promise rejects before
\* any listener, that for 'error' included, is there.  Left out: a spawn for
\* want of descriptors (EMFILE), after which there is no child.stdout, so that
\* opencode-cli-provider.js:278 throws before it listens for 'error'.
Spawn(c) ==
  LET k == RunnerCommand(c)
  IN IF k = Blank
       THEN Return(c, "error") /\ UNCHANGED <<attempt, child>>
       ELSE /\ attempt' = [attempt EXCEPT ![c] = @ + 1]
            /\ \E s \in {"alive", "failing"} :
                 /\ Generation[k] = 0 => s = "failing"
                 /\ child' = [child EXCEPT ![c] = IF c \in aborted THEN Kill(s) ELSE s]
            /\ IF c \in aborted THEN Return(c, "error")
               ELSE pc' = [pc EXCEPT ![c] = "running"] /\ UNCHANGED result

\* The close handlers: "text" or "blank" output, or a rejection.
Closed(c, code, out, err) ==
  IF c \in Capture
    THEN IF out = "text" THEN "text"
         ELSE IF err \/ code # 0 THEN "rejected" ELSE "blank"
    ELSE IF code = 0 THEN out ELSE "rejected"

Ended(c) == child' = [child EXCEPT ![c] = "ended"] /\ UNCHANGED attempt

\* Empty output: another attempt, or the end.
TryAgain(c) == IF attempt[c] <= Retries[c] THEN Spawn(c) ELSE Return(c, "error") /\ Ended(c)

\* The run's promise resolves with its output: the base provider looks at it
\* at once, the sibling awaits its parser.
Resolved(c, out) ==
  IF c \in Siblings
    THEN pc' = [pc EXCEPT ![c] = "parsing"] /\ UNCHANGED result /\ Ended(c)
  ELSE IF out = "text" THEN Return(c, "ok") /\ Ended(c)
  ELSE TryAgain(c)

-----------------------------------------------------------------------------
(* callApi *)

\* A field is missing, the retry count or the turns are unusable; or no
\* workspace can be made, which the sibling throws.
Refuse(c) ==
  /\ host = "up" /\ pc[c] = "idle"
  /\ Return(c, IF c \in Siblings THEN "thrown" ELSE "error")
  /\ UNCHANGED <<aborted, probing, major, attempt, child, host>>

\* resolveMajor without a probe, from the override or from the cache.
Known(c) == IF EnvMajor # 0 THEN EnvMajor ELSE cache[ProbeCommand(c)]

Start(c) ==
  /\ host = "up" /\ pc[c] = "idle"
  /\ IF Known(c) # 0
       THEN major' = [major EXCEPT ![c] = Known(c)] /\ Spawn(c)
       ELSE /\ pc' = [pc EXCEPT ![c] = "probing"]
            /\ UNCHANGED <<result, major, attempt, child>>
  /\ UNCHANGED <<aborted, probing, host>>

\* Mutant: a failed probe is not remembered.
RememberSuccess(k, g) == IF g = 0 THEN cache ELSE [cache EXCEPT ![k] = g]

\* Version 1 is the default, and is remembered like an answer; who comes last
\* overwrites what a concurrent probe has found.
Remember(k, g) == [cache EXCEPT ![k] = IF g = 0 THEN 1 ELSE g]

\* The probe's output is parsed, or there is none: it failed to start, it was
\* stopped, or it printed something else.
ProbeEnds(c) ==
  LET k == ProbeCommand(c)
  IN /\ host = "up" /\ pc[c] = "probing"
     /\ \E g \in {0, Generation[k]} :
          /\ cache' = Remember(k, g)
          /\ failed' = IF g = 0 THEN failed \cup {k} ELSE failed
          /\ major' = [major EXCEPT ![c] = IF g = 0 THEN 1 ELSE g]
     /\ answered' = answered \cup {k}
     /\ late' = late \ {c}
     /\ Spawn(c)
     /\ UNCHANGED <<aborted, host>>

\* Mutant: spawn() without its timeout option.
ProbeUnbounded(c) == FALSE /\ UNCHANGED vars

\* PROBE_TIMEOUT_MS: the probe gets SIGTERM, once.
ProbeTimesOut(c) ==
  /\ host = "up" /\ pc[c] = "probing" /\ c \notin late
  /\ late' = late \cup {c}
  /\ UNCHANGED <<pc, result, aborted, cache, answered, failed, major, attempt,
                 child, host>>

\* The CLI exits and its pipes close; nobody listens for a call that has
\* returned.
ChildExits(c) ==
  /\ host = "up" /\ child[c] \in {"alive", "stopping"}
  /\ IF pc[c] # "running" THEN Ended(c) /\ UNCHANGED <<pc, result>>
     ELSE \E code \in {0, 1}, out \in {"text", "blank"}, err \in BOOLEAN :
            LET res == Closed(c, code, out, err)
            IN IF res = "rejected" THEN Return(c, "error") /\ Ended(c)
                                   ELSE Resolved(c, res)
  /\ UNCHANGED <<aborted, probing, major, host>>

\* The sibling's parser finds text or none, or throws out of callApi.
Parsed(c) ==
  /\ host = "up" /\ pc[c] = "parsing"
  /\ \/ Return(c, "ok") /\ UNCHANGED <<attempt, child>>
     \/ Return(c, "thrown") /\ UNCHANGED <<attempt, child>>
     \/ TryAgain(c)
  /\ UNCHANGED <<aborted, probing, major, host>>

\* Mutant: no error listener on any child.
ErrorUnheard(c) == FALSE

\* Was the child's 'error' listener attached?  The call still waits for it.
ErrorHeard(c) == pc[c] = "running"

\* The error event of a spawn that failed: no binary, no working directory.
SpawnError(c) ==
  /\ host = "up" /\ child[c] = "failing"
  /\ Ended(c)
  /\ IF ErrorHeard(c) THEN Return(c, "error") /\ UNCHANGED host
     ELSE host' = "crashed" /\ UNCHANGED <<pc, result>>
  /\ UNCHANGED <<aborted, probing, major>>

\* The caller gives up.  A running call rejects at once; elsewhere the signal
\* is only looked at before the next run.  (The error of a failed spawn comes
\* before anybody else can act.)
Abort(c) ==
  /\ host = "up" /\ c \notin aborted \cup Bridged
  /\ pc[c] # "returned" /\ child[c] # "failing"
  /\ aborted' = aborted \cup {c}
  /\ IF pc[c] = "running" THEN /\ child' = [child EXCEPT ![c] = Kill(@)]
                               /\ Return(c, "error")
                          ELSE UNCHANGED <<pc, result, child>>
  /\ UNCHANGED <<probing, major, attempt, host>>

Over ==
  /\ \/ host = "crashed"
     \/ \A c \in Calls : pc[c] = "returned" /\ child[c] \in {"none", "ended"}
  /\ UNCHANGED vars

Next ==
  \/ \E c \in Calls :
       \/ Refuse(c) \/ Start(c) \/ ProbeEnds(c) \/ ProbeTimesOut(c)
       \/ ChildExits(c) \/ Parsed(c) \/ SpawnError(c) \/ Abort(c)
  \/ Over

Spec == Init /\ [][Next]_vars

-----------------------------------------------------------------------------
(* Properties *)

TypeOK ==
  /\ pc \in [Calls -> {"idle", "probing", "running", "parsing", "returned"}]
  /\ result \in [Calls -> {"none", "ok", "error", "thrown"}]
  /\ aborted \subseteq Calls /\ late \subseteq Calls
  /\ answered \subseteq Commands /\ failed \subseteq Commands
  /\ cache \in [Commands -> 0..2]
  /\ major \in [Calls -> 0..2]
  /\ attempt \in [Calls -> Nat]
  /\ child \in [Calls -> {"none", "alive", "stopping", "failing", "ended"}]
  /\ host \in {"up", "crashed"}

\* opencode-cli-plugin-provider.js:40-44, opencode-cli-invocation.js:20-21: a
\* CLI that runs was given the arguments of its own generation, unless the
\* environment overrides it or a probe of that very command has failed; and
\* version 2's are never a guess.
ArgumentsFit ==
  \A c \in Calls : LET k == RunnerCommand(c) IN
    pc[c] = "running" /\ Generation[k] # 0 /\ EnvMajor = 0 =>
      \/ Understands(Generation[k], RunArgs(major[c]))
      \/ major[c] = 1 /\ k \in failed

\* opencode-cli-invocation.js:33-35: once a probe of a command has ended, with
\* or without an answer, no further one is spawned for it.
OneRoundOfProbes ==
  [][\A c \in Calls : pc[c] # "probing" /\ pc'[c] = "probing"
                        => ProbeCommand(c) \notin answered]_vars

\* opencode-cli-provider.js:270-280: a CLI that cannot be spawned is an error
\* of its call; it takes promptfoo down only with a call that was aborted
\* before its run began.
CrashExplained == host = "crashed" => \E c \in aborted : result[c] = "error"

(* The inductive invariant behind them. *)

\* What is known of a command is its generation, or the guess after a probe of
\* it has failed.
Justified(k, m) == m # 0 /\ (m = Generation[k] \/ (m = 1 /\ k \in failed))

\* The cache knows every command of which a probe has ended.
CacheOK == \A k \in Commands : /\ cache[k] # 0 => Justified(k, cache[k])
                               /\ k \in answered => cache[k] # 0

\* A run has a command, and arguments for what is known of it.
RunOK(c) ==
  pc[c] \in {"running", "parsing"} =>
    /\ RunnerCommand(c) # Blank
    /\ EnvMajor = 0 => Justified(ProbeCommand(c), major[c])

\* Only a call that waits for it has a live child that nobody stopped; and a
\* spawn whose failure nobody waits for is of a call aborted before.
ChildOK(c) ==
  /\ pc[c] \in {"idle", "probing"} => child[c] = "none" /\ attempt[c] = 0
  /\ pc[c] = "parsing" => child[c] = "ended"
  /\ child[c] = "alive" => pc[c] = "running"
  /\ child[c] = "failing" => pc[c] = "running" \/ (c \in aborted /\ result[c] = "error")

\* opencode-cli-provider.js:179, 209: no call runs the CLI more often than its
\* retries allow.
AttemptsBounded(c) == attempt[c] <= Retries[c] + 1

CallOK(c) == RunOK(c) /\ ChildOK(c) /\ AttemptsBounded(c)

IInv == TypeOK /\ CacheOK /\ (\A c \in Calls : CallOK(c)) /\ CrashExplained
=============================================================================
