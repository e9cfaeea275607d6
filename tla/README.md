# Verification of the eval harness

TLA+ models of the concurrent and failure-handling core of the eval harness,
the TLC configurations that check them on small instances, and theorems about
them checked by TLAPS. Line numbers are those of the repository at the commit
the models were written from. `PROJECT.json` maps every definition to them.

## 1. The system

`ad-evals` (`bin/ad-evals.js`) runs promptfoo over eval packages. Promptfoo loads
the harness's providers, and these run coding agents: in a Python subprocess, in
the promptfoo process itself, through a CLI, or through an agent server.

```
 ad-evals run ── starts/stops ──> openhands-agent-server daemon
     │ spawnSync                          ^ REST + WebSocket
     v                                    │
 guard ── spawnSync ──> promptfoo ── callApi ──> providers
 (git snapshots)                            │ concurrency gate (acquire/release)
                                            ├─ _node_bridge ── NDJSON ─> Python adapter
                                            ├─ _node_bridge ── promises ─> in-process SDK
                                            │                          └─> opencode servers
                                            └─ CLI providers ── spawn ─> opencode
```

| component | state it keeps | operations | what makes it correct |
|---|---|---|---|
| concurrency gate (`concurrency.js`) | one global p-limit, one per kind, made lazily; a config cache | `acquire(kind)`, the release it returns, `resetLimits` | caps hold; a slot never lost; nobody waits with a slot free; per-kind slots nest in global ones |
| bridge, subprocess branch (`_node_bridge.js` 326-417, 590-772) and `_python_adapter.py` | child process, stdin/stdout pipes, timers, `step` of the conversation; adapter: sessions, a "shutting down" flag | spawn, init, turn*, finalize, shutdown, SIGTERM, SIGKILL | a reply answers its own request; turns in order and counted only when done; callApi returns; no adapter is left behind |
| bridge, in-process branch (`_node_bridge.js` 775-918) | provider cache per kind, session per case, workspace directories | init, turn*, finalize, shutdown, make and remove the workspace | every session is shut down; a workspace is removed, and the damage of sharing one is confined to the cases that do |
| agent-server daemon (`agent-server-lifecycle.js`, `ad-evals.js` 638-667) | `ACTIVE_HANDLES`, process group, pipes, signal hooks | start (port, spawn, probe, retry), stop (SIGTERM, grace, SIGKILL), hooks | one daemon; none left behind; stop ends |
| opencode servers (`providers/opencode_sdk/provider.js`) | `_activeServers`, hooks | init, shutdown, drain on exit | registry exact; servers die with the harness |
| cleanup guard (`run-promptfoo-with-guard.js`) | the snapshot before a run, `finalStatus` | snapshot, run, detect, restore | new dirt is found and put back, the user's own is left alone, failures reach the exit code |
| agent-server conversation (`openhands-agent-server-provider.js`) | socket, queue, idle timer, attempts | POST, stream, retry, close | one attempt's output; sockets closed; a broken stream is not a success |
| directory fan-out (`dir-walk.js`) | outer limit, child processes | spawn per scenario, collect | every scenario counted; cap holds |
| tier config (`eval-tier-config.js`, `validate-package-config.js`, `migrate-from-v0.js`, `resolve-promptfoo-config.js`) | none | parse, validate, normalise, migrate, resolve | its readers and the migration agree on what a file says |
| claude provider (`claude-agent-sdk-provider.js`) | input queue, abort signal, turn count | stream input, auto-reply, stop | the input ends; the cap holds |
| CLI providers (`opencode-cli-*.js`) | version cache | probe, run, retry on empty output | one probe result; bounded retries |

What is hard about it, line by line, is the list `hazards` of `PROJECT.json`. In
short: promises that resume in an order nobody wrote down (gate, in-process
cases); a conversation without ids with a peer that may crash, stall or answer
late (subprocess); processes that outlive their parent (daemon, opencode, Python
adapter); a synchronous wait in the middle of an event loop (`spawnSync`); and
destructive clean-up of shared directories and of a git work tree.

## 2. The modules

| module | models | abstract specification |
|---|---|---|
| `ConcurrencyGate` | `concurrency.js`, one action per piece of p-limit and of `acquire` | `BoundedSlots` |
| `SubprocessDispatch` | `_dispatch`, `_ipcSend`, `_shutdownChild` with `_python_adapter.py` | `CaseContract` |
| `InprocDispatch` | `_dispatchInproc`, `_ensureWorkspace`, `_cleanWorkspace` | `CaseContract`, one instance for each case |
| `InprocHarness` | one harness process: `InprocDispatch` with `OpencodeServers` inside its opencode cases | both of its parts |
| `AgentServerDaemon` | start, stop, hooks, and the CLI block around promptfoo | |
| `OpencodeServers` | `init`, `shutdown`, `_stopServer` and the hooks | |
| `GuardedRun` | `main` of the guard and what git tells it | |
| `AgentConversation` | `callApi` of the openhands-agent-server provider, its socket and its watchdog | |
| `TierConfig` | what the loader, the validator, the migration and the resolver make of a tier file, as operators | |
| `EvalRun` | one `ad-evals` invocation over several packages, `dir-walk.js` or the guard's loop, and the migration beside it | `BoundedSlots`, of its promptfoos |
| `StreamingInput` | `callApi` and `runAgent` of the Node claude provider: the input generator, the loop, the abort signal | |
| `CliInvocation` | concurrent `callApi` of the two OpenCode CLI providers: version override, cache, probe, runs, retries, abort | |
| `GatedCalls` | those calls behind the gate: `ConcurrencyGate` with `CliInvocation` in its slots | both of its parts; `BoundedSlots`, of its processes |

`BoundedSlots` is a set of executing calls that never exceeds a cap. `CaseContract`
is what one test case promises promptfoo: turns begin in order, each once, and not
after an error; a turn counts only when it was answered; the outcome is decided once.
Both dispatch branches implement it. They are separate modules because the code
has them as separate branches with different failures, and the contract is what
they have in common.

**ConcurrencyGate.** State: for each limit its active count, its queue and its
number of pending `queueMicrotask` kicks; for each caller where it is in `acquire`
and what it holds. `Submit` enqueues and schedules a kick, `Kick` is the
microtask that starts the head of the queue if a slot is free, `TaskEnded` is the microtask after a task has resolved
(decrement, then resume the next), `ReadFails` is the throw of the configuration
read between the two acquisitions. p-limit is a library; its behaviour is modelled
from how `_acquireSlot` uses it, and marked external in the map.

**SubprocessDispatch.** The bridge is `bpc` (what it is waiting for), `step` (which
request), `completed` and `result`; the adapter is `apc`, what it is handling and
whether its sessions are closed; between them the two pipes, the end-of-stream and
exit events, and the signals sent. A data listener takes the first line of the next
chunk, and no id is compared, as in the code. The adapter may crash, be slow, fail to load
its provider, or answer with an error; the harness may die. `Turns` is the number of
turns of the case, the four Boolean constants switch faults off for the
violation runs.

**InprocDispatch.** Several cases of some kinds, each at an await; a workspace
directory is a set of the cases whose files are in it, keyed by the name that
`_ensureWorkspace` builds. `KeyOf` says which cases have the same name: the
resolver gives one `case_id` to a provider entry, so that all its rows do, and those of the next
package of the same tier after them; an entry of `[multiturn]` has no `case_id` and works in
`_default/_default`, which also outlives the invocation. `Supplied` are the cases with
`workspace_root` in their configuration, `Stale` the directories that were there before. A provider of a
kind in `Ensuring` makes the directory once more when its `init` resumes (`InitEnsures`, the codex one).

**InprocHarness.** The composition. A case of kind `opencode_sdk` calls `init` and `shutdown` of the provider, so
that an action of `InprocDispatch` and one of `OpencodeServers` happen in the same step: `InitResolves` is
`InitDone` with `Ready`, `InitRejects` is `InitDone` with `NotReady`, `BootFails` or no server at all,
`MethodSettles` enters `shutdown` with the last turn or `finalize`, `ShutdownResolves` is `ShutdownDone` with
`Deleted`. `ProcessEnds` stops every case where it is and runs the hooks. Cases of other kinds take the steps of
`InprocDispatch` alone.

**AgentServerDaemon.** Each caller of `startAgentServerDaemon` is at one of its awaits; each
daemon process is starting, up or dead. `LoopRuns` is false while a caller is in
`spawnSync`: no signal handler, timer, exit event or pipe reader can run then.

**OpencodeServers.** One process for each session, where its `init` or `shutdown` is,
the registry and whether the hooks are installed.

**GuardedRun.** A path has a content in HEAD, in the index and in the work
tree; `Tracked` and `Untracked` are what `git diff --name-only HEAD` and `git
ls-files --others --exclude-standard` print. They were compared with git on all
27 combinations of two contents and absence, renames apart: git's rename detection, which
needs a staged rename, is not modelled. Agents write and delete files and do not
stage. A hash stands for a content.

**AgentConversation.** One call: `pc` and `attempt` are the provider's place in
`_callWithRetries` and `_runOnce`; each attempt has a conversation on the server, a socket, the
queue of its events and perhaps a `reader`, the pending `next()`. `Message` and `Closed` are the
socket's handlers, `Look` and `StreamEnds` the loop with the generator, `IdleTimeout` the watchdog,
`EndAttempt` the `finally` block and what follows. A conversation of an attempt
that was given up stays `running`, as nobody stops it.

**TierConfig and EvalRun.** A tier file is a record of what its readers tell apart: the version, the fields of
`[runtime]`, the kind in `[multiturn]`, and for each tier its `agent` or its list of providers. `TierConfig` has an
operator for each function that reads one; `Resolves` and `Configs` are `resolveConfigFile`, with the
first and the second read of the file as separate arguments, because they are separate reads. `EvalRun` is the
process: `Validate` and `ValidationFails` are `runTierConfigValidation` and the start of the daemon, `WalkDirectory`
the way that has neither; `ReadTier` and `Materialise` or `Refuse` are the two reads of `writeResolvedConfig` for a
package, `ChildEnds` the end of its promptfoo, `Finish` the exit code. `mode` is one of three: "discovered" and
"given" go through the guard, "directory" through `dir-walk.js`. The daemon is decided on files that the CLI looks up
itself (`Looked`): the discovered ones, or the first given path, which it takes from the working directory where the
resolver takes it from the eval root. `here` is the tier of the file that path finds, if any; `Elsewhere` the tiers it
may have apart from the package's own. That look-up trims the tier and falls back to `[defaults]` (`default` of a tier
file), the resolver does neither (`padded` says that a package's tier has blanks around it). `BuildV1`, `Truncate`, `Write` and
`MigratorDies` are `migrate`, run by another process at any time. `Documents` and `PackageLists` are the tier files
and package lists to start from.

**StreamingInput.** One call: `pc` and `attempt` are its place in `callWithRetries`. `gen` is where the generator
`inputStream` stands (ready to be pulled, waiting in its promise, woken, done), `queue` and `ended` are what it reads;
`NextInput` is a pull by the SDK. `Result` is the loop with a result message: `Success` counts the idle turns and either
pushes an auto-reply or ends the input, `ErrorResult` and `OtherResult` end it. `StreamEnds` and `StreamThrows` are the
end of the `for await` with the `finally` block and the decision of `callWithRetries`. `Abort` may come at any time; a
signal that fired before `Open` is never heard by `endInput` again. The SDK is external: one result for each message
it took, and a stream that may end or throw at any time.

**CliInvocation.** Several calls in one process, each idle, probing, running, in its parser, or returned. `cache` is
`majorCache`; `Start` takes the generation from the environment or from there, or probes; `ProbeEnds` remembers what
was found, or version 1, and goes on into `Spawn`. A child is alive, stopping after a SIGTERM, or failing: its `error`
event is still to come, and if nobody listens it takes the process down. `RunnerCommand` is what is run,
`ProbeCommand` what is asked for its version: two functions in the code, and `ArgumentsFit` is about both.

**GatedCalls.** The composition of the gate with the CLI. A call is a caller of the gate until it has its slot, then a
call of `CliInvocation`: `Ask` is the start of `callApi`, `AcquireRejects` a read of the tier file that fails, which
rejects the sibling's `callApi` before its `try`; `Begin` is the first step in the slot, and `Finally` makes the step in
which a call returns, whichever step that is, also the one that gives the slot back. The bridge takes the global slot
only and no kind; the sibling takes both. A call that the tier file sends straight to the base provider passes no gate
and takes the steps of `CliInvocation` alone (`Gated` are the others). One event loop runs everything: microtasks come
before timers and pipes, so that what waits for a timer, a pipe or a signal waits until nobody is between a slot and
its work (`Quiet`); and when the process dies nothing moves any more. `Calls` and `Callers` are separate constants
because only the calls behind the gate are its callers; other providers' calls take the same slots in
`ConcurrencyGate`, whose callers are of any kind, and are left out here.

## 3. Runs

| run | instance | shows |
|---|---|---|
| `subprocess_case` | 2 turns, all faults | replies match, nothing left behind, the call returns, the adapter stops, refinement of `CaseContract` |
| `subprocess_epipe` | 1 turn, a crash | **violated:** a crash is not always reported |
| `subprocess_split_reply` | 1 turn, a reply longer than a chunk | **violated:** a valid reply is refused |
| `inproc_harness` | 4 cases, two rows each of an opencode and of a codex entry, the rows of an entry in one directory, one of the two left by an earlier run; the process may end at any time | what sharing a directory can do and cannot, leaks only where explained, servers inside their sessions and dead with the harness unless unready, refinement of `CaseContract` for each case |
| `inproc_shared_workspace` | the same, nothing left before, the codex rows with directories of their own | **violated:** a case does not have a workspace to itself |
| `agent_server` | one CLI, port may be taken, signals | one daemon, tracked while it lives, no orphan for ever, stop returns |
| `agent_server_full_pipe` | pipes of 2 records, no signal | **violated:** requests are not answered |
| `guarded_run` | 2 invocations; a file in any of 27 git states, an ignored path, an artifact | what is restored, left alone and let pass |
| `agent_conversation` | 2 attempts of up to 3 events, silence, broken sockets, failing requests | one whole answer is the output, errors surface, no lost wake-up, the call returns |
| `eval_run` | every tier file of two tiers in the shapes below, 3 lists of 2 or 3 packages, discovered, given or in a directory, a given path that may find another file or none, `OuterCap` 2, the migration at any time | one whole tier file for each package, the migration keeps the providers, only validated providers, a daemon wherever its decision looks, an exit code that accounts for every package, no package left over |
| `streaming_input` | 2 attempts, cap 2, idle stop 2, an abort at any time | no lost wake-up of the generator, every message accounted for, an ended input stays ended, the call returns, an abort stops it |
| `gated_calls` | 3 calls (the bridge, a sibling, a sibling with capture) over 2 commands of different versions, 2 slots, one of them for siblings; one retry; reads of the tier file, probes, spawns and runs may fail, siblings may be aborted | no stranded waiter, gates that cannot lock each other, refinement of `BoundedSlots`, the CLI runs only in a slot and every call gives its slot back, arguments fit the binary that runs, one round of probes, a crash only after an abort, every call returns |

### Bounds

* Two turns are enough for a late reply to meet the next request of the same kind, and for
  an error in a turn that is neither first nor last. The proof of
  `SubprocessDispatchProofs` covers every number.
* Four in-process cases: two rows of an entry are enough for one to remove the directory of the other, two entries for
  directories, kinds and provider caches that must not touch. The rows of an entry are interchangeable (`Symmetry`).
  Two turns, as above. The theorems hold for any number of cases, kinds and turns and any sharing of names.
* Claude provider: a cap of 2 has a reply below it and one at it; an idle stop of 2 needs two idle turns in a row;
  one retry starts over with a fresh input. The theorems hold for every cap, idle stop (negative ones too) and
  number of retries.
* CLI providers: two commands of which the sibling names one and runs the other; three calls let two probe the same
  command while a third finds the cache; one retry. With two slots, of which siblings get one, a sibling waits for its
  kind while it keeps a global slot, and the third call waits for that. `MaxKicks` (2) caps pending microtasks, which
  the code leaves to the event loop; every kick beyond the first finds the same queue. Each call asks once; kinds
  without a cap are in the theorems only, which hold for all callers, commands, retries and caps.
* `PipeCap` = 2 records stands for 64 KB: what matters is empty, neither, full.
* Two attempts of the daemon start are the code's own bound.
* Two contents tell "changed" from "changed back"; two invocations let dirt and failures of the first
  meet the second. `Statuses` keeps 0, 100 and one other code.
* Two attempts let an abandoned reader overlap the next conversation; three events let a text come before,
  between and after others. They stand for `empty_output_retries` and `max_iterations`.
* Tier files of two tiers, "light" required and "high" not: every agent (none, blank, known, unknown) and runtime
  in version 0; in version 1 "light" has no, one or two providers, among them one of each kind that the code
  treats apart, without a model, with a mistyped kind, and with none. The three package lists have a multi-turn
  package, an absent tier, a package with a blank tier and one that breaks the resolver, each before a good one, and one
  whose tier has blanks around it. `[defaults]` names the tier "high" or none; a given path finds the package's own
  file, one of the tier "high", or none. With `OuterCap` 2 and three packages one waits for room. The theorems hold for every set of files and lists.

The types of the modules that have proofs of their own (`TypeOK`, and `IInv` where there is one) are proved and not
run; so are the caps of the gate (`CapsRespected`), `FailureReported`, `SocketsClosed` and `ErrorDecides`, which the
theorems state for every value. `OrphansAreTold`, `CaseContract`'s `Honest`, `CliProcessesCapped`,
`OnlyOriginPasses` and the refinements of `BoundedSlots` in `GatedCalls` and `EvalRun` are not run either: TLC found no
counterexample to them on the instances above before they were
proved, and each is near to a property that is run.

### Fairness

Safety runs need none. Liveness assumes only what the platform gives:

* `subprocess_case`: timers fire and the bridge's continuations run
  (`TimerFairness`). `CallReturns` assumes nothing of the adapter. `AdapterStops`
  is stated as `AdapterFairness => ...`: an adapter that keeps running its
  own handlers; one that hangs in an SDK call is only stopped by the signals.
* `agent_server`: the event loop turns when it is not in `spawnSync` (`HostFairness`),
  and promptfoo ends (`RunFairness`). `NoOrphanForever` assumes in addition that a
  daemon ends on SIGTERM. `RequestsAnswered` is refuted under a daemon that answers when it can write.

* `agent_conversation`: the loop's promises resume, its timer fires, and a terminated socket emits
  `close` (`LoopFairness`). `CallReturns` is stated as `PostFairness => ...`: the POST has no timeout,
  so it must be answered or fail; the event stream need not do anything.

* `eval_run`: the event loop turns (`LoopFairness`); `EveryPackageSettles` is stated as `ChildFairness => ...`:
  every promptfoo ends. Nothing is assumed of the migration.

* `streaming_input`: the import of the SDK and the slot settle (`LoopFairness`). `CallReturns` is stated as
  `SdkFairness => ...`: an SDK that pulls its input, answers what it took and ends its stream when the input is over;
  `AbortStopsCall` as `AbortFairness => ...`: one that stops when its `AbortController` is aborted.

* `gated_calls`: microtasks run, and each call goes on when it can: promptfoo makes it, its continuations resume, its
  timer fires (`LoopFairness`; one condition for each call, as each has one continuation at a time). `CallReturns` is
  stated as `BinaryFairness => ...`: a CLI that runs ends, and a probed one ends on SIGTERM. It need not answer. It
  allows for a slot that a failed read has lost (`SlotLost`), after which others may wait for ever.

No liveness is claimed for in-process cases: no timer bounds a provider's promise, so it
could only be assumed.

## 4. Proofs

Everything below holds for all values of the constants, from the assumptions named in the
modules and nothing else.

* **`GatedCallsProofs`**, the gate: `GateSafety` (types, caps, no stranded waiter, nesting),
  `SlotOwnership` (a taken global slot has an owner who will release it, or
  the owner's configuration read failed), `GateRefinement` (`BoundedSlots`). The caps are not
  inductive: a microtask may start a queued task only because the count it
  sees is exact. `IInv` adds that each active count is the number of callers
  that hold or are being given a slot (`Counted`), that queues hold each waiting caller
  once (`QueueOK`), and which slots go with each place in `acquire` (`HeldOK`, `CallerOK`).
  `NoDeadlock` (`NobodyStuck`) is what `CallReturns` needs of the gate: hold and wait goes one way only. Who waits is in the queue it
  waits for (`WaitersQueued`), so that with `NoStrandedWaiter` its gate has a kick on the way or is full
  (`FullOrKicked`). A full kind is held by calls that wait for nothing more, and a full global gate by such calls or by
  ones that wait for a kind; so somebody can move, or a failed read has lost a slot.
* **`GatedCallsProofs`**, the CLI and the composition: `GatedIsBoth`, `CliTypeCorrect`, `ArgumentsAlwaysFit`,
  `CrashesAreExplained`, `ProbesOnce`, `SlotsAreReturned`, `ProcessesCapped`, `ProcessesFillSlots`. A step of the
  composition is a step or a
  stutter of the gate and of the CLI (`GatedIsBoth`), so that the invariants of both hold in it. Of the CLI,
  `ArgumentsFit` is not inductive: the arguments are made from what the cache says, so the invariant must say that a
  cached generation is the command's own or the guess after a failure (`CacheOK`, `Justified`), and keep that for the
  call that has read it while others overwrite the cache (`RunOK`). One round of probes holds because a command whose
  probe has ended is never absent from the cache again. `ChildOK` says which calls may have a live or a failing child.
  `Joined` then says where a call is in the gate while it probes, runs or parses: inside, so that its slot is held and
  nobody is giving it back (`CallerOK`); that is `CallsInSlots`, and with `Counted` the bound on the processes
  (`ProcessesCapped`). With it the processes themselves, without their gate, are seen to implement `BoundedSlots`: each
  step of the composition starts one while there is room, ends one, or leaves them as they are (`ProcessStep`).
* **`SubprocessDispatchProofs`**: `TypeCorrect`, `NoOrphanLeft`, `RepliesMatch`, `KeepsContract`,
  `CountsHonestly`.
  Replies match without ids because at most one request is under way and it is the one waited for
  (`InFlight`), until a timeout or an error ends the conversation: no request but
  `shutdown` is sent after one. The refinement also needs that turns begun,
  completed and counted agree with `step` (`Counted`). `CountsHonestly` (a case is "ok" with all its turns only) is
  proved of `CaseContract` alone (`ContractIsHonest`) and holds of the bridge because that implements it; the
  in-process cases inherit it in the same way (`CasesCountHonestly`).
* **`InprocHarnessProofs`**: `HarnessIsBoth`, `CasesKeepContract`, `LeaksAreExplained`, `DamageIsConfined`,
  `ServersStayInside`, `OrphansAreUnready`, `RegistryIsExact`, `CasesCountHonestly`, `TypeCorrect`. A step of the
  harness is a step of the bridge and a step
  or a stutter of the servers, so that the invariants of the two parts carry over: `Counted` ties the turns, the session
  and the result of a case to where it is, `Claimed` gives each directory that is new a case that has not returned,
  `S!ServerOK` ties a server to its session. `Joined` then says where case and server are together.
  None assumes anything of the names. `DamageIsConfined` needs that whoever wrote into a directory that is there still
  works: a case that returns through `finally` takes the directory with it, whoever else is in it.
* **`AgentServerDaemonProofs`**: `DaemonsAreTracked`, `OneCallerOneDaemon`, `OrphansWereTold`, `TypeCorrect`. The
invariant says of each
  caller which of its two handles may live, by where it is: none before the spawn, the latest and tracked one while it is
  in use, none after a failed start or a stop (`CallerOK`); an exit event is only ever of a dead daemon (`ExitsSeen`).
  `OrphansWereTold` is the safety half of `NoOrphanForever`: the hooks are there before any daemon (`HooksFirst`) and
  find every daemon that lives, so that one that outlives the CLI has had its SIGTERM.
  `OneCallerOneDaemon` assumes one caller, as the CLI is: two overlapping calls would both pass the check.
* **`StreamingInputProofs`**: `WakeupsKept`, `MessagesAccounted`, `EndedForGood`, `ErrorsDecide`, `TypeCorrect`. Before
the input ends
  every result gets its reply, so that at most one message is under way; when the loop ends the input nothing is
  (`NothingAfterEnd`). That is why an ended input needs no flush.
* **`GuardedRunProofs`**: `LetsOnlyRevertsPass`, `RestoresCleanPaths`, `LeavesUserWork`,
  `RemembersFailure`. `OnlyRevertsPass` speaks of the end only; the
  invariant carries it through the invocations (`RevertsOK`): between two it holds of the work
  tree, during one of the tree that was hashed before it, and the comparison of the two snapshots
  passes it on (lemma `NoViolation`).

* **`AgentConversationProofs`**: `ConversationSafety`, `OneAnswer`, `ErrorsSurface`. The output is the
  whole answer because every text sent is in `parts` or still queued (`TextsCounted`, with lemmas that
  count the texts of a queue), and because what ends a conversation is the last event of its queue (`LastIsTerminal`);
  `PlaceOK` says that an attempt not begun has nothing.

* **`EvalRunProofs`**: `ReadsOneFile`, `MigrationKeepsThem`, `ValidatedProvidersOnly`, `ServerIsThere`, `ExitsHonestly`,
  `FanOutCapped`, `FanOutFillsSlots`, `PassesBeforeMigration`. The file goes
  from what it was at first through the empty file to its migration and never back (`Seen`), and of two reads
  that differ the second does not load, because a migrated file and an empty one have no `[runtime]`
  (`OnlyOriginLoads`, `NoMixture`). A file of version 1 is never rewritten, so what was validated is what is read
  later (`Validated`); one of version 0 only ever gives OpenCode providers (`ValidConfigs`). For the exit code, only a
  promptfoo that ended has a status, and in the guard a refusal is the end (`Outcomes`); the first failing status is
  not 0 because a set of positions has a least member (`HasLeast`). The limit on the promptfoos (`FanOutCapped`) holds
  although the room is looked at before a package is resolved and used after it: one package is resolved at a time, so
  that the ones spawned and the one being resolved never exceed it together; that also makes the promptfoos an
  implementation of `BoundedSlots`. `PassesBeforeMigration` states the
  divergence of section 5: what `resolveConfigFile` makes of a migrated file lacks `[runtime]`, so that a promptfoo
  that passes was given what the file said before.

Liveness and `ENABLED` are outside the prover's reach: `CallReturns`,
`AbortStopsCall`, `AdapterStops`, `StopReturns`, `NoOrphanForever` and `EveryPackageSettles` are checked by TLC only.
What they rest on is proved where it is a safety property: `NoDeadlock` and `NoStrandedWaiter` for the gate,
`OrphansWereTold` and `NoOrphanLeft` for the processes, the two `NoLostWakeup` for the loops.
Every other property of a passing run is the subject of a theorem. `ServerIsThere` is about the packages whose file
the decision on the daemon looks at (`Covered`), and no others.

## 5. Where code and documentation disagree

Four runs are expected to fail; `findings` in `PROJECT.json` quotes for each the sentence
the code does not keep. Others were met while modelling and are not run:

* `acquire()` takes the global slot before it reads `eval-tiers.toml` (`concurrency.js` 254): when the read throws,
  nobody gives the slot back. `CallsInSlots`, `NobodyStuck` and `CallReturns` except it; `SlotOwnership` proves that it
  is the only leak.
* Calls of a capped kind take their global slot before they wait for their kind's
  (`concurrency.js` 261), so a slow kind can keep the others out; `docs/design.md` 257 says the cap
  bounds one kind "without starving other kinds".
* A socket that closes or fails ends the event stream like a finished conversation
  (`openhands-agent-server-provider.js` 131-135): the text so far is the output.
* After an idle timeout without text the retry runs beside the conversation it gave up, in the same
  workspace (313).
* A reply that arrives between the timeout of its request and `shutdown` is taken for the shutdown
  acknowledgement (`_node_bridge.js` 366-372); the adapter then gets SIGTERM at once.
  `AnswersMatch` is stated up to the shutdown.
* The adapter acknowledges `shutdown` before it closes its sessions, and the bridge sends
  SIGTERM on the acknowledgement (403).
* An error reply to `finalize` is not looked at (736-752).
* `uv run` is a wrapper: SIGKILL reaches the wrapper, and the adapter ends on its closed stdin.
  `NoOrphan` is worded so.
* A case that fails in `require` or in the factory leaves its workspace (828-844); two
  concurrent first cases create two provider instances (841).
* Two overlapping `startAgentServerDaemon` calls both pass the single-daemon check
  (`agent-server-lifecycle.js` 231); the CLI makes one. `EADDRINUSE_EXHAUSTED` (297) is unreachable.
  Any HTTP server that answers on the port passes for the daemon (70).
* A probe that fails late overwrites a generation that a concurrent one has found (`opencode-cli-invocation.js` 33-35,
  194). `ArgumentsFit` therefore excepts a command of which some probe has failed.
* The probe gets one SIGTERM and the call waits for its pipes: a binary that ignores it, or leaves a child with the
  pipes, keeps the call waiting, although the comment at 115-116 bounds it.
* A CLI call that is aborted before its run spawns the CLI all the same and rejects before it listens for `error`
  (`opencode-cli-provider.js` 270-280): if that spawn fails, the event takes promptfoo down. `CrashExplained` says that
  nothing else does. An abort rejects while the CLI may still run.
* The base provider ignores `opencode_runner_command` (262-264); the sibling names it in its metadata even when it runs
  plain `opencode`, ignores `OPENCODE_MODEL`, and throws out of `callApi` when its parser or its workspace fails, where
  the others return an error. With capture, a CLI that exits with an error but printed something is a success.
* An abort signal that has fired before the attempt starts aborts the SDK but never calls `endInput`
  (`claude-agent-sdk-provider.js` 42-44, 220): a retry starts after an abort, and ends only if the SDK does. A success
  read after an abort is still answered with an auto-reply. A blank last result hides the text of earlier blocks, so
  that the attempt counts as empty.
* An opencode server is started for each `init`, where the plan speaks of a shared one.
* Nothing in the repository sets `AD_EVALS_RUN_ID`: every run uses the directory
  `_default`, and the guard's workspace assertion (`run-promptfoo-with-guard.js` 39-42) is skipped.
* A path with staged content different from HEAD, and a file equal to HEAD, is clean for the
  guard; if the run dirties it, `git checkout` gives it the staged content.

* The guard compares the paths that are dirty after a run with those before
  (`run-promptfoo-with-guard.js` 145): an untracked file that the run deletes, or an uncommitted edit that it writes
  back, is in neither list and the guard exits 0; `docs/design.md` 186 says it exits non-zero when a run "creates or
  changes files outside those roots". `OnlyRevertsPass` states exactly what passes.
* A migrated tier has `provider_kind`, `label` and `agent_config`; `[runtime]` and `[multiturn]` are dropped
  (`migrate-from-v0.js` 55-89) and the resolver discards `agent_config` (`resolve-promptfoo-config.js` 399), so
  that the OpenCode provider refuses it, as it "requires agent, opencode_config, ..."
  (`opencode-cli-provider.js` 145). `docs/migration-v0-to-v1.md` 97 says "no manual edit required for OpenCode CLI
  users". `MigrationKeepsProviders` is therefore about what `parseTierConfig` reads, not about what promptfoo is
  given; `PassesBeforeMigration` proves that what only the migrated file says never passes. The docblock of `_buildV1` (50)
  says it preserves the runtime fields.
* The migration accepts a tier with a blank agent, which the loader and `parseTierConfig` refuse.
* `ad-evals run <file>` decides on the daemon from the file at that path under the working directory
  (`bin/ad-evals.js` 635-637), and the resolver reads the same path under the eval root
  (`resolve-promptfoo-config.js` 19-21, 241-263). From another directory the first finds nothing, or another file, and a
  package of the agent server runs without its daemon; so does one behind a further `-c`, as only `rest[0]` is looked
  at. The comment at 632-634 wants the look-up to work "regardless of where the CLI was launched", and does so for
  discovered paths; `docs/setup.md` 287 says "The CLI owns the daemon's lifecycle — you never start, stop, or pin a port
  by hand." `ServerWhereNeeded` is about `Covered` packages only.
* The decision on the daemon trims the tier and falls back to `[defaults]` (185, 205-209); the resolver refuses such a
  package. A daemon may be started for nothing.
* `ad-evals promptfoo -- eval -c` has neither validation nor daemon.
* A directory of scenarios neither validates the tier file nor starts the daemon (`ad-evals.js` 597 returns before
  603): a provider of the agent server finds no URL there. `OnlyValidatedProviders` and `ServerWhereNeeded` are
  about the other modes.
* When one scenario throws before its promptfoo is spawned, `Promise.all` rejects (`dir-walk.js` 215): the others run
  to their end, but no result is printed.
* The guard exits 0 when tests fail (status 100), a directory run exits 1.
* The kind in `[multiturn]` is validated by nothing, and its provider has no `run_id` nor `case_id`.

## 6. Not modelled

`vars.turns` in the tier file, and the model resolver's part of the validation; a promptfoo that cannot be spawned; two
invocations, which share `.tmp/resolved-configs`; a guard that is itself interrupted (it restores nothing, and the next
one takes the dirt for the user's). In the decision on the daemon: configurations with other extensions than `.json`,
`.yaml` and `.yml`, or with an `eval_tier` that is no string, which it skips. A CLI whose spawn fails for want of
descriptors (`EMFILE`): there is no `child.stdout` then, `opencode-cli-provider.js` 278 throws and rejects the run, and
the `error` event finds no listener. Redaction, logging, path constants, discovery, the mapping of results to promptfoo's
format, `doctor` and help: no state. Negative values of `AD_EVALS_SUBPROCESS_TIMEOUT_MS`,
which switch the timers off; `OPENCODE_MOCK_MODE`, which spawns nothing. What an SDK does inside a turn. Windows. The
benchmark,
the installer and the spikes.

## 7. Plan

In order of weight; the limit is what a reader can follow, one module for one component.

1. Composition: the gate with subprocess cases; the guard around runs of which adapters may outlive
   promptfoo; two invocations over one directory of resolved configs.
2. A guard that dies during its run, and what the next one restores.
3. Proofs: what holds of two invocations once they are modelled; abstract specifications of the conversation and of the
   daemon's lifecycle.
