------------------------------ MODULE GatedCalls ------------------------------
(***************************************************************************)
(* The calls of the OpenCode CLI (CliInvocation) behind the concurrency    *)
(* gate (ConcurrencyGate), in one promptfoo process.  The bridge           *)
(* (_node_bridge.js:472) runs a whole call in a slot of the global gate;   *)
(* the plugin sibling acquires a slot of its kind                          *)
(* (opencode-cli-plugin-provider.js:243) and releases it in a finally      *)
(* block; a call that the tier file sends straight to the base provider    *)
(* passes no gate.  They share one event loop and one fate: an uncaught    *)
(* error ends them all.                                                    *)
(***************************************************************************)
EXTENDS ConcurrencyGate

CONSTANTS
  Calls, Bridged, Siblings, Capture,            \* the calls of the CLI
  Commands, Plain, Unset, Blank,                \* what they may run
  RunnerOf, EnvRunner, Generation, EnvMajor, Retries

VARIABLES
  cli,      \* pc of CliInvocation: where each call is, once it is let in
  result, aborted, late, cache, major, attempt, child, host, answered, failed

calls   == <<cli, result, aborted, late, cache, major, attempt, child, host,
             answered, failed>>
allVars == <<vars, calls>>

C == INSTANCE CliInvocation WITH pc <- cli

\* The calls that need a slot.
Gated == Bridged \cup Siblings

ASSUME CliTypes   == C!ConstantsOK
ASSUME GatedTypes == /\ Callers = Gated
                     /\ \A c \in Bridged : KindOf[c] = NoKind
                     /\ \A c \in Siblings : KindOf[c] \in Kinds

GatedInit == Init /\ C!Init

-----------------------------------------------------------------------------
(* Up to the slot *)

\* A call of the CLI is made once.
Ask(c) == CallApi(c) /\ cli[c] = "idle" /\ UNCHANGED calls

Admitted(c) == (EnterDirectly(c) \/ AskKind(c)) /\ UNCHANGED calls

\* acquire() rejects outside the sibling's try block: its callApi rejects.
AcquireRejects(c) == ReadFails(c) /\ C!Refuse(c)

GateStep(c) == Ask(c) \/ Admitted(c) \/ AcquireRejects(c)

Microtask ==
  /\ \E g \in Gates : (Kick(g) \/ \E c \in Callers : TaskEnded(g, c))
  /\ UNCHANGED calls

-----------------------------------------------------------------------------
(* In the slot *)

\* Mutant: release() is the last statement of the try block.
ReleaseUnlessThrown(c) ==
  IF c \in Gated /\ cli[c] # "returned" /\ cli'[c] = "returned" /\ result'[c] # "thrown"
    THEN Release(c) ELSE UNCHANGED vars

\* The slot is released where the call returns, whichever way it does.
Finally(c) ==
  IF c \in Gated /\ cli[c] # "returned" /\ cli'[c] = "returned"
    THEN Release(c) ELSE UNCHANGED vars

\* callApi of the provider, or a refusal of the bridge before it.
Begin(c) ==
  /\ c \in Gated => pc[c] = "working"
  /\ (C!Refuse(c) \/ C!Start(c))
  /\ Finally(c)

\* What follows in microtasks, or before anybody else can act.
Resumes(c) == (C!Parsed(c) \/ C!SpawnError(c)) /\ Finally(c)

\* No microtask is left: every slot is handed out, and whoever got one has
\* begun.  Only then does the event loop look at timers and pipes.
Quiet ==
  /\ \A g \in Gates : kicks[g] = 0 /\ settled[g] = {}
  /\ \A c \in Gated : pc[c] # "admitted" /\ (pc[c] = "working" => cli[c] # "idle")

TimesOut(c)   == Quiet /\ C!ProbeTimesOut(c) /\ Finally(c)
BinaryEnds(c) == Quiet /\ (C!ProbeEnds(c) \/ C!ChildExits(c)) /\ Finally(c)

\* A signal that fired before the call was made is one that fires at once.
Aborts(c) == Quiet /\ (c \in Gated => pc[c] # "idle") /\ C!Abort(c) /\ Finally(c)

CliStep(c) == Begin(c) \/ Resumes(c) \/ TimesOut(c) \/ BinaryEnds(c) \/ Aborts(c)

-----------------------------------------------------------------------------
Over == (C!Over \/ (SlotLost /\ UNCHANGED calls)) /\ UNCHANGED vars

GatedNext ==
  \/ host = "up" /\ ((\E c \in Gated : GateStep(c)) \/ Microtask)
  \/ \E c \in Calls : CliStep(c)
  \/ Over

GatedSpec == GatedInit /\ [][GatedNext]_allVars

\* The event loop turns: promptfoo makes its calls, microtasks run, timers
\* and events come.
Proceeds(c) == \/ host = "up" /\ c \in Gated /\ (Ask(c) \/ Admitted(c))
               \/ Begin(c) \/ Resumes(c) \/ TimesOut(c)

LoopFairness ==
  /\ WF_allVars(host = "up" /\ Microtask)
  /\ \A c \in Calls : WF_allVars(Proceeds(c))

\* Binaries end; a probed one, when it is told to.
Ends(c)        == (cli[c] = "probing" => c \in late) /\ BinaryEnds(c)
BinaryFairness == \A c \in Calls : WF_allVars(Ends(c))

FairGatedSpec == GatedSpec /\ LoopFairness

-----------------------------------------------------------------------------
(* Properties *)

\* opencode-cli-plugin-provider.js:40-44, opencode-cli-invocation.js:20-21: a
\* CLI that runs was given the arguments of its own generation, unless the
\* environment overrides it or a probe of that very command has failed; and
\* version 2's are never a guess.
ArgumentsFit == C!ArgumentsFit

\* opencode-cli-provider.js:270-280: a CLI that cannot be spawned is an error
\* of its call; it takes promptfoo down only with a call that was aborted
\* before its run began.
CrashExplained == C!CrashExplained

\* opencode-cli-invocation.js:33-35: once a probe of a command has ended, with
\* or without an answer, no further one is spawned for it.
OneRoundOfProbes == C!OneRoundOfProbes

\* opencode-cli-plugin-provider.js:243-335, _node_bridge.js:469-473: the CLI
\* runs, untold to stop, only in a slot of its call that nobody gives back
\* yet; and a call that has returned, thrown or been aborted keeps no slot,
\* unless acquire() itself had lost it.
CallsInSlots ==
  \A c \in Gated :
    LET owned == c \in held[Global] \ settled[Global]
    IN /\ child[c] = "alive" => owned
       /\ cli[c] = "returned" /\ owned => pc[c] = "failed"

Running == {c \in Gated : child[c] = "alive"}

\* concurrency.js:127: AD_EVALS_MAX_CONCURRENCY also bounds the CLI processes
\* behind the gate that have not been told to stop.
CliProcessesCapped == Cardinality(Running) <= Cap[Global]

\* The processes behind the gate are a bounded set: a CLI begins only with room
\* for it, and one at a time begins or leaves.
Processes == INSTANCE BoundedSlots
               WITH Users <- Gated, Cap <- Cap[Global], inside <- Running
ImplementsBoundedProcesses == Processes!Spec

\* A call returns, or the process is gone, if the binaries end: the probe
\* within its time, whatever it does without SIGTERM.  A slot that a failed
\* read has lost may keep others waiting for ever.
CallReturns ==
  BinaryFairness =>
    \A c \in Calls : <>(cli[c] = "returned" \/ host = "crashed" \/ SlotLost)

(* The inductive invariant of the composition, besides those of the parts. *)

\* Where a call is in the gate, by where it is in the provider.
Joined ==
  \A c \in Gated :
    /\ cli[c] \in {"probing", "running", "parsing"} => pc[c] = "working"
    /\ cli[c] = "returned" => pc[c] \in {"idle", "failed"}
=============================================================================
