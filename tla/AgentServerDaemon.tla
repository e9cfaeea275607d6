-------------------------- MODULE AgentServerDaemon --------------------------
(***************************************************************************)
(* The openhands-agent-server daemon of an eval run: startAgentServerDaemon *)
(* and stopAgentServerDaemon (agent-server-lifecycle.js), the process-level *)
(* hooks that go with them, and the CLI that calls them around promptfoo    *)
(* (bin/ad-evals.js run).                                                   *)
(*                                                                         *)
(* The CLI runs promptfoo with spawnSync: until promptfoo ends, the CLI's   *)
(* event loop stands still.  Signals wait, exit events wait, and nobody     *)
(* reads what the daemon writes into its stdout and stderr pipes.           *)
(*                                                                         *)
(* A handle <<s, n>> is the n-th daemon process that caller s spawned; it   *)
(* is spawned detached, as the leader of a process group of its own.        *)
(***************************************************************************)
EXTENDS Naturals, FiniteSets

CONSTANTS
  Callers,        \* calls of startAgentServerDaemon in this process
  PipeCap,        \* log records that fit the daemon's pipes
  PortMayBeTaken, \* may another process bind the port before the daemon does?
  SignalMayCome   \* may the CLI get SIGINT or SIGTERM, or an uncaught error?

Attempts == 1..2
Handles  == Callers \X Attempts

ASSUME PipeCapType == PipeCap \in Nat \ {0}
ASSUME EnvTypes    == {PortMayBeTaken, SignalMayCome} \subseteq BOOLEAN

VARIABLES
  pc,       \* each caller: "idle", "port", "probing", "blocked" in spawnSync,
            \* "stopping", "killing", "done", "failed", "refused"
  attempt,  \* the attempt each caller is at
  active,   \* ACTIVE_HANDLES
  daemon,   \* each daemon: "none", "starting", "up", "dead"
  taken,    \* handles whose port another process bound first
  exitSeen, \* handles whose exit event has fired
  terms,    \* handles whose group got SIGTERM
  hooks,    \* SIGNALS_INSTALLED
  signal,   \* a signal or an exception waits for the event loop
  host,     \* the CLI process: "up", "gone"
  logs,     \* records in the pipes of each daemon
  request   \* promptfoo waits for an answer of the daemon

procVars == <<daemon, exitSeen, taken>>
vars == <<pc, attempt, active, daemon, taken, exitSeen, terms, hooks, signal,
          host, logs, request>>

Init ==
  /\ pc = [s \in Callers |-> "idle"]
  /\ attempt = [s \in Callers |-> 1]
  /\ active = {} /\ taken = {} /\ exitSeen = {} /\ terms = {}
  /\ daemon = [h \in Handles |-> "none"]
  /\ hooks = FALSE /\ signal = FALSE /\ host = "up"
  /\ logs = [h \in Handles |-> 0]
  /\ request = FALSE

H(s)       == <<s, attempt[s]>>
Blocked    == \E s \in Callers : pc[s] = "blocked"
LoopRuns   == host = "up" /\ ~Blocked
Alive(h)   == daemon[h] \in {"starting", "up"}
GoTo(s, p) == pc' = [pc EXCEPT ![s] = p]

\* process.kill(-pid, 'SIGKILL') of the groups in G.
Kill(G) == daemon' = [h \in Handles |-> IF h \in G /\ Alive(h) THEN "dead"
                                                               ELSE daemon[h]]

-----------------------------------------------------------------------------
(* startAgentServerDaemon *)

\* The single-daemon check, up to the first await.
Start(s) ==
  /\ LoopRuns /\ pc[s] = "idle"
  /\ GoTo(s, IF active = {} THEN "port" ELSE "refused")
  /\ UNCHANGED <<attempt, active, procVars, terms, hooks, signal, host, logs,
                 request>>

\* allocateFreePort resolved: the probe server is closed, its port is free
\* for the daemon, or for anyone.
Spawn(s) ==
  /\ LoopRuns /\ pc[s] = "port"
  /\ GoTo(s, "probing")
  /\ daemon' = [daemon EXCEPT ![H(s)] = "starting"]
  /\ active' = active \cup {H(s)}
  /\ hooks' = TRUE
  /\ \/ UNCHANGED taken
     \/ PortMayBeTaken /\ taken' = taken \cup {H(s)}
  /\ UNCHANGED <<attempt, exitSeen, terms, signal, host, logs, request>>

\* GET /health answers 2xx, whoever answers.  startAgentServerDaemon returns
\* the handle and the CLI goes on into spawnSync without another await.
ProbeOk(s) ==
  /\ LoopRuns /\ pc[s] = "probing"
  /\ daemon[H(s)] = "up" \/ H(s) \in taken
  /\ GoTo(s, "blocked")
  /\ UNCHANGED <<attempt, active, procVars, terms, hooks, signal, host, logs,
                 request>>

\* Mutant: a failed start leaves its process to itself.
AbandonWithoutKill(s) ==
  /\ active' = active \ {H(s)}
  /\ UNCHANGED daemon

\* The catch block of a failed start.
Abandon(s) ==
  /\ active' = active \ {H(s)}
  /\ Kill({H(s)})

Retry(s) == attempt[s] = 1

\* The probe itself fails with EADDRINUSE: once, another port is tried.
ProbeInUse(s) ==
  /\ LoopRuns /\ pc[s] = "probing"
  /\ Abandon(s)
  /\ IF Retry(s)
       THEN attempt' = [attempt EXCEPT ![s] = @ + 1] /\ GoTo(s, "port")
       ELSE GoTo(s, "failed") /\ UNCHANGED attempt
  /\ UNCHANGED <<exitSeen, taken, terms, hooks, signal, host, logs, request>>

\* READINESS_TIMEOUT; the CLI's run() rejects.
ProbeTimeout(s) ==
  /\ LoopRuns /\ pc[s] = "probing"
  /\ Abandon(s)
  /\ GoTo(s, "failed")
  /\ UNCHANGED <<attempt, exitSeen, taken, terms, hooks, signal, host, logs,
                 request>>

-----------------------------------------------------------------------------
(* promptfoo, and stopAgentServerDaemon *)

Ask ==
  /\ host = "up" /\ Blocked /\ ~request
  /\ request' = TRUE
  /\ UNCHANGED <<pc, attempt, active, procVars, terms, hooks, signal, host, logs>>

\* Mutant: the handle is forgotten as soon as the daemon was asked to stop.
ForgetAtStop(s) == active \ {H(s)}

\* The handle stays in ACTIVE_HANDLES while the stop is awaited.
ActiveAtStop(s) == active

\* spawnSync returns and the finally block calls stopAgentServerDaemon; the
\* exit code is known only from an event before spawnSync.
PromptfooEnds(s) ==
  /\ host = "up" /\ pc[s] = "blocked"
  /\ request' = FALSE
  /\ IF H(s) \in exitSeen
       THEN active' = active \ {H(s)} /\ GoTo(s, "done") /\ UNCHANGED terms
       ELSE /\ terms' = terms \cup {H(s)}
            /\ active' = ActiveAtStop(s)
            /\ GoTo(s, "stopping")
  /\ UNCHANGED <<attempt, procVars, hooks, signal, host, logs>>

\* _waitForExit: the exit event, while somebody listens for it.
ExitEvent(h) ==
  /\ LoopRuns /\ daemon[h] = "dead" /\ h \notin exitSeen
  /\ exitSeen' = exitSeen \cup {h}
  /\ IF pc[h[1]] \in {"stopping", "killing"} /\ h = H(h[1])
       THEN GoTo(h[1], "done") /\ active' = active \ {h}
       ELSE UNCHANGED <<pc, active>>
  /\ UNCHANGED <<attempt, daemon, taken, terms, hooks, signal, host, logs,
                 request>>

\* Mutant: the wait has no timer of its own.
GraceOverOnExit(s) ==
  /\ LoopRuns /\ pc[s] = "stopping" /\ H(s) \in exitSeen
  /\ GoTo(s, "killing")
  /\ UNCHANGED <<attempt, active, procVars, terms, hooks, signal, host, logs,
                 request>>

\* STOP_GRACE_MS passed without an exit event.
GraceOver(s) ==
  /\ LoopRuns /\ pc[s] = "stopping"
  /\ Kill({H(s)})
  /\ GoTo(s, "killing")
  /\ UNCHANGED <<attempt, active, exitSeen, taken, terms, hooks, signal, host,
                 logs, request>>

\* Two more seconds, and the stop is over in any case.
KillWaitOver(s) ==
  /\ LoopRuns /\ pc[s] = "killing"
  /\ active' = active \ {H(s)}
  /\ GoTo(s, "done")
  /\ UNCHANGED <<attempt, procVars, terms, hooks, signal, host, logs, request>>

-----------------------------------------------------------------------------
(* The end of the CLI process *)

SignalComes ==
  /\ SignalMayCome /\ host = "up" /\ ~signal
  /\ signal' = TRUE
  /\ UNCHANGED <<pc, attempt, active, procVars, terms, hooks, host, logs, request>>

\* Mutant: the signal is re-raised before the daemons are told.
ReRaiseFirst == UNCHANGED terms

\* SIGTERM to the group of every active handle.
TermActive == terms' = terms \cup active

\* SIGINT or SIGTERM: tell the daemons, then die of the signal re-raised, or
\* of the signal itself if no daemon was ever spawned.
SignalHandled ==
  /\ LoopRuns /\ signal
  /\ host' = "gone" /\ signal' = FALSE
  /\ IF hooks THEN TermActive ELSE UNCHANGED terms
  /\ UNCHANGED <<pc, attempt, active, procVars, hooks, logs, request>>

\* An exception nobody catches, or the exit hook: SIGKILL to the groups.
Exit ==
  /\ LoopRuns
  /\ \/ SignalMayCome
     \/ \A s \in Callers : pc[s] \in {"done", "failed", "refused"}
  /\ host' = "gone"
  /\ IF hooks THEN Kill(active) ELSE UNCHANGED daemon
  /\ UNCHANGED <<pc, attempt, active, exitSeen, taken, terms, hooks, signal,
                 logs, request>>

-----------------------------------------------------------------------------
(* The daemon, and its pipes *)

DaemonUp(h) ==
  /\ daemon[h] = "starting" /\ h \notin taken
  /\ daemon' = [daemon EXCEPT ![h] = "up"]
  /\ UNCHANGED <<pc, attempt, active, exitSeen, taken, terms, hooks, signal,
                 host, logs, request>>

Die(h) ==
  /\ daemon' = [daemon EXCEPT ![h] = "dead"]
  /\ UNCHANGED <<pc, attempt, active, exitSeen, taken, terms, hooks, signal,
                 host, logs, request>>

\* A crash, or a port it cannot bind.
DaemonDies(h) == Alive(h) /\ Die(h)

DaemonTerminates(h) == Alive(h) /\ h \in terms /\ Die(h)

\* An answer takes a record of the access log; the pipes block when full.
Answer(h) ==
  /\ daemon[h] = "up" /\ request /\ logs[h] < PipeCap
  /\ logs' = [logs EXCEPT ![h] = @ + 1]
  /\ request' = FALSE
  /\ UNCHANGED <<pc, attempt, active, procVars, terms, hooks, signal, host>>

\* The event loop keeps the ring buffers up to date.
Drain(h) ==
  /\ LoopRuns /\ logs[h] > 0
  /\ logs' = [logs EXCEPT ![h] = 0]
  /\ UNCHANGED <<pc, attempt, active, procVars, terms, hooks, signal, host,
                 request>>

Over == host = "gone" /\ (\A h \in Handles : ~Alive(h)) /\ UNCHANGED vars

CallerStep(s) ==
  \/ Start(s) \/ Spawn(s) \/ ProbeOk(s) \/ ProbeInUse(s) \/ ProbeTimeout(s)
  \/ PromptfooEnds(s) \/ GraceOver(s) \/ KillWaitOver(s)

Next ==
  \/ \E s \in Callers : CallerStep(s)
  \/ \E h \in Handles :
       \/ ExitEvent(h) \/ DaemonUp(h) \/ DaemonDies(h) \/ DaemonTerminates(h)
       \/ Answer(h) \/ Drain(h)
  \/ Ask \/ SignalComes \/ SignalHandled \/ Exit \/ Over

Spec == Init /\ [][Next]_vars

\* The event loop of the CLI turns: promises resume, timers and exit events
\* fire, signals are handled, pipes are read.
HostFairness ==
  /\ \A s \in Callers :
       /\ WF_vars(Spawn(s)) /\ WF_vars(GraceOver(s)) /\ WF_vars(KillWaitOver(s))
       /\ WF_vars(ProbeTimeout(s))
  /\ \A h \in Handles : WF_vars(ExitEvent(h)) /\ WF_vars(Drain(h))
  /\ WF_vars(SignalHandled)

\* A daemon that ends on SIGTERM and answers when it can write.
DaemonFairness ==
  \A h \in Handles : WF_vars(DaemonTerminates(h)) /\ WF_vars(Answer(h))

\* The promptfoo run ends.
RunFairness == \A s \in Callers : WF_vars(PromptfooEnds(s))

HostSpec  == Spec /\ HostFairness /\ RunFairness
ServeSpec == Spec /\ HostFairness /\ DaemonFairness

-----------------------------------------------------------------------------
(* Properties *)

TypeOK ==
  /\ pc \in [Callers -> {"idle", "port", "probing", "blocked", "stopping",
                         "killing", "done", "failed", "refused"}]
  /\ attempt \in [Callers -> Attempts]
  /\ active \subseteq Handles /\ taken \subseteq Handles
  /\ exitSeen \subseteq Handles /\ terms \subseteq Handles
  /\ daemon \in [Handles -> {"none", "starting", "up", "dead"}]
  /\ hooks \in BOOLEAN /\ signal \in BOOLEAN /\ request \in BOOLEAN
  /\ host \in {"up", "gone"}
  /\ logs \in [Handles -> 0..PipeCap]

\* docs/design.md:414: "A ACTIVE_HANDLES set enforces a single daemon per run",
\* the retry on another port included.
OneDaemon == Cardinality({h \in Handles : Alive(h)}) <= 1

\* As long as the CLI lives, every daemon that lives is in ACTIVE_HANDLES,
\* where the signal and exit hooks find it (agent-server-lifecycle.js:167-192):
\* also after a start that failed, and after the grace period of a stop, which
\* forget a process only when it is dead (213-228, 282-285).
LiveDaemonsTracked ==
  host = "up" => \A h \in Handles : Alive(h) => h \in active

\* docs/setup.md:311: "no orphan processes": once the CLI is gone no daemon
\* that ends on SIGTERM goes on for ever.
NoOrphanForever ==
  DaemonFairness => (host = "gone" ~> \A h \in Handles : ~Alive(h))

\* What that rests on: whoever outlives the CLI has been told to end, whether a
\* signal, an exception or the end of run() was the end of it, and in whatever
\* step of a start or a stop (agent-server-lifecycle.js:167-192).
OrphansAreTold == host = "gone" => \A h \in Handles : Alive(h) => h \in terms

\* The hooks are installed in the turn that spawns the first daemon (:257-266).
HooksFirst == \A h \in Handles : daemon[h] # "none" => hooks

\* After promptfoo has ended, the CLI's run() settles or the process ends,
\* whatever the daemon does (agent-server-lifecycle.js:194-228).
StopReturns ==
  \A s \in Callers : pc[s] = "stopping" ~> pc[s] = "done" \/ host = "gone"

\* docs/setup.md:311: once the daemon is ready, "a normal Promptfoo eval
\* table": a request is answered unless the daemon died.
RequestsAnswered ==
  request ~> ~request \/ \A h \in Handles : ~Alive(h)
=============================================================================
