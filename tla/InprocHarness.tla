---------------------------- MODULE InprocHarness ----------------------------
(***************************************************************************)
(* One harness process: its in-process cases (InprocDispatch) and, for the *)
(* cases of kind opencode_sdk, the servers that their provider boots and   *)
(* stops (OpencodeServers).  The bridge calls the provider's methods and   *)
(* resumes when their promises settle; the end of the process stops every  *)
(* case where it is.  The other cases have no server.                      *)
(***************************************************************************)
EXTENDS InprocDispatch

CONSTANT Opencode   \* the cases of kind opencode_sdk

ASSUME OpencodeType == Opencode \subseteq Cases

VARIABLES
  srv,      \* where the provider is with each case's server
  server,   \* the server processes
  registry, \* _activeServers
  hooks,    \* _signalHooksInstalled
  host      \* the harness process: "up" or "gone"

servers == <<srv, server, registry, hooks, host>>
allVars == <<vars, servers>>

S == INSTANCE OpencodeServers WITH Sessions <- Opencode, pc <- srv

HarnessInit == Init /\ S!Init

-----------------------------------------------------------------------------
(* A case of kind opencode_sdk *)

\* What concerns no server: up to provider.init(), and inside a turn.
ServerUntouched(c) ==
  /\ Refuse(c) \/ Start(c) \/ FactoryDone(c) \/ WriteFile(c)
  /\ UNCHANGED servers

\* Inside init(): createOpencodeServer is called, and answers.
Boots(c) == pc[c] = "init" /\ (S!Boot(c) \/ S!Booted(c)) /\ UNCHANGED vars

InitResolves(c) == InitDone(c) /\ sess'[c] = "open" /\ S!Ready(c)

\* There is no SDK, no agent, no server, or it does not get ready.
InitRejects(c) ==
  /\ InitDone(c) /\ sess'[c] = "none"
  /\ \/ srv[c] = "idle" /\ UNCHANGED servers
     \/ S!BootFails(c)
     \/ S!NotReady(c)

\* turn() and finalize() never reject.  The finally block calls shutdown()
\* in the same stretch of code.
MethodSettles(c) ==
  /\ TurnDone(c) \/ (FinalizeDone(c) /\ result'[c] = "ok")
  /\ IF pc'[c] = "shutdown" THEN S!Shutdown(c) ELSE UNCHANGED servers

\* shutdown() swallows every failure.
ShutdownResolves(c) == ShutdownDone(c) /\ sess'[c] = "closed" /\ S!Deleted(c)

OpencodeStep(c) ==
  \/ ServerUntouched(c) \/ Boots(c) \/ InitResolves(c) \/ InitRejects(c)
  \/ MethodSettles(c) \/ ShutdownResolves(c)

-----------------------------------------------------------------------------
(* The process *)

OtherStep(c) == c \notin Opencode /\ CaseStep(c) /\ UNCHANGED servers

Step(c) == host = "up" /\ (OtherStep(c) \/ (c \in Opencode /\ OpencodeStep(c)))

ProcessEnds == S!HostEnds /\ UNCHANGED vars

Gone == S!Over /\ UNCHANGED vars

HarnessNext == (\E c \in Cases : Step(c)) \/ ProcessEnds \/ Gone

HarnessSpec == HarnessInit /\ [][HarnessNext]_allVars

-----------------------------------------------------------------------------
(* Properties *)

\* providers/opencode_sdk/provider.js:72-104, 226-252: what ends the harness,
\* short of SIGKILL, leaves no server but one whose init() had not resolved.
OnlyUnreadyOrphans ==
  host = "gone" => \A c \in Opencode : server[c] = "running" => pc[c] = "init"

\* _node_bridge.js:852-917, provider.js:230-249, 334-349: a server runs only
\* inside its case: no path of the bridge returns before it is stopped.
ServerInsideCase ==
  \A c \in Opencode :
    server[c] = "running" => pc[c] \in {"init", "turn", "finalize", "shutdown"}
=============================================================================
