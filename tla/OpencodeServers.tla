--------------------------- MODULE OpencodeServers ---------------------------
(***************************************************************************)
(* The opencode server processes of the opencode_sdk provider              *)
(* (providers/opencode_sdk/provider.js): init() boots one for each session *)
(* the bridge opens, shutdown() closes it, and a module-level registry     *)
(* with process hooks is meant to close the rest when the harness process  *)
(* ends.  The bridge calls init, turn, finalize and shutdown in that order *)
(* (InprocDispatch); turn and finalize do not touch the server.            *)
(***************************************************************************)
EXTENDS Naturals, FiniteSets

CONSTANT Sessions   \* concurrent cases of the kind

VARIABLES
  pc,       \* each session: "idle", "booting", "probing", "open",
            \* "deleting", "over"
  server,   \* its opencode process: "none", "running", "closed"
  registry, \* _activeServers
  hooks,    \* _signalHooksInstalled
  host      \* the harness process: "up" or "gone"

vars == <<pc, server, registry, hooks, host>>

Init ==
  /\ pc = [s \in Sessions |-> "idle"]
  /\ server = [s \in Sessions |-> "none"]
  /\ registry = {} /\ hooks = FALSE /\ host = "up"

GoTo(s, p) == host = "up" /\ pc' = [pc EXCEPT ![s] = p]

\* server.close() of the servers in S kills their processes.
Close(S) == server' = [s \in Sessions |->
                         IF s \in S /\ server[s] = "running" THEN "closed"
                                                             ELSE server[s]]

\* init(): createOpencodeServer spawns the process and awaits its answer.
Boot(s) ==
  /\ pc[s] = "idle" /\ GoTo(s, "booting")
  /\ server' = [server EXCEPT ![s] = "running"]
  /\ UNCHANGED <<registry, hooks, host>>

\* createOpencodeServer rejects; the SDK has killed its process.
BootFails(s) ==
  /\ pc[s] = "booting" /\ GoTo(s, "over")
  /\ Close({s})
  /\ UNCHANGED <<registry, hooks, host>>

\* The server is there: a client, and the readiness probe.
Booted(s) ==
  /\ pc[s] = "booting" /\ GoTo(s, "probing")
  /\ UNCHANGED <<server, registry, hooks, host>>

\* _stopServer: close() and, in the microtask after it, deregister.
StopServer(s) == Close({s}) /\ registry' = registry \ {s}

\* The client cannot be made, or the probe times out.
NotReady(s) ==
  /\ pc[s] \in {"booting", "probing"} /\ GoTo(s, "over")
  /\ StopServer(s)
  /\ UNCHANGED <<hooks, host>>

Register(s) == hooks' = TRUE /\ registry' = registry \cup {s}

\* The probe succeeds: only now is the server registered.
Ready(s) ==
  /\ pc[s] = "probing" /\ GoTo(s, "open")
  /\ Register(s)
  /\ UNCHANGED <<server, host>>

\* Mutant: the entry is dropped before the server is closed.
DeregisterEarly(s) == registry \ {s}

RegisteredWhileDeleting(s) == registry

\* shutdown(): the remote session is deleted first, which may take any time.
Shutdown(s) ==
  /\ pc[s] = "open" /\ GoTo(s, "deleting")
  /\ registry' = RegisteredWhileDeleting(s)
  /\ UNCHANGED <<server, hooks, host>>

Deleted(s) ==
  /\ pc[s] = "deleting" /\ GoTo(s, "over")
  /\ StopServer(s)
  /\ UNCHANGED <<hooks, host>>

\* SIGINT, SIGTERM, an uncaught exception, or the ordinary exit: the hooks,
\* if they are installed, close what is registered.
HostEnds ==
  /\ host = "up" /\ host' = "gone"
  /\ IF hooks THEN Close(registry) /\ registry' = {}
              ELSE UNCHANGED <<server, registry>>
  /\ UNCHANGED <<pc, hooks>>

Over == host = "gone" /\ UNCHANGED vars

Next ==
  \/ \E s \in Sessions :
       \/ Boot(s) \/ BootFails(s) \/ Booted(s) \/ NotReady(s) \/ Ready(s)
       \/ Shutdown(s) \/ Deleted(s)
  \/ HostEnds \/ Over

Spec == Init /\ [][Next]_vars

-----------------------------------------------------------------------------
(* Properties *)

TypeOK ==
  /\ pc \in [Sessions -> {"idle", "booting", "probing", "open", "deleting",
                          "over"}]
  /\ server \in [Sessions -> {"none", "running", "closed"}]
  /\ registry \subseteq Sessions
  /\ hooks \in BOOLEAN
  /\ host \in {"up", "gone"}

\* Whatever ends the harness, a server that outlives it belongs to a session
\* whose init() had not resolved (provider.js:72-104, 226-252).
OnlyUnreadyOrphans ==
  host = "gone" =>
    \A s \in Sessions : server[s] = "running" => pc[s] \in {"booting", "probing"}

\* The registry holds exactly the servers of open sessions, so that a drain
\* closes nothing twice and forgets nothing (provider.js:155-178, 249-252).
RegistryExact ==
  host = "up" => registry = {s \in Sessions : pc[s] \in {"open", "deleting"}}

(* The inductive invariant behind the two safety properties. *)

\* Which server a session has, by where it is; and a registry with entries
\* comes with hooks to drain it.
ServerOK ==
  /\ \A s \in Sessions : /\ pc[s] = "idle" => server[s] = "none"
                         /\ pc[s] = "over" => server[s] # "running"
  /\ registry # {} => hooks

IInv == TypeOK /\ ServerOK /\ RegistryExact /\ OnlyUnreadyOrphans
=============================================================================
