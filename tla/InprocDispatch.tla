--------------------------- MODULE InprocDispatch ---------------------------
(***************************************************************************)
(* The cases of the in-process SDK kinds (opencode_sdk, codex_sdk) running *)
(* side by side in the harness process: _dispatchInproc of                 *)
(* _node_bridge.js, its per-kind provider cache, and the per-case          *)
(* workspace directories it creates and removes.                           *)
(*                                                                         *)
(* JavaScript runs each stretch between two awaits without interleaving:   *)
(* an action is the settlement of the promise a case awaits, with all the  *)
(* code up to its next await.  A provider method may resolve or reject; no *)
(* timer bounds it.                                                        *)
(*                                                                         *)
(* A workspace is named by run id and case id (_workspacePath).  Nothing   *)
(* in the harness sets AD_EVALS_RUN_ID, and the resolver makes one case id *)
(* per provider entry and ad-evals process, none at all for [multiturn]:   *)
(* all rows of an entry share a name, and so do its packages one after the *)
(* other.  KeyOf says which cases share one, Stale what was there before.  *)
(***************************************************************************)
EXTENDS Naturals, FiniteSets

CONSTANTS
  Cases,     \* concurrent callApi invocations
  Keys,      \* workspace names
  KeyOf,     \* [Cases -> Keys]
  Kinds,     \* provider kinds
  Ensuring,  \* the kinds whose init() makes the workspace directory too
  KindOf,    \* [Cases -> Kinds]
  Supplied,  \* cases whose config brings its own workspace_root
  Turns,     \* length of the conversation
  Keep,      \* AD_EVALS_KEEP_WORKSPACE
  Stale,     \* workspaces an earlier run left behind
  Earlier    \* stands for that run among the writers of a workspace

ASSUME KeyOfType    == KeyOf \in [Cases -> Keys]
ASSUME KindOfType   == KindOf \in [Cases -> Kinds] /\ Ensuring \subseteq Kinds
ASSUME SuppliedType == Supplied \subseteq Cases
ASSUME TurnsType    == Turns \in Nat \ {0}
ASSUME KeepType     == Keep \in BOOLEAN
ASSUME StaleType    == Stale \subseteq Keys /\ Earlier \notin Cases

VARIABLES
  pc,        \* what each case awaits: "idle", "factory", "init", "turn",
             \* "finalize", "shutdown"; or how it returned: "refused"
             \* before the try block, or "returned" through finally
  cache,     \* the kinds in _inprocProviderCache
  created,   \* cases that called the provider factory
  sess,      \* the case's session: "none", "open", "closed", "stuck"
  begun,     \* turns the provider began
  good,      \* turns the provider completed without an error
  completed, \* turnOutputs.length
  result,    \* the value being returned: "none", "ok", "error"
  files      \* the workspace directories that exist: who wrote into each

vars == <<pc, cache, created, sess, begun, good, completed, result, files>>

Dirs == DOMAIN files

Init ==
  /\ pc = [c \in Cases |-> "idle"]
  /\ cache = {} /\ created = {}
  /\ sess = [c \in Cases |-> "none"]
  /\ begun = [c \in Cases |-> 0] /\ good = begun /\ completed = begun
  /\ result = [c \in Cases |-> "none"]
  /\ files = [k \in Stale |-> {Earlier}]

-----------------------------------------------------------------------------
(* Workspaces *)

\* _ensureWorkspace: mkdirSync(recursive), which keeps what is there.
EnsureWorkspace(c) ==
  files' = [k \in Dirs \cup (IF c \in Supplied THEN {} ELSE {KeyOf[c]}) |->
              IF k \in Dirs THEN files[k] ELSE {}]

\* Mutant: the run's directory is removed with all the cases in it.
CleanRun(c) == files' = IF Keep THEN files ELSE [k \in {} |-> {}]

\* _cleanWorkspace: rmSync(recursive, force), whoever supplied the path used.
CleanWorkspace(c) ==
  files' = IF Keep THEN files ELSE [k \in Dirs \ {KeyOf[c]} |-> files[k]]

\* The provider of a running case works in its directory; if it is not there
\* any more, git init and file edits fail in it and the turn goes on.
WriteFile(c) ==
  /\ pc[c] = "turn" /\ c \notin Supplied /\ KeyOf[c] \in Dirs
  /\ files' = [files EXCEPT ![KeyOf[c]] = @ \cup {c}]
  /\ UNCHANGED <<pc, cache, created, sess, begun, good, completed, result>>

-----------------------------------------------------------------------------
(* The lifecycle *)

\* return errorReturn(...) before the try block: no finally block runs.
FailEarly(c) ==
  /\ pc' = [pc EXCEPT ![c] = "refused"]
  /\ result' = [result EXCEPT ![c] = "error"]

\* The call reaches _dispatchInproc.  No usable turn: refused at once.
Refuse(c) ==
  /\ pc[c] = "idle"
  /\ FailEarly(c)
  /\ UNCHANGED <<cache, created, sess, begun, good, completed, files>>

Cached(c) == KindOf[c] \in cache

\* A workspace, and then the cached provider's init, or the module's factory;
\* require() or the factory lookup may fail.
Start(c) ==
  /\ pc[c] = "idle"
  /\ EnsureWorkspace(c)
  /\ \/ /\ Cached(c)
        /\ pc' = [pc EXCEPT ![c] = "init"]
        /\ UNCHANGED <<created, result>>
     \/ /\ ~Cached(c)
        /\ pc' = [pc EXCEPT ![c] = "factory"]
        /\ created' = created \cup {c}
        /\ UNCHANGED result
     \/ /\ ~Cached(c)
        /\ FailEarly(c)
        /\ UNCHANGED created
  /\ UNCHANGED <<cache, sess, begun, good, completed>>

FactoryDone(c) ==
  /\ pc[c] = "factory"
  /\ \/ /\ cache' = cache \cup {KindOf[c]}
        /\ pc' = [pc EXCEPT ![c] = "init"]
        /\ UNCHANGED result
     \/ FailEarly(c) /\ UNCHANGED cache
  /\ UNCHANGED <<created, sess, begun, good, completed, files>>

\* codex_sdk's init() makes its workspace_root, after an await of its own.
InitEnsures(c) ==
  /\ pc[c] = "init" /\ KindOf[c] \in Ensuring
  /\ EnsureWorkspace(c)
  /\ UNCHANGED <<pc, cache, created, sess, begun, good, completed, result>>

\* Mutant: a turn that failed returns without passing by shutdown.
FinallySkipsShutdown(c, res) ==
  /\ result' = [result EXCEPT ![c] = res]
  /\ IF sess'[c] = "open" /\ res = "ok"
       THEN pc' = [pc EXCEPT ![c] = "shutdown"] /\ UNCHANGED files
       ELSE pc' = [pc EXCEPT ![c] = "returned"] /\ CleanWorkspace(c)

\* Mutant: without a session there is nothing to clean.
FinallyCleansSessionsOnly(c, res) ==
  /\ result' = [result EXCEPT ![c] = res]
  /\ UNCHANGED files
  /\ IF sess'[c] = "open" THEN pc' = [pc EXCEPT ![c] = "shutdown"]
                          ELSE pc' = [pc EXCEPT ![c] = "returned"]

\* The try block is left with the value res: shutdown if there is a session,
\* otherwise clean up and return.
Finally(c, res) ==
  /\ result' = [result EXCEPT ![c] = res]
  /\ IF sess'[c] = "open"
       THEN pc' = [pc EXCEPT ![c] = "shutdown"] /\ UNCHANGED files
       ELSE pc' = [pc EXCEPT ![c] = "returned"] /\ CleanWorkspace(c)

\* provider.turn(session, turns[i]) is called: the turn begins.
BeginTurn(c) ==
  /\ pc' = [pc EXCEPT ![c] = "turn"]
  /\ begun' = [begun EXCEPT ![c] = @ + 1]

InitDone(c) ==
  /\ pc[c] = "init"
  /\ \/ /\ sess' = [sess EXCEPT ![c] = "open"]
        /\ BeginTurn(c)
        /\ UNCHANGED <<result, files>>
     \/ /\ UNCHANGED <<sess, begun>>
        /\ Finally(c, "error")
  /\ UNCHANGED <<cache, created, good, completed>>

LastTurn(c) == completed[c] + 1 = Turns

\* The turn is counted, and the next one begins.
CountTurn(c) ==
  /\ completed' = [completed EXCEPT ![c] = @ + 1]
  /\ IF LastTurn(c)
       THEN pc' = [pc EXCEPT ![c] = "finalize"] /\ UNCHANGED begun
       ELSE BeginTurn(c)
  /\ UNCHANGED <<sess, result, files>>

\* Mutant: a populated res.error is not looked at.
TurnFailsUnnoticed(c) == CountTurn(c) /\ UNCHANGED good

\* The turn's promise rejects, or resolves with res.error populated.
TurnFails(c) ==
  /\ UNCHANGED <<sess, begun, good, completed>>
  /\ Finally(c, "error")

TurnDone(c) ==
  /\ pc[c] = "turn"
  /\ \/ good' = [good EXCEPT ![c] = @ + 1] /\ CountTurn(c)
     \/ TurnFails(c)
  /\ UNCHANGED <<cache, created>>

FinalizeDone(c) ==
  /\ pc[c] = "finalize"
  /\ UNCHANGED <<cache, created, sess, begun, good, completed>>
  /\ \E res \in {"ok", "error"} : Finally(c, res)

\* A rejected shutdown is swallowed; the workspace goes in any case.
ShutdownDone(c) ==
  /\ pc[c] = "shutdown"
  /\ \E s \in {"closed", "stuck"} : sess' = [sess EXCEPT ![c] = s]
  /\ pc' = [pc EXCEPT ![c] = "returned"]
  /\ CleanWorkspace(c)
  /\ UNCHANGED <<cache, created, begun, good, completed, result>>

Returned(c) == pc[c] \in {"refused", "returned"}

Over == (\A c \in Cases : Returned(c)) /\ UNCHANGED vars

CaseStep(c) ==
  \/ Refuse(c) \/ Start(c) \/ FactoryDone(c) \/ InitEnsures(c) \/ InitDone(c)
  \/ TurnDone(c) \/ FinalizeDone(c) \/ ShutdownDone(c) \/ WriteFile(c)

Next == (\E c \in Cases : CaseStep(c)) \/ Over

Spec == Init /\ [][Next]_vars

-----------------------------------------------------------------------------
(* Properties *)

TypeOK ==
  /\ pc \in [Cases -> {"idle", "factory", "init", "turn", "finalize",
                       "shutdown", "refused", "returned"}]
  /\ cache \subseteq Kinds
  /\ created \subseteq Cases
  /\ sess \in [Cases -> {"none", "open", "closed", "stuck"}]
  /\ begun \in [Cases -> 0..Turns]
  /\ good \in [Cases -> 0..Turns]
  /\ completed \in [Cases -> 0..Turns]
  /\ result \in [Cases -> {"none", "ok", "error"}]
  /\ Dirs \subseteq Keys
  /\ \A k \in Dirs : files[k] \subseteq Cases \cup {Earlier}

\* The case has a workspace the provider may be using.
Running(c) == pc[c] \in {"factory", "init", "turn", "finalize", "shutdown"}

\* What plans/.../spec.md:1477 says, "Each case gets a fresh workspace": while
\* a case runs its directory is there, with nothing in it but its own.  Not
\* true of cases that share a name (_node_bridge.js:812-815, 916).
WorkspacePrivate ==
  \A c \in Cases \ Supplied :
    Running(c) => KeyOf[c] \in Dirs /\ files[KeyOf[c]] \subseteq {c}

\* The provider may have written into the case's directory.
Working(c) == pc[c] \in {"turn", "finalize", "shutdown"}

\* The case that returned through finally, which removes the directory.
Cleared(k) == \E c \in Cases : KeyOf[c] = k /\ pc[c] = "returned"

\* What is true instead (_node_bridge.js:45-64, 908-917): a running case misses
\* its directory only if a case of the same name has returned; and what it
\* finds in it is of cases of the name that are still running, or of an
\* earlier run as long as none has returned: never of a case that is over.
DamageConfined ==
  ~Keep =>
    /\ \A c \in Cases \ Supplied :
         Running(c) => KeyOf[c] \in Dirs \/ Cleared(KeyOf[c])
    /\ \A k \in Dirs : \A w \in files[k] :
         IF w = Earlier THEN ~Cleared(k) ELSE KeyOf[w] = k /\ Working(w)

\* _node_bridge.js:908-917: a directory that is left when every call returned
\* belongs to a case whose provider could not be loaded, or was there before.
LeaksExplained ==
  (~Keep /\ \A c \in Cases : Returned(c)) =>
    Dirs \ Stale \subseteq {KeyOf[c] : c \in {d \in Cases : pc[d] = "refused"}}

\* Each case keeps the contract the subprocess path keeps.
Contract(c) == INSTANCE CaseContract
  WITH begun <- begun[c], good <- good[c], reported <- completed[c],
       outcome <- result[c]
ImplementsCaseContract ==
  /\ \A c \in Cases : Contract(c)!Init
  /\ [][\A c \in Cases : [Contract(c)!Next]_(Contract(c)!vars)]_vars
=============================================================================
