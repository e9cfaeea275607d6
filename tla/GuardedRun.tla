----------------------------- MODULE GuardedRun -----------------------------
(***************************************************************************)
(* The cleanup guard around promptfoo (run-promptfoo-with-guard.js): one   *)
(* promptfoo process for each -c, a snapshot of git's dirty files under    *)
(* tests/evals before and after it, and the restoration of what the run    *)
(* dirtied.                                                                *)
(*                                                                         *)
(* A file is a path under tests/evals with a content in HEAD, in the index *)
(* and in the work tree, Absent where it is not there.  Only promptfoo and *)
(* what it started write files while the guard waits in spawnSync.         *)
(***************************************************************************)
EXTENDS Naturals

CONSTANTS
  Paths, Contents, Absent,
  Allowed,      \* paths under an artifact root
  Ignored,      \* paths git ignores while they are untracked
  Invocations,  \* the -c arguments
  RunIdSet      \* AD_EVALS_RUN_ID is set

ASSUME PathTypes   == Allowed \subseteq Paths /\ Ignored \subseteq Paths
ASSUME AbsentNoContent == Absent \notin Contents
ASSUME InvocationsType == Invocations \in Nat /\ RunIdSet \in BOOLEAN

File     == Contents \cup {Absent}
Statuses == {0, 1, 100}   \* 100: an assertion of the eval failed

VARIABLES
  head, index, work,  \* each path's content
  pc,       \* "next", "spawn", "running", "ended", "done"
  ran,      \* invocations that have ended
  status,   \* exit status of the last one
  before,   \* the snapshot before the invocation
  final,    \* finalStatus, the exit code when pc = "done"
  outcome,  \* how main() ended: "none", "completed", "violation", "restoreFailed",
            \* "leftover", "threw"
  start,    \* history: the work tree when main() started
  failed    \* history: some invocation failed

repo == <<head, index>>
vars == <<head, index, work, pc, ran, status, before, final, outcome, start,
          failed>>

-----------------------------------------------------------------------------
(* What git reports: collectGitSnapshot *)

\* git diff --name-only HEAD: a work tree against HEAD, for the paths of HEAD
\* or of the index; a path out of the index counts as deleted.
Tracked(tree) ==
  {p \in Paths : IF index[p] = Absent THEN head[p] # Absent
                                      ELSE tree[p] # head[p]}

\* git ls-files --others --exclude-standard
Untracked(tree) == {p \in Paths \ Ignored : index[p] = Absent /\ tree[p] # Absent}

Dirty(tree) == Tracked(tree) \cup Untracked(tree)

\* The hash of a file is as good as its content; Absent is 'missing'.
Snapshot(tree) ==
  [tracked |-> Tracked(tree), untracked |-> Untracked(tree), hash |-> tree]

Preexisting == before.tracked \cup before.untracked

\* Of one set: the paths that are new in it, and those in it before with
\* another content.  Nobody looks for paths that left it.
NewOrChanged(b, a, bhash, ahash) ==
  {p \in a : p \in b => bhash[p] # ahash[p]}

\* Mutant: a path that was dirty before is never a violation.
NewOnly(b, a) ==
  ((a.tracked \ b.tracked) \cup (a.untracked \ b.untracked)) \ Allowed

\* detectCleanupViolations
Violations(b, a) ==
  (NewOrChanged(b.tracked, a.tracked, b.hash, a.hash)
     \cup NewOrChanged(b.untracked, a.untracked, b.hash, a.hash)) \ Allowed

-----------------------------------------------------------------------------

Init ==
  /\ head \in [Paths -> File] /\ index \in [Paths -> File]
  /\ work \in [Paths -> File] /\ start = work
  /\ pc = "next" /\ ran = 0 /\ status = 0 /\ final = 0
  /\ outcome = "none" /\ failed = FALSE
  /\ before = Snapshot(work)

End(how, code) == pc' = "done" /\ outcome' = how /\ final' = code

MoreToRun == ran < Invocations

\* The next -c: the snapshot before it.
BeforeSnapshot ==
  /\ pc = "next" /\ MoreToRun
  /\ before' = Snapshot(work)
  /\ pc' = "spawn"
  /\ UNCHANGED <<repo, work, ran, status, final, outcome, start,
                 failed>>

\* The config does not resolve, or node cannot be spawned.
InvocationThrows ==
  /\ pc = "spawn"
  /\ End("threw", 1)
  /\ UNCHANGED <<repo, work, ran, status, before, start, failed>>

Spawn ==
  /\ pc = "spawn" /\ pc' = "running"
  /\ UNCHANGED <<repo, work, ran, status, before, final, outcome,
                 start, failed>>

\* An agent under evaluation, or promptfoo, writes or deletes a file.
AgentWrites(p, c) ==
  /\ pc = "running" /\ work[p] # c
  /\ work' = [work EXCEPT ![p] = c]
  /\ UNCHANGED <<repo, pc, ran, status, before, final, outcome, start,
                 failed>>

Failed(code) == code \notin {0, 100}

\* promptfoo exits; a signal counts as 1.
PromptfooEnds(code) ==
  /\ pc = "running" /\ pc' = "ended"
  /\ ran' = ran + 1 /\ status' = code /\ failed' = (failed \/ Failed(code))
  /\ UNCHANGED <<repo, work, before, final, outcome, start>>

\* Mutant: everything the run dirtied is put back.
RestoreAll(vs) == vs

\* Only what was clean before is put back.
ToRestore(vs) == vs \ Preexisting

\* Mutant: only what is new to git is removed.
RemovedOnly(ps) ==
  [p \in Paths |-> IF p \in ps /\ index[p] = Absent THEN Absent ELSE work[p]]

\* restoreCleanupViolations: a path out of the index is removed, the others
\* are checked out from the index.
Restored(ps) == [p \in Paths |-> IF p \in ps THEN index[p] ELSE work[p]]

\* Violations: put back and stop, whatever is left to run.
Violated ==
  /\ pc = "ended" /\ Violations(before, Snapshot(work)) # {}
  /\ work' = Restored(ToRestore(Violations(before, Snapshot(work))))
  /\ End("violation", 1)
  /\ UNCHANGED <<repo, ran, status, before, start, failed>>

\* git checkout fails when the untracked ones are already removed.
RestoreFails ==
  LET ps == ToRestore(Violations(before, Snapshot(work)))
      kept == {p \in ps : index[p] # Absent} IN
  /\ pc = "ended" /\ kept # {}
  /\ work' = Restored(ps \ kept)
  /\ End("restoreFailed", 1)
  /\ UNCHANGED <<repo, ran, status, before, start, failed>>

\* finalStatus || status, after a run that failed.
FinalStatus == IF Failed(status) /\ final = 0 THEN status ELSE final

\* No violation.  A failed run is remembered, and the next one still starts.
Clean ==
  /\ pc = "ended" /\ Violations(before, Snapshot(work)) = {}
  /\ final' = FinalStatus
  /\ pc' = "next"
  /\ UNCHANGED <<repo, work, ran, status, before, outcome, start, failed>>

\* assertWorkspaceClean after a run that did not fail: something is left in
\* the run's workspaces.
WorkspaceLeft ==
  /\ pc = "ended" /\ Violations(before, Snapshot(work)) = {}
  /\ ~Failed(status) /\ RunIdSet
  /\ End("leftover", 1)
  /\ UNCHANGED <<repo, work, ran, status, before, start, failed>>

Complete ==
  /\ pc = "next" /\ ~MoreToRun
  /\ End("completed", final)
  /\ UNCHANGED <<repo, work, ran, status, before, start, failed>>

Done == pc = "done" /\ UNCHANGED vars

Next ==
  \/ BeforeSnapshot \/ InvocationThrows \/ Spawn
  \/ \E p \in Paths, c \in File : AgentWrites(p, c)
  \/ \E code \in Statuses : PromptfooEnds(code)
  \/ Violated \/ RestoreFails \/ Clean \/ WorkspaceLeft \/ Complete \/ Done

Spec == Init /\ [][Next]_vars

-----------------------------------------------------------------------------
(* Properties *)

Trees == [Paths -> File]

TypeOK ==
  /\ head \in Trees /\ index \in Trees /\ work \in Trees /\ start \in Trees
  /\ pc \in {"next", "spawn", "running", "ended", "done"}
  /\ ran \in 0..Invocations /\ status \in Statuses /\ final \in Statuses
  /\ before \in [tracked : SUBSET Paths, untracked : SUBSET Paths,
                 hash : Trees]
  /\ outcome \in {"none", "completed", "violation", "restoreFailed",
                  "leftover", "threw"}
  /\ failed \in BOOLEAN

\* The guard itself never touches a file that was dirty before the run it
\* guards: what the user had not committed is not its to restore
\* (run-promptfoo-with-guard.js:347-348).
UserWorkSafe ==
  [][\A p \in Paths : work'[p] # work[p] =>
       pc = "running" \/ p \notin Preexisting]_vars

\* Git sees nothing of the user's in a path: the index agrees with HEAD, and
\* an untracked file is not an ignored one.
Plain(p) == index[p] = head[p] /\ ~(index[p] = Absent /\ p \in Ignored)

\* After a violation, a path that was clean before the run is as HEAD has it
\* (run-promptfoo-with-guard.js:188-217; docs/design.md:186).
CleanPathsRestored ==
  outcome = "violation" =>
    \A p \in Paths \ (Allowed \cup Preexisting) :
      Plain(p) => work[p] = head[p]

\* A tree holds in each watched path what it held at the start, or is clean.
OnlyReverts(tree) ==
  \A p \in Paths \ Allowed :
    tree[p] = start[p] \/ p \notin Dirty(tree)

\* When no violation was reported, over all the invocations, a path outside
\* the artifact roots holds what it held at the start, or is clean: new and
\* changed dirt is always caught (run-promptfoo-with-guard.js:150-169).
OnlyRevertsPass == outcome = "completed" => OnlyReverts(work)

\* A failed invocation is not forgotten because a later one succeeds
\* (run-promptfoo-with-guard.js:353-356).
FailureReported == pc = "done" /\ failed => final # 0

(* The inductive invariant behind the safety properties. *)

\* main() has ended exactly when it has an outcome.
EndedOK == pc = "done" <=> outcome # "none"

\* An invocation has begun and not ended.
RanOK == pc \in {"spawn", "running"} => ran < Invocations

\* The snapshot is one of the work tree it hashed, since nothing the guard
\* does changes HEAD or the index.
BeforeOK ==
  /\ before = Snapshot(before.hash)
  /\ pc = "spawn" => before.hash = work

\* So do the tree between two invocations and the one before an invocation.
RevertsOK ==
  /\ pc = "next" \/ outcome = "completed" => OnlyReverts(work)
  /\ pc \in {"spawn", "running", "ended"} => OnlyReverts(before.hash)

\* A failure is in finalStatus, or is the status still to be looked at.
FailedOK ==
  failed => \/ final # 0
            \/ pc = "ended" /\ Failed(status)

IInv ==
  /\ TypeOK /\ EndedOK /\ RanOK /\ BeforeOK /\ RevertsOK
  /\ FailedOK /\ CleanPathsRestored
=============================================================================
