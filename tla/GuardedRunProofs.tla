-------------------------- MODULE GuardedRunProofs --------------------------
(***************************************************************************)
(* For any files in any git state, any number of invocations and anything  *)
(* the agents write: what the cleanup guard restores, leaves alone, lets   *)
(* pass and reports.                                                       *)
(***************************************************************************)
EXTENDS GuardedRun, TLAPS

USE PathTypes, AbsentNoContent, InvocationsType

-----------------------------------------------------------------------------
(* What a snapshot and a comparison of two snapshots tell *)

\* A snapshot is a function of a work tree.
LEMMA SnapshotType ==
  ASSUME NEW tree \in Trees
  PROVE  Snapshot(tree) \in [tracked : SUBSET Paths, untracked : SUBSET Paths,
                             hash : Trees]
  BY DEF Snapshot, Tracked, Untracked

\* When nothing is reported, a path that is dirty now was dirty before, with
\* the same content.
LEMMA NoViolation ==
  ASSUME NEW u \in Trees, NEW v \in Trees,
         Violations(Snapshot(u), Snapshot(v)) = {},
         NEW p \in Paths \ Allowed, p \in Dirty(v)
  PROVE  p \in Dirty(u) /\ v[p] = u[p]
<1>1. CASE p \in Tracked(v)
  BY <1>1 DEF Violations, NewOrChanged, Snapshot, Dirty
<1>2. CASE p \in Untracked(v)
  BY <1>2 DEF Violations, NewOrChanged, Snapshot, Dirty
<1>3. QED
  BY <1>1, <1>2 DEF Dirty

\* A path that was clean before and is not reported is clean now.
LEMMA CleanUnreported ==
  ASSUME NEW u \in Trees, NEW v \in Trees,
         NEW p \in Paths \ Allowed,
         p \notin Dirty(u), p \notin Violations(Snapshot(u), Snapshot(v))
  PROVE  p \notin Dirty(v)
  BY DEF Violations, NewOrChanged, Snapshot, Dirty

\* A clean path that git would show holds what HEAD holds.
LEMMA CleanIsHead ==
  ASSUME NEW v \in Trees, NEW p \in Paths, Plain(p), p \notin Dirty(v)
  PROVE  v[p] = head[p]
  BY DEF Plain, Dirty, Tracked, Untracked

\* What restoreCleanupViolations leaves is a tree.
LEMMA RestoredType ==
  ASSUME NEW ps, index \in Trees, work \in Trees
  PROVE  Restored(ps) \in Trees
  BY DEF Restored, Trees

-----------------------------------------------------------------------------
(* The inductive invariant *)

LEMMA InitInv == Init => IInv
<1> SUFFICES ASSUME Init PROVE IInv
  OBVIOUS
<1>1. TypeOK
  <2>1. work \in Trees
    BY DEF Init, Trees
  <2>2. Snapshot(work) \in [tracked : SUBSET Paths, untracked : SUBSET Paths,
                            hash : Trees]
    BY <2>1, SnapshotType
  <2>3. ran \in 0..Invocations
    BY DEF Init
  <2>4. QED
    BY <2>1, <2>2, <2>3 DEF Init, TypeOK, Trees, Statuses
<1>2. BeforeOK
  BY DEF Init, BeforeOK, Snapshot
<1>3. RevertsOK
  BY DEF Init, RevertsOK, OnlyReverts
<1>4. QED
  BY <1>1, <1>2, <1>3 DEF Init, IInv, EndedOK, FailedOK, CleanPathsRestored, RanOK

\* Every step keeps the types.
LEMMA StepType == TypeOK /\ RanOK /\ [Next]_vars => TypeOK'
<1> SUFFICES ASSUME TypeOK, RanOK, [Next]_vars PROVE TypeOK'
  OBVIOUS
<1> USE DEF TypeOK, repo, End, Statuses
<1>1. CASE BeforeSnapshot
  BY <1>1, SnapshotType DEF BeforeSnapshot
<1>2. CASE InvocationThrows
  BY <1>2 DEF InvocationThrows
<1>3. CASE Spawn
  BY <1>3 DEF Spawn
<1>4. ASSUME NEW p \in Paths, NEW c \in File, AgentWrites(p, c) PROVE TypeOK'
  BY <1>4 DEF AgentWrites, Trees
<1>5. ASSUME NEW code \in Statuses, PromptfooEnds(code) PROVE TypeOK'
  BY <1>5 DEF PromptfooEnds, RanOK
<1>6. CASE Violated
  BY <1>6, RestoredType DEF Violated
<1>7. CASE RestoreFails
  BY <1>7, RestoredType DEF RestoreFails
<1>8. CASE Clean
  BY <1>8 DEF Clean, FinalStatus
<1>9. CASE WorkspaceLeft
  BY <1>9 DEF WorkspaceLeft
<1>10. CASE Complete
  BY <1>10 DEF Complete
<1>11. CASE UNCHANGED vars
  BY <1>11 DEF vars
<1>12. QED
  BY <1>1, <1>2, <1>3, <1>4, <1>5, <1>6, <1>7, <1>8, <1>9, <1>10, <1>11
     DEF Next, Done

\* Nothing the guard does changes HEAD, the index or the start.
LEMMA RepoFixed ==
  ASSUME [Next]_vars
  PROVE  head' = head /\ index' = index /\ start' = start
  BY DEF Next, vars, repo, BeforeSnapshot, InvocationThrows, Spawn, AgentWrites,
         PromptfooEnds, Violated, RestoreFails, Clean, WorkspaceLeft, Complete,
         Done

\* The steps between two snapshots leave the first one alone.
LEMMA BeforeFixed ==
  ASSUME [Next]_vars, ~BeforeSnapshot
  PROVE  before' = before
  BY DEF Next, vars, InvocationThrows, Spawn, AgentWrites,
         PromptfooEnds, Violated, RestoreFails, Clean, WorkspaceLeft, Complete,
         Done

\* Two trees that agree, before and after a step, look the same to git.
LEMMA StepView ==
  ASSUME [Next]_vars, before' = before
  PROVE  /\ Snapshot(before.hash)' = Snapshot(before.hash)
         /\ OnlyReverts(before.hash)' = OnlyReverts(before.hash)
         /\ work' = work => OnlyReverts(work)' = OnlyReverts(work)
  BY RepoFixed DEF Snapshot, OnlyReverts, Dirty, Tracked, Untracked

\* The control state: what main() is doing and how it ended.
LEMMA StepControl ==
  TypeOK /\ EndedOK /\ RanOK /\ [Next]_vars => EndedOK' /\ RanOK'
<1> SUFFICES ASSUME TypeOK, EndedOK, RanOK, [Next]_vars PROVE EndedOK' /\ RanOK'
  OBVIOUS
<1>1. EndedOK'
  BY DEF EndedOK, Next, vars, End, BeforeSnapshot, InvocationThrows, Spawn,
         AgentWrites, PromptfooEnds, Violated, RestoreFails, Clean,
         WorkspaceLeft, Complete, Done
<1>2. RanOK'
  BY DEF RanOK, Next, vars, End, BeforeSnapshot, InvocationThrows, Spawn,
         AgentWrites, PromptfooEnds, Violated, RestoreFails, Clean,
         WorkspaceLeft, Complete, Done, MoreToRun
<1>3. QED
  BY <1>1, <1>2

LEMMA StepBefore == TypeOK /\ BeforeOK /\ [Next]_vars => BeforeOK'
<1> SUFFICES ASSUME TypeOK, BeforeOK, [Next]_vars PROVE BeforeOK'
  OBVIOUS
<1>1. CASE BeforeSnapshot
  BY <1>1, RepoFixed
     DEF BeforeSnapshot, BeforeOK, Snapshot, Tracked, Untracked
<1>2. CASE ~BeforeSnapshot
  <2>1. before' = before
    BY <1>2, BeforeFixed
  <2>2. before' = Snapshot(before.hash)'
    BY <2>1, StepView DEF BeforeOK
  <2>3. pc' = "spawn" => before'.hash = work'
    BY <1>2, <2>1 DEF BeforeOK, Next, vars, End, InvocationThrows, Spawn,
       AgentWrites, PromptfooEnds, Violated, RestoreFails, Clean,
       WorkspaceLeft, Complete, Done
  <2>4. QED
    BY <2>2, <2>3 DEF BeforeOK
<1>3. QED
  BY <1>1, <1>2

LEMMA StepFailed == TypeOK /\ EndedOK /\ FailedOK /\ [Next]_vars => FailedOK'
<1> SUFFICES ASSUME TypeOK, EndedOK, FailedOK, [Next]_vars PROVE FailedOK'
  OBVIOUS
<1> USE DEF TypeOK, FailedOK, Failed, End
<1>1. ASSUME NEW code \in Statuses, PromptfooEnds(code) PROVE FailedOK'
  BY <1>1 DEF PromptfooEnds
<1>2. CASE Clean
  BY <1>2 DEF Clean, FinalStatus
<1>3. CASE Violated \/ RestoreFails \/ WorkspaceLeft \/ InvocationThrows
  <2>1. final' = 1
    BY <1>3 DEF Violated, RestoreFails, WorkspaceLeft, InvocationThrows
  <2>2. QED
    BY <2>1
<1>4. CASE Complete \/ BeforeSnapshot \/ Spawn
  BY <1>4 DEF Complete, BeforeSnapshot, Spawn
<1>5. ASSUME NEW p \in Paths, NEW c \in File, AgentWrites(p, c) PROVE FailedOK'
  BY <1>5 DEF AgentWrites
<1>6. CASE UNCHANGED vars
  BY <1>6 DEF vars
<1>7. QED
  BY <1>1, <1>2, <1>3, <1>4, <1>5, <1>6 DEF Next, Done

\* What a step leaves in the work tree is still nothing but reverts.
LEMMA StepReverts ==
  TypeOK /\ EndedOK /\ BeforeOK /\ RevertsOK /\ [Next]_vars => RevertsOK'
<1> SUFFICES ASSUME TypeOK, EndedOK, BeforeOK, RevertsOK, [Next]_vars
             PROVE  RevertsOK'
  OBVIOUS
<1>1. CASE BeforeSnapshot
  <2>1. OnlyReverts(work)
    BY <1>1 DEF BeforeSnapshot, RevertsOK
  <2>2. before'.hash = work /\ pc' = "spawn" /\ outcome' = outcome
    BY <1>1 DEF BeforeSnapshot, Snapshot
  <2>3. OnlyReverts(before.hash)'
    BY <2>1, <2>2, RepoFixed DEF OnlyReverts, Dirty, Tracked, Untracked
  <2>4. outcome' # "completed"
    BY <1>1, <2>2 DEF BeforeSnapshot, EndedOK
  <2>5. QED
    BY <2>2, <2>3, <2>4 DEF RevertsOK
<1>2. CASE Clean
  <2>1. OnlyReverts(before.hash) /\ before = Snapshot(before.hash)
    BY <1>2 DEF Clean, RevertsOK, BeforeOK
  <2>2. Violations(Snapshot(before.hash), Snapshot(work)) = {}
    BY <1>2, <2>1 DEF Clean
  <2>3. work \in Trees /\ before.hash \in Trees
    BY DEF TypeOK
  <2>4. ASSUME NEW p \in Paths \ Allowed, p \in Dirty(work)
        PROVE  work[p] = start[p]
    <3>1. p \in Dirty(before.hash) /\ work[p] = before.hash[p]
      BY <2>2, <2>3, <2>4, NoViolation
    <3>2. QED
      BY <2>1, <3>1 DEF OnlyReverts
  <2>5. OnlyReverts(work)
    BY <2>4 DEF OnlyReverts
  <2>6. work' = work /\ before' = before /\ pc' = "next"
    BY <1>2 DEF Clean
  <2>7. OnlyReverts(work)'
    BY <2>5, <2>6, StepView
  <2>8. QED
    BY <2>6, <2>7 DEF RevertsOK
<1>3. CASE Complete
  <2>1. OnlyReverts(work) /\ work' = work /\ before' = before /\ pc' = "done"
    BY <1>3 DEF Complete, End, RevertsOK
  <2>2. QED
    BY <2>1, StepView DEF RevertsOK
<1>4. CASE Spawn \/ (\E p \in Paths, c \in File : AgentWrites(p, c))
             \/ (\E code \in Statuses : PromptfooEnds(code))
  <2>1. /\ before' = before /\ outcome' = outcome
        /\ pc \in {"spawn", "running"} /\ pc' \in {"running", "ended"}
    BY <1>4 DEF Spawn, AgentWrites, PromptfooEnds
  <2>2. outcome' # "completed"
    BY <2>1 DEF EndedOK
  <2>3. OnlyReverts(before.hash)'
    BY <2>1, StepView DEF RevertsOK
  <2>4. QED
    BY <2>1, <2>2, <2>3 DEF RevertsOK
<1>5. CASE InvocationThrows \/ Violated \/ RestoreFails \/ WorkspaceLeft
  BY <1>5 DEF InvocationThrows, Violated, RestoreFails, WorkspaceLeft, End,
              RevertsOK
<1>6. CASE UNCHANGED vars
  <2>1. /\ work' = work /\ before' = before /\ pc' = pc /\ outcome' = outcome
    BY <1>6 DEF vars
  <2>2. QED
    BY <2>1, StepView DEF RevertsOK
<1>7. QED
  BY <1>1, <1>2, <1>3, <1>4, <1>5, <1>6 DEF Next, Done

\* A violation puts back what was clean; nothing happens after it.
LEMMA StepRestored ==
  /\ TypeOK /\ EndedOK /\ BeforeOK /\ CleanPathsRestored /\ [Next]_vars
  => CleanPathsRestored'
<1> SUFFICES ASSUME TypeOK, EndedOK, BeforeOK, CleanPathsRestored, [Next]_vars
             PROVE  CleanPathsRestored'
  OBVIOUS
<1>1. CASE Violated
  <2> DEFINE vs == Violations(before, Snapshot(work))
  <2>1. /\ before' = before
        /\ work' = Restored(ToRestore(vs))
    BY <1>1 DEF Violated
  <2>2. work \in Trees /\ before.hash \in Trees
    BY DEF TypeOK
  <2>3. before = Snapshot(before.hash)
    BY DEF BeforeOK
  <2>4. ASSUME NEW p \in Paths \ (Allowed \cup Preexisting), Plain(p)
        PROVE  work'[p] = head[p]
    <3>1. p \notin Dirty(before.hash)
      BY <2>3, <2>4 DEF Preexisting, Dirty, Snapshot
    <3>2. CASE p \in vs
      BY <2>1, <2>4, <3>2 DEF Restored, ToRestore, Plain
    <3>3. CASE p \notin vs
      <4>1. p \notin Dirty(work)
        BY <2>2, <2>3, <2>4, <3>1, <3>3, CleanUnreported
      <4>2. work[p] = head[p]
        BY <2>2, <2>4, <4>1, CleanIsHead
      <4>3. QED
        BY <2>1, <2>4, <3>3, <4>2 DEF Restored, ToRestore
    <3>4. QED
      BY <3>2, <3>3
  <2> HIDE DEF vs
  <2>5. QED
    BY <2>1, <2>4, RepoFixed DEF CleanPathsRestored, Preexisting, Plain
<1>2. CASE UNCHANGED vars
  BY <1>2 DEF vars, CleanPathsRestored, Preexisting, Plain
<1>3. CASE ~Violated /\ ~UNCHANGED vars
  <2>1. pc # "done"
    BY <1>3 DEF Next, BeforeSnapshot, InvocationThrows, Spawn, AgentWrites,
                PromptfooEnds, RestoreFails, Clean, WorkspaceLeft, Complete, Done
  <2>2. outcome' # "violation"
    BY <1>3, <2>1 DEF EndedOK, End, Next, BeforeSnapshot, InvocationThrows,
                Spawn, AgentWrites, PromptfooEnds, RestoreFails, Clean,
                WorkspaceLeft, Complete, Done
  <2>3. QED
    BY <2>2 DEF CleanPathsRestored
<1>4. QED
  BY <1>1, <1>2, <1>3

LEMMA StepInv == IInv /\ [Next]_vars => IInv'
  BY StepType, StepControl, StepBefore, StepFailed, StepReverts, StepRestored
     DEF IInv

THEOREM Invariance == Spec => []IInv
  BY InitInv, StepInv, PTL DEF Spec

-----------------------------------------------------------------------------
(* The theorems *)

\* Types, for any paths, contents and number of invocations of
\* run-promptfoo-with-guard.js.
THEOREM TypeCorrect == Spec => []TypeOK
<1>1. IInv => TypeOK
  BY DEF IInv
<1>2. QED
  BY Invariance, <1>1, PTL

\* A path that was clean is as HEAD has it when a violation was reported
\* (run-promptfoo-with-guard.js:188-217, 346-351).
THEOREM RestoresCleanPaths == Spec => []CleanPathsRestored
<1>1. IInv => CleanPathsRestored
  BY DEF IInv
<1>2. QED
  BY Invariance, <1>1, PTL

\* A run that completes without a violation has left no new dirt, only reverts,
\* over any number of invocations (run-promptfoo-with-guard.js:150-169).
THEOREM LetsOnlyRevertsPass == Spec => []OnlyRevertsPass
<1>1. IInv => OnlyRevertsPass
  BY DEF IInv, RevertsOK, OnlyRevertsPass
<1>2. QED
  BY Invariance, <1>1, PTL

\* finalStatus keeps the first failure (run-promptfoo-with-guard.js:353-356).
THEOREM RemembersFailure == Spec => []FailureReported
<1>1. IInv => FailureReported
  BY DEF IInv, FailedOK, FailureReported
<1>2. QED
  BY Invariance, <1>1, PTL

\* The guard never writes a path that was dirty before the run
\* (run-promptfoo-with-guard.js:347-348).
THEOREM LeavesUserWork == Spec => UserWorkSafe
<1> DEFINE Kept(p) == work'[p] # work[p] => pc = "running" \/ p \notin Preexisting
<1>1. IInv /\ [Next]_vars => [\A p \in Paths : Kept(p)]_vars
  <2> SUFFICES ASSUME IInv, [Next]_vars, NEW p \in Paths,
                      work'[p] # work[p], pc # "running"
               PROVE  p \notin Preexisting
    BY DEF vars
  <2>1. CASE Violated
    BY <2>1 DEF Violated, Restored, ToRestore
  <2>2. CASE RestoreFails
    BY <2>2 DEF RestoreFails, Restored, ToRestore
  <2>3. CASE ~Violated /\ ~RestoreFails
    BY <2>3 DEF Next, vars, BeforeSnapshot, InvocationThrows, Spawn,
                AgentWrites, PromptfooEnds, Clean, WorkspaceLeft, Complete, Done
  <2>4. QED
    BY <2>1, <2>2, <2>3
<1>2. QED
  BY Invariance, <1>1, PTL DEF Spec, UserWorkSafe
=============================================================================
