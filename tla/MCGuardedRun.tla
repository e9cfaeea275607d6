---------------------------- MODULE MCGuardedRun ----------------------------
(***************************************************************************)
(* Three paths: a file in any state the user may have left it in, a file   *)
(* that is tracked and clean or does not exist (and would be ignored), and *)
(* an artifact.                                                            *)
(***************************************************************************)
EXTENDS GuardedRun

CONSTANTS userFile, ignored, artifact, a, b

MCPaths    == {userFile, ignored, artifact}
MCContents == {a, b}
MCAllowed  == {artifact}
MCIgnored  == {ignored}

MCInit ==
  /\ Init
  /\ head[ignored] \in {a, Absent}
  /\ index[ignored] = head[ignored] /\ work[ignored] = head[ignored]
  /\ head[artifact] = Absent /\ index[artifact] = Absent
  /\ work[artifact] = Absent

MCSpec == MCInit /\ [][Next]_vars
=============================================================================
