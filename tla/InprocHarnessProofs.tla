------------------------- MODULE InprocHarnessProofs -------------------------
(***************************************************************************)
(* For any number of cases, kinds, workspaces and turns, however the cases *)
(* share workspace names: each in-process case keeps the contract of a     *)
(* case, no workspace is left but of a case that was refused, a shared     *)
(* workspace shows only what DamageConfined says, and the servers of       *)
(* opencode_sdk stay inside their cases.                                   *)
(***************************************************************************)
EXTENDS InprocHarness, TLAPS

\* Where each case is, and what it has counted by then.
Counted(c) ==
  /\ completed[c] <= good[c] /\ good[c] <= begun[c] /\ begun[c] <= completed[c] + 1
  /\ good[c] = completed[c]
  /\ pc[c] \in {"idle", "factory", "init", "refused"} => begun[c] = 0 /\ sess[c] = "none"
  /\ pc[c] = "turn" => begun[c] = completed[c] + 1 /\ sess[c] = "open"
  /\ pc[c] = "finalize" => completed[c] = Turns /\ begun[c] = Turns /\ sess[c] = "open"
  /\ pc[c] = "shutdown" => sess[c] = "open"
  /\ pc[c] = "returned" => sess[c] # "open"
  /\ result[c] = "none" <=> pc[c] \notin {"shutdown", "returned", "refused"}
  /\ result[c] = "ok" => completed[c] = Turns

AllCounted == \A c \in Cases : Counted(c)

\* A directory that is not from an earlier run belongs to a case that has not
\* returned through finally.
Claimed ==
  ~Keep => \A k \in Dirs \ Stale :
             \E c \in Cases : KeyOf[c] = k /\ pc[c] \notin {"idle", "returned"}

CaseInv == TypeOK /\ AllCounted /\ Claimed

-----------------------------------------------------------------------------
(* The cases *)

LEMMA CaseInit == Init => CaseInv
<1> SUFFICES ASSUME Init PROVE CaseInv
  OBVIOUS
<1>1. TypeOK
  BY KeyOfType, TurnsType, StaleType DEF Init, TypeOK, Dirs
<1>2. AllCounted
  BY TurnsType DEF Init, AllCounted, Counted
<1>3. Claimed
  BY DEF Init, Claimed, Dirs
<1> QED  BY <1>1, <1>2, <1>3 DEF CaseInv

\* What a step of case c does to everything but the directories.
Local(c) ==
  /\ \A d \in Cases \ {c} :
       /\ pc'[d] = pc[d] /\ sess'[d] = sess[d] /\ begun'[d] = begun[d]
       /\ good'[d] = good[d] /\ completed'[d] = completed[d]
       /\ result'[d] = result[d]
  /\ pc[c] \notin {"refused", "returned"} /\ (pc'[c] = "idle" => pc[c] = "idle")

\* The control part of TypeOK.
ControlType ==
  /\ pc \in [Cases -> {"idle", "factory", "init", "turn", "finalize",
                       "shutdown", "refused", "returned"}]
  /\ sess \in [Cases -> {"none", "open", "closed", "stuck"}]
  /\ result \in [Cases -> {"none", "ok", "error"}]

CountType ==
  /\ begun \in [Cases -> 0..Turns]
  /\ good \in [Cases -> 0..Turns]
  /\ completed \in [Cases -> 0..Turns]

FileType ==
  /\ Dirs \subseteq Keys
  /\ \A k \in Dirs : files[k] \subseteq Cases \cup {Earlier}

LEMMA Types ==
  TypeOK <=> /\ ControlType /\ CountType /\ FileType
             /\ cache \subseteq Kinds /\ created \subseteq Cases
  BY DEF TypeOK, ControlType, CountType, FileType

\* A directory is made as the case starts or initialises and removed as it
\* returns; in between it is written at most.
DirStep(c) ==
  \/ /\ files' = files /\ (Running(c)' => Running(c)) /\ pc'[c] # "returned"
     /\ Working(c) => Working(c)'
  \/ /\ EnsureWorkspace(c) /\ pc[c] \in {"idle", "init"}
     /\ pc'[c] \in {"init", "factory", "refused"}
  \/ CleanWorkspace(c) /\ pc'[c] = "returned"
  \/ /\ c \notin Supplied /\ KeyOf[c] \in Dirs /\ pc' = pc /\ pc[c] = "turn"
     /\ files' = [files EXCEPT ![KeyOf[c]] = @ \cup {c}]

LEMMA WriteFacts ==
  ASSUME NEW c \in Cases, KeyOf[c] \in Dirs,
         files' = [files EXCEPT ![KeyOf[c]] = @ \cup {c}]
  PROVE  /\ Dirs' = Dirs
         /\ \A k \in Dirs : files'[k] = IF k = KeyOf[c] THEN files[k] \cup {c}
                                                        ELSE files[k]
  BY DEF Dirs

LEMMA DirsAfter ==
  ASSUME FileType, NEW c \in Cases, DirStep(c)
  PROVE  FileType'
<1> USE KeyOfType DEF FileType
<1>1. CASE files' = files
  BY <1>1 DEF Dirs
<1>2. CASE EnsureWorkspace(c)
  BY <1>2 DEF EnsureWorkspace, Dirs
<1>3. CASE CleanWorkspace(c)
  BY <1>3 DEF CleanWorkspace, Dirs
<1>4. CASE KeyOf[c] \in Dirs /\ files' = [files EXCEPT ![KeyOf[c]] = @ \cup {c}]
  <2>1. /\ Dirs' = Dirs
        /\ \A k \in Dirs : files'[k] = IF k = KeyOf[c] THEN files[k] \cup {c}
                                                       ELSE files[k]
    BY <1>4, WriteFacts
  <2>2. \A k \in Dirs : files'[k] \subseteq files[k] \cup {c}
    BY <2>1
  <2> QED  BY <2>1, <2>2
<1> QED  BY <1>1, <1>2, <1>3, <1>4 DEF DirStep

\* How the try block is left.
LEMMA FinallyFacts ==
  ASSUME NEW c \in Cases, NEW res \in {"ok", "error"}, ControlType, Finally(c, res),
         Running(c), pc[c] # "shutdown", sess' \in [Cases -> {"none", "open", "closed", "stuck"}]
  PROVE  /\ ControlType' /\ DirStep(c) /\ result'[c] = res
         /\ pc'[c] = (IF sess'[c] = "open" THEN "shutdown" ELSE "returned")
         /\ \A d \in Cases \ {c} : pc'[d] = pc[d] /\ result'[d] = result[d]
<1> USE DEF Finally, ControlType
<1>1. CASE sess'[c] = "open"
  BY <1>1 DEF DirStep, Running, Working
<1>2. CASE sess'[c] # "open"
  BY <1>2 DEF DirStep
<1> QED  BY <1>1, <1>2

\* What every step of a case does.
LEMMA CaseFacts ==
  ASSUME TypeOK, AllCounted, NEW c \in Cases, CaseStep(c)
  PROVE  /\ ControlType' /\ CountType' /\ cache' \subseteq Kinds /\ created' \subseteq Cases
         /\ Counted(c)' /\ Local(c) /\ DirStep(c)
<1> USE TurnsType, KindOfType, Types DEF ControlType, CountType
<1>0. Counted(c)
  BY DEF AllCounted
<1>1. CASE Refuse(c)
  BY <1>0, <1>1 DEF Refuse, FailEarly, Counted, Local, DirStep, Running, Working
<1>2. CASE Start(c)
  <2>1. UNCHANGED <<cache, sess, begun, good, completed>> /\ pc[c] = "idle"
        /\ EnsureWorkspace(c)
    BY <1>2 DEF Start
  <2>2. CASE pc' = [pc EXCEPT ![c] = "init"] /\ UNCHANGED <<created, result>>
    BY <1>0, <2>1, <2>2 DEF Counted, Local, DirStep
  <2>3. CASE /\ pc' = [pc EXCEPT ![c] = "factory"]
             /\ created' = created \cup {c} /\ UNCHANGED result
    BY <1>0, <2>1, <2>3 DEF Counted, Local, DirStep
  <2>4. CASE FailEarly(c) /\ UNCHANGED created
    BY <1>0, <2>1, <2>4 DEF Counted, Local, DirStep, FailEarly
  <2> QED  BY <1>2, <2>2, <2>3, <2>4 DEF Start
<1>3. CASE FactoryDone(c)
  <2>1. UNCHANGED <<created, sess, begun, good, completed, files>> /\ pc[c] = "factory"
    BY <1>3 DEF FactoryDone
  <2>2. CASE /\ cache' = cache \cup {KindOf[c]}
             /\ pc' = [pc EXCEPT ![c] = "init"] /\ UNCHANGED result
    BY <1>0, <2>1, <2>2 DEF Counted, Local, DirStep, Running, Working
  <2>3. CASE FailEarly(c) /\ UNCHANGED cache
    BY <1>0, <2>1, <2>3 DEF Counted, Local, DirStep, FailEarly, Running, Working
  <2> QED  BY <1>3, <2>2, <2>3 DEF FactoryDone
<1>4. CASE InitDone(c)
  <2>1. UNCHANGED <<cache, created, good, completed>> /\ pc[c] = "init"
    BY <1>4 DEF InitDone
  <2>2. CASE /\ sess' = [sess EXCEPT ![c] = "open"] /\ BeginTurn(c)
             /\ UNCHANGED <<result, files>>
    BY <1>0, <2>1, <2>2 DEF Counted, Local, DirStep, BeginTurn, Running, Working
  <2>3. CASE UNCHANGED <<sess, begun>> /\ Finally(c, "error")
    <3>1. /\ ControlType' /\ DirStep(c) /\ result'[c] = "error" /\ pc'[c] = "returned"
          /\ \A d \in Cases \ {c} : pc'[d] = pc[d] /\ result'[d] = result[d]
      BY <1>0, <2>1, <2>3, FinallyFacts DEF Counted, Running
    <3> QED  BY <1>0, <2>1, <2>3, <3>1 DEF Counted, Local
  <2> QED  BY <1>4, <2>2, <2>3 DEF InitDone
<1>5. CASE TurnDone(c)
  <2>1. UNCHANGED <<cache, created>> /\ pc[c] = "turn"
    BY <1>5 DEF TurnDone
  <2>2. CASE good' = [good EXCEPT ![c] = @ + 1] /\ CountTurn(c)
    <3>1. begun[c] = completed[c] + 1 /\ good[c] = completed[c] /\ sess[c] = "open"
          /\ completed[c] + 1 <= Turns /\ result[c] = "none"
      BY <1>0, <2>1 DEF Counted
    <3>2. completed' = [completed EXCEPT ![c] = @ + 1] /\ UNCHANGED <<sess, result, files>>
      BY <2>2 DEF CountTurn
    <3>3. CASE LastTurn(c)
      BY <2>1, <2>2, <3>1, <3>2, <3>3 DEF CountTurn, LastTurn, Counted, Local, DirStep, Running, Working
    <3>4. CASE ~LastTurn(c)
      <4>1. /\ pc' = [pc EXCEPT ![c] = "turn"] /\ begun' = [begun EXCEPT ![c] = @ + 1]
            /\ completed[c] + 1 # Turns
        BY <2>2, <3>4 DEF CountTurn, LastTurn, BeginTurn
      <4> QED  BY <2>1, <2>2, <3>1, <3>2, <4>1 DEF Counted, Local, DirStep, Running, Working
    <3> QED  BY <3>3, <3>4
  <2>3. CASE TurnFails(c)
    <3>1. /\ ControlType' /\ DirStep(c) /\ result'[c] = "error" /\ pc'[c] = "shutdown"
          /\ \A d \in Cases \ {c} : pc'[d] = pc[d] /\ result'[d] = result[d]
      BY <1>0, <2>1, <2>3, FinallyFacts DEF TurnFails, Counted, Running
    <3> QED  BY <1>0, <2>1, <2>3, <3>1 DEF TurnFails, Counted, Local
  <2> QED  BY <1>5, <2>2, <2>3 DEF TurnDone
<1>6. CASE FinalizeDone(c)
  <2>1. UNCHANGED <<cache, created, sess, begun, good, completed>> /\ pc[c] = "finalize"
    BY <1>6 DEF FinalizeDone
  <2>2. PICK res \in {"ok", "error"} : Finally(c, res)
    BY <1>6 DEF FinalizeDone
  <2>3. /\ ControlType' /\ DirStep(c) /\ result'[c] = res /\ pc'[c] = "shutdown"
        /\ \A d \in Cases \ {c} : pc'[d] = pc[d] /\ result'[d] = result[d]
    BY <1>0, <2>1, <2>2, FinallyFacts DEF Counted, Running
  <2> QED  BY <1>0, <2>1, <2>3 DEF Counted, Local
<1>7. CASE ShutdownDone(c)
  <2>1. UNCHANGED <<cache, created, begun, good, completed, result>> /\ pc[c] = "shutdown"
        /\ pc' = [pc EXCEPT ![c] = "returned"] /\ CleanWorkspace(c)
    BY <1>7 DEF ShutdownDone
  <2>2. PICK s \in {"closed", "stuck"} : sess' = [sess EXCEPT ![c] = s]
    BY <1>7 DEF ShutdownDone
  <2> QED  BY <1>0, <2>1, <2>2 DEF Counted, Local, DirStep
<1>8. CASE WriteFile(c)
  BY <1>0, <1>8 DEF WriteFile, Counted, Local, DirStep
<1>9. CASE InitEnsures(c)
  BY <1>0, <1>9 DEF InitEnsures, Counted, Local, DirStep
<1> QED
  BY <1>1, <1>2, <1>3, <1>4, <1>5, <1>6, <1>7, <1>8, <1>9 DEF CaseStep

\* A directory is claimed by the case that made it until that case returns.
LEMMA ClaimedStep ==
  ASSUME TypeOK, Claimed, NEW c \in Cases, Local(c), DirStep(c)
  PROVE  Claimed'
<1> SUFFICES ASSUME ~Keep, NEW k \in Dirs' \ Stale
             PROVE  \E d \in Cases : KeyOf[d] = k /\ pc'[d] \notin {"idle", "returned"}
  BY DEF Claimed
<1>1. ASSUME k \in Dirs, KeyOf[c] # k \/ pc'[c] # "returned"
      PROVE  \E d \in Cases : KeyOf[d] = k /\ pc'[d] \notin {"idle", "returned"}
  <2>1. PICK d \in Cases : KeyOf[d] = k /\ pc[d] \notin {"idle", "returned"}
    BY <1>1 DEF Claimed
  <2>2. pc'[d] \notin {"idle", "returned"}
    BY <1>1, <2>1 DEF Local
  <2> QED  BY <2>1, <2>2
<1>2. CASE files' = files /\ pc'[c] # "returned"
  BY <1>1, <1>2 DEF Dirs
<1>3. CASE EnsureWorkspace(c) /\ pc'[c] \in {"init", "factory", "refused"}
  <2>1. k \in Dirs \/ k = KeyOf[c]
    BY <1>3 DEF EnsureWorkspace, Dirs
  <2> QED  BY <1>1, <1>3, <2>1
<1>4. CASE CleanWorkspace(c)
  <2>1. k \in Dirs /\ k # KeyOf[c]
    BY <1>4 DEF CleanWorkspace, Dirs
  <2> QED  BY <1>1, <2>1
<1>5. CASE /\ KeyOf[c] \in Dirs /\ pc' = pc /\ pc[c] = "turn"
           /\ files' = [files EXCEPT ![KeyOf[c]] = @ \cup {c}]
  BY <1>1, <1>5 DEF Dirs
<1> QED  BY <1>2, <1>3, <1>4, <1>5 DEF DirStep

LEMMA CaseStepInv ==
  ASSUME CaseInv, NEW c \in Cases, CaseStep(c)
  PROVE  CaseInv'
<1> USE DEF CaseInv
<1>1. /\ ControlType' /\ CountType' /\ cache' \subseteq Kinds /\ created' \subseteq Cases
      /\ Counted(c)' /\ Local(c) /\ DirStep(c)
  BY CaseFacts
<1>2. FileType'
  BY <1>1, DirsAfter, Types
<1>3. TypeOK'
  BY <1>1, <1>2 DEF TypeOK, ControlType, CountType, FileType
<1>4. AllCounted'
  BY <1>1 DEF AllCounted, Counted, Local
<1>5. Claimed'
  BY <1>1, ClaimedStep
<1> QED  BY <1>3, <1>4, <1>5

LEMMA CaseUnchanged == CaseInv /\ UNCHANGED vars => CaseInv'
  BY DEF vars, CaseInv, TypeOK, AllCounted, Counted, Claimed, Dirs

-----------------------------------------------------------------------------
(* The servers, as OpencodeServers has them *)

LEMMA ServerInit == S!Init => S!IInv
  BY DEF S!Init, S!IInv, S!TypeOK, S!ServerOK, S!RegistryExact, S!OnlyUnreadyOrphans

\* Every step of a session or of the process keeps the invariant.
LEMMA ServerStep ==
  ASSUME S!IInv, [S!Next]_(S!vars)
  PROVE  S!IInv'
<1> USE DEF S!IInv, S!TypeOK, S!ServerOK, S!RegistryExact, S!OnlyUnreadyOrphans
<1>1. ASSUME NEW s \in Opencode, S!Boot(s) PROVE S!IInv'
  BY <1>1 DEF S!Boot, S!GoTo
<1>2. ASSUME NEW s \in Opencode, S!BootFails(s) PROVE S!IInv'
  BY <1>2 DEF S!BootFails, S!GoTo, S!Close
<1>3. ASSUME NEW s \in Opencode, S!Booted(s) PROVE S!IInv'
  BY <1>3 DEF S!Booted, S!GoTo
<1>4. ASSUME NEW s \in Opencode, S!NotReady(s) PROVE S!IInv'
  BY <1>4 DEF S!NotReady, S!GoTo, S!StopServer, S!Close
<1>5. ASSUME NEW s \in Opencode, S!Ready(s) PROVE S!IInv'
  BY <1>5 DEF S!Ready, S!GoTo, S!Register
<1>6. ASSUME NEW s \in Opencode, S!Shutdown(s) PROVE S!IInv'
  BY <1>6 DEF S!Shutdown, S!GoTo, S!RegisteredWhileDeleting
<1>7. ASSUME NEW s \in Opencode, S!Deleted(s) PROVE S!IInv'
  BY <1>7 DEF S!Deleted, S!GoTo, S!StopServer, S!Close
<1>8. CASE S!HostEnds
  BY <1>8 DEF S!HostEnds, S!Close
<1>9. CASE UNCHANGED S!vars
  BY <1>9 DEF S!vars
<1> QED
  BY <1>1, <1>2, <1>3, <1>4, <1>5, <1>6, <1>7, <1>8, <1>9 DEF S!Next, S!Over

-----------------------------------------------------------------------------
(* The harness is both *)

LEMMA StepIsCases == HarnessNext => [Next]_vars
  BY OpencodeType
  DEF HarnessNext, Step, OtherStep, OpencodeStep, ServerUntouched, Boots, InitResolves,
      InitRejects, MethodSettles, ShutdownResolves, ProcessEnds, Gone, Next, CaseStep

LEMMA StepIsServers == HarnessNext => [S!Next]_(S!vars)
<1> SUFFICES ASSUME HarnessNext PROVE [S!Next]_(S!vars)
  OBVIOUS
<1>1. ASSUME NEW c \in Cases, OtherStep(c) PROVE UNCHANGED S!vars
  BY <1>1 DEF OtherStep, servers, S!vars
<1>2. ASSUME NEW c \in Opencode, OpencodeStep(c) PROVE [S!Next]_(S!vars)
  <2>1. CASE UNCHANGED servers
    BY <2>1 DEF servers, S!vars
  <2>2. CASE S!Boot(c) \/ S!Booted(c) \/ S!Ready(c) \/ S!BootFails(c)
             \/ S!NotReady(c) \/ S!Shutdown(c) \/ S!Deleted(c)
    BY <2>2 DEF S!Next
  <2> QED
    BY <1>2, <2>1, <2>2
    DEF OpencodeStep, ServerUntouched, Boots, InitResolves, InitRejects,
        MethodSettles, ShutdownResolves
<1>3. CASE ProcessEnds \/ Gone
  BY <1>3 DEF ProcessEnds, Gone, S!Next
<1> QED  BY <1>1, <1>2, <1>3 DEF HarnessNext, Step

\* The harness does nothing that its two parts do not do on their own: what is
\* true of every behaviour of the bridge, or of the provider's servers, is true
\* of them together.
THEOREM HarnessIsBoth == HarnessSpec => Spec /\ S!Spec
<1>1. HarnessInit => Init /\ S!Init
  BY DEF HarnessInit
<1>2. [HarnessNext]_allVars => [Next]_vars
  BY StepIsCases DEF allVars
<1>3. [HarnessNext]_allVars => [S!Next]_(S!vars)
  BY StepIsServers DEF allVars, servers, S!vars
<1> QED  BY <1>1, <1>2, <1>3, PTL DEF HarnessSpec, Spec, S!Spec

\* Where the case and its server are together.
Joined(c) ==
  /\ pc[c] \in {"idle", "factory"} => srv[c] = "idle"
  /\ pc[c] = "init" => srv[c] \in {"idle", "booting", "probing"}
  /\ pc[c] \in {"turn", "finalize"} => srv[c] = "open"
  /\ pc[c] = "shutdown" => srv[c] = "deleting"
  /\ pc[c] \in {"refused", "returned"} => srv[c] \in {"idle", "over"}

HarnessInv == CaseInv /\ S!IInv /\ \A c \in Opencode : Joined(c)

LEMMA HarnessStart == HarnessInit => HarnessInv
<1> SUFFICES ASSUME HarnessInit PROVE HarnessInv
  OBVIOUS
<1>1. \A c \in Opencode : Joined(c)
  BY OpencodeType DEF HarnessInit, Init, S!Init, Joined
<1> QED  BY <1>1, CaseInit, ServerInit DEF HarnessInit, HarnessInv

\* Where an action of the provider leaves its server.
LEMMA ServerMoves ==
  ASSUME S!TypeOK, NEW c \in Opencode
  PROVE  /\ S!Boot(c) => srv[c] = "idle" /\ srv' = [srv EXCEPT ![c] = "booting"]
         /\ S!Booted(c) => srv' = [srv EXCEPT ![c] = "probing"]
         /\ S!Ready(c) => srv' = [srv EXCEPT ![c] = "open"]
         /\ S!BootFails(c) \/ S!NotReady(c) \/ S!Deleted(c) =>
              srv' = [srv EXCEPT ![c] = "over"]
         /\ S!Shutdown(c) => srv' = [srv EXCEPT ![c] = "deleting"]
  BY DEF S!Boot, S!Booted, S!Ready, S!BootFails, S!NotReady, S!Deleted, S!Shutdown,
         S!GoTo

\* A step of a case, by where it starts and where it ends.
LEMMA CaseMoves ==
  ASSUME CaseInv, NEW c \in Cases
  PROVE  /\ Refuse(c) => pc[c] = "idle" /\ pc'[c] = "refused"
         /\ Start(c) => pc[c] = "idle" /\ pc'[c] \in {"factory", "init", "refused"}
         /\ FactoryDone(c) => pc[c] = "factory" /\ pc'[c] \in {"init", "refused"}
         /\ WriteFile(c) => pc' = pc
         /\ InitDone(c) => pc[c] = "init" /\ sess[c] = "none"
         /\ InitDone(c) /\ sess'[c] = "open" => pc'[c] = "turn"
         /\ InitDone(c) /\ sess'[c] = "none" => pc'[c] = "returned"
         /\ TurnDone(c) => pc[c] = "turn" /\ pc'[c] \in {"turn", "finalize", "shutdown"}
         /\ FinalizeDone(c) => pc[c] = "finalize" /\ pc'[c] = "shutdown"
         /\ ShutdownDone(c) => pc[c] = "shutdown" /\ pc'[c] = "returned"
<1> USE DEF CaseInv, TypeOK
<1>0. Counted(c)
  BY DEF AllCounted
<1>1. /\ Refuse(c) => pc[c] = "idle" /\ pc'[c] = "refused"
      /\ WriteFile(c) => pc' = pc
      /\ ShutdownDone(c) => pc[c] = "shutdown" /\ pc'[c] = "returned"
  BY DEF Refuse, FailEarly, WriteFile, ShutdownDone
<1>2. Start(c) => pc[c] = "idle" /\ pc'[c] \in {"factory", "init", "refused"}
  BY DEF Start, FailEarly
<1>3. FactoryDone(c) => pc[c] = "factory" /\ pc'[c] \in {"init", "refused"}
  BY DEF FactoryDone, FailEarly
<1>4. /\ InitDone(c) => pc[c] = "init" /\ sess[c] = "none"
      /\ InitDone(c) /\ sess'[c] = "open" => pc'[c] = "turn"
      /\ InitDone(c) /\ sess'[c] = "none" => pc'[c] = "returned"
  BY <1>0 DEF InitDone, BeginTurn, Finally, Counted
<1>5. TurnDone(c) => pc[c] = "turn" /\ pc'[c] \in {"turn", "finalize", "shutdown"}
  BY <1>0 DEF TurnDone, CountTurn, LastTurn, BeginTurn, TurnFails, Finally, Counted
<1>6. FinalizeDone(c) => pc[c] = "finalize" /\ pc'[c] = "shutdown"
  BY <1>0 DEF FinalizeDone, Finally, Counted
<1> QED  BY <1>1, <1>2, <1>3, <1>4, <1>5, <1>6

\* The other cases of the kind are where they were.
LEMMA OthersJoined ==
  ASSUME NEW c \in Cases, NEW d \in Opencode, d # c, Joined(d),
         pc'[d] = pc[d], srv'[d] = srv[d]
  PROVE  Joined(d)'
  BY DEF Joined

LEMMA OpencodeJoined ==
  ASSUME HarnessInv, NEW c \in Opencode, OpencodeStep(c)
  PROVE  Joined(c)' /\ \A d \in Opencode \ {c} : srv'[d] = srv[d]
<1>0. CaseInv /\ S!TypeOK /\ c \in Cases /\ Joined(c)
  BY OpencodeType DEF HarnessInv, S!IInv
<1>a. srv \in [Opencode -> {"idle", "booting", "probing", "open", "deleting", "over"}]
  BY <1>0 DEF S!TypeOK
<1>1. CASE ServerUntouched(c)
  <2>1. srv' = srv /\ (Refuse(c) \/ Start(c) \/ FactoryDone(c) \/ WriteFile(c))
    BY <1>1 DEF ServerUntouched, servers
  <2> QED  BY <1>0, <2>1, CaseMoves DEF Joined
<1>2. CASE Boots(c)
  <2>1. pc[c] = "init" /\ pc' = pc /\ (S!Boot(c) \/ S!Booted(c))
    BY <1>2 DEF Boots, vars
  <2>2. srv' = [srv EXCEPT ![c] = "booting"] \/ srv' = [srv EXCEPT ![c] = "probing"]
    BY <1>0, <2>1, ServerMoves
  <2> QED  BY <1>a, <2>1, <2>2 DEF Joined
<1>3. CASE InitResolves(c)
  <2>1. pc'[c] = "turn" /\ srv' = [srv EXCEPT ![c] = "open"]
    BY <1>0, <1>3, CaseMoves, ServerMoves DEF InitResolves
  <2> QED  BY <1>a, <2>1 DEF Joined
<1>4. CASE InitRejects(c)
  <2>1. pc'[c] = "returned"
    BY <1>0, <1>4, CaseMoves DEF InitRejects
  <2>2. \/ srv[c] = "idle" /\ srv' = srv
        \/ srv' = [srv EXCEPT ![c] = "over"]
    BY <1>0, <1>4, ServerMoves DEF InitRejects, servers
  <2> QED  BY <1>a, <2>1, <2>2 DEF Joined
<1>5. CASE MethodSettles(c)
  <2>1. pc[c] \in {"turn", "finalize"} /\ pc'[c] \in {"turn", "finalize", "shutdown"}
    BY <1>0, <1>5, CaseMoves DEF MethodSettles
  <2>2. IF pc'[c] = "shutdown" THEN srv' = [srv EXCEPT ![c] = "deleting"] ELSE srv' = srv
    BY <1>0, <1>5, ServerMoves DEF MethodSettles, servers
  <2> QED  BY <1>0, <1>a, <2>1, <2>2 DEF Joined
<1>6. CASE ShutdownResolves(c)
  <2>1. pc'[c] = "returned" /\ srv' = [srv EXCEPT ![c] = "over"]
    BY <1>0, <1>6, CaseMoves, ServerMoves DEF ShutdownResolves
  <2> QED  BY <1>a, <2>1 DEF Joined
<1> QED  BY <1>1, <1>2, <1>3, <1>4, <1>5, <1>6 DEF OpencodeStep

LEMMA JoinedStep ==
  ASSUME HarnessInv, HarnessNext
  PROVE  \A c \in Opencode : Joined(c)'
<1>0. TypeOK /\ AllCounted /\ \A c \in Opencode : Joined(c)
  BY DEF HarnessInv, CaseInv
<1>1. ASSUME NEW c \in Cases, OtherStep(c) PROVE \A d \in Opencode : Joined(d)'
  <2>1. srv' = srv /\ c \notin Opencode /\ Local(c)
    BY <1>0, <1>1, CaseFacts DEF OtherStep, servers
  <2>2. \A d \in Opencode : d # c /\ pc'[d] = pc[d]
    BY <2>1, OpencodeType DEF Local
  <2> QED  BY <1>0, <2>1, <2>2, OthersJoined
<1>2. ASSUME NEW c \in Opencode, OpencodeStep(c) PROVE \A d \in Opencode : Joined(d)'
  <2>1. Joined(c)' /\ \A d \in Opencode \ {c} : srv'[d] = srv[d]
    BY <1>2, OpencodeJoined
  <2>2. CaseStep(c) \/ pc' = pc
    BY <1>2
    DEF OpencodeStep, ServerUntouched, Boots, InitResolves, InitRejects, MethodSettles,
        ShutdownResolves, CaseStep, vars
  <2>3. c \in Cases /\ \A d \in Opencode \ {c} : pc'[d] = pc[d]
    BY <1>0, <2>2, CaseFacts, OpencodeType DEF Local
  <2> QED  BY <1>0, <2>1, <2>3, OthersJoined
<1>3. CASE ProcessEnds \/ Gone
  BY <1>0, <1>3
  DEF ProcessEnds, Gone, vars, S!HostEnds, S!Over, S!vars, Joined
<1> QED  BY <1>1, <1>2, <1>3 DEF HarnessNext, Step

LEMMA HarnessStepInv == HarnessInv /\ [HarnessNext]_allVars => HarnessInv'
<1> SUFFICES ASSUME HarnessInv, [HarnessNext]_allVars PROVE HarnessInv'
  OBVIOUS
<1>1. CASE HarnessNext
  <2>1. [Next]_vars /\ [S!Next]_(S!vars)
    BY <1>1, StepIsCases, StepIsServers
  <2>2. CaseInv'
    BY <2>1, CaseStepInv, CaseUnchanged DEF HarnessInv, Next, Over
  <2>3. S!IInv'
    BY <2>1, ServerStep DEF HarnessInv
  <2> QED  BY <1>1, <2>2, <2>3, JoinedStep DEF HarnessInv
<1>2. CASE UNCHANGED allVars
  <2>1. UNCHANGED vars /\ UNCHANGED S!vars /\ pc' = pc /\ srv' = srv
    BY <1>2 DEF allVars, vars, servers, S!vars
  <2>2. \A c \in Opencode : Joined(c)'
    BY <2>1 DEF HarnessInv, Joined
  <2> QED  BY <2>1, <2>2, CaseUnchanged, ServerStep DEF HarnessInv
<1> QED  BY <1>1, <1>2

\* The harness never leaves the joint invariant.
THEOREM Invariance == HarnessSpec => []HarnessInv
  BY HarnessStart, HarnessStepInv, PTL DEF HarnessSpec

-----------------------------------------------------------------------------
(* The properties *)

\* A directory that is left when every call returned is of a case that was
\* refused before its try block, or was there before (_node_bridge.js:908-917).
THEOREM LeaksAreExplained == HarnessSpec => []LeaksExplained
<1>1. HarnessInv => LeaksExplained
  <2> SUFFICES ASSUME HarnessInv, ~Keep, \A c \in Cases : Returned(c), NEW k \in Dirs \ Stale
               PROVE  k \in {KeyOf[c] : c \in {d \in Cases : pc[d] = "refused"}}
    BY DEF LeaksExplained
  <2>1. PICK c \in Cases : KeyOf[c] = k /\ pc[c] \notin {"idle", "returned"}
    BY DEF HarnessInv, CaseInv, Claimed
  <2>2. pc[c] = "refused"
    BY <2>1 DEF Returned
  <2> QED  BY <2>1, <2>2
<1> QED  BY Invariance, <1>1, PTL

\* The registry of _activeServers (provider.js:64-81) holds exactly the
\* servers of the sessions that are open or being closed.
THEOREM RegistryIsExact == HarnessSpec => []S!RegistryExact
<1>1. HarnessInv => S!RegistryExact
  BY DEF HarnessInv, S!IInv
<1> QED  BY Invariance, <1>1, PTL

\* The hooks of provider.js:83-104 leave no server behind but those of a case
\* whose init() had not resolved.
THEOREM OrphansAreUnready == HarnessSpec => []OnlyUnreadyOrphans
<1>1. HarnessInv => OnlyUnreadyOrphans
  <2> SUFFICES ASSUME HarnessInv, host = "gone", NEW c \in Opencode, server[c] = "running"
               PROVE  pc[c] = "init"
    BY DEF OnlyUnreadyOrphans
  <2>1. srv[c] \in {"booting", "probing"} /\ Joined(c)
    BY DEF HarnessInv, S!IInv, S!OnlyUnreadyOrphans
  <2>2. pc[c] \in {"idle", "factory", "init", "turn", "finalize", "shutdown", "refused",
                   "returned"}
    BY OpencodeType DEF HarnessInv, CaseInv, TypeOK
  <2> QED  BY <2>1, <2>2 DEF Joined
<1> QED  BY Invariance, <1>1, PTL

-----------------------------------------------------------------------------
(* Workspaces that cases share *)

LEMMA DamageInit == Init => DamageConfined
  BY StaleType DEF Init, DamageConfined, Running, Cleared, Dirs

\* A step of c leaves every other case where it is.
LEMMA OthersStay ==
  ASSUME TypeOK, NEW c \in Cases, Local(c), NEW d \in Cases, d # c
  PROVE  /\ Running(d)' <=> Running(d)
         /\ Working(d)' <=> Working(d)
         /\ pc'[d] = pc[d]
  BY DEF Local, Running, Working

\* A name is cleared for good, and only by a case of that name.
LEMMA ClearedStep ==
  ASSUME TypeOK, NEW c \in Cases, Local(c), NEW k \in Keys
  PROVE  /\ Cleared(k) => Cleared(k)'
         /\ Cleared(k)' => Cleared(k) \/ (KeyOf[c] = k /\ pc'[c] = "returned")
<1>1. \A d \in Cases : d # c => pc'[d] = pc[d]
  BY OthersStay
<1>2. pc[c] # "returned"
  BY DEF Local
<1> QED  BY <1>1, <1>2 DEF Cleared

\* A running case has its directory, or one of its name has returned.
LEMMA PresentStep ==
  ASSUME CaseInv, DamageConfined, ~Keep, NEW c \in Cases, Local(c), DirStep(c),
         NEW d \in Cases \ Supplied, Running(d)'
  PROVE  KeyOf[d] \in Dirs' \/ Cleared(KeyOf[d])'
<1>0. TypeOK /\ KeyOf[d] \in Keys
  BY KeyOfType DEF CaseInv
<1>1. Running(d) => KeyOf[d] \in Dirs \/ Cleared(KeyOf[d])
  BY DEF DamageConfined
<1>2. Cleared(KeyOf[d]) => Cleared(KeyOf[d])'
  BY <1>0, ClearedStep
<1>3. d # c => Running(d)
  BY <1>0, OthersStay
<1>4. CASE files' = files /\ (Running(c)' => Running(c))
  BY <1>1, <1>2, <1>3, <1>4 DEF Dirs
<1>5. CASE EnsureWorkspace(c)
  BY <1>1, <1>2, <1>3, <1>5 DEF EnsureWorkspace, Dirs
<1>6. CASE CleanWorkspace(c) /\ pc'[c] = "returned"
  <2>1. d # c
    BY <1>6 DEF Running
  <2>2. CASE KeyOf[d] = KeyOf[c]
    BY <1>6, <2>2 DEF Cleared
  <2>3. CASE KeyOf[d] # KeyOf[c]
    BY <1>1, <1>2, <1>3, <1>6, <2>1, <2>3 DEF CleanWorkspace, Dirs
  <2> QED  BY <2>2, <2>3
<1>7. CASE /\ KeyOf[c] \in Dirs /\ pc' = pc
           /\ files' = [files EXCEPT ![KeyOf[c]] = @ \cup {c}]
  <2>1. Dirs' = Dirs /\ (Running(d)' <=> Running(d))
    BY <1>7 DEF Dirs, Running
  <2> QED  BY <1>1, <1>2, <2>1
<1> QED  BY <1>4, <1>5, <1>6, <1>7 DEF DirStep

\* What a directory holds is of running cases of its name, or older than all
\* that have returned.
Traced(k, w) == IF w = Earlier THEN ~Cleared(k) ELSE KeyOf[w] = k /\ Working(w)

LEMMA TracedStep ==
  ASSUME CaseInv, DamageConfined, ~Keep, NEW c \in Cases, Local(c), DirStep(c),
         NEW k \in Dirs', NEW w \in files'[k]
  PROVE  Traced(k, w)'
<1>0. TypeOK /\ k \in Keys /\ FileType
  BY DirsAfter, Types DEF CaseInv, FileType
<1>1. ASSUME k \in Dirs, w \in files[k], pc'[c] # "returned",
             Working(c) => Working(c)'
      PROVE  Traced(k, w)'
  <2>1. Traced(k, w) /\ w \in Cases \cup {Earlier}
    BY <1>0, <1>1 DEF DamageConfined, Traced, FileType
  <2>2. CASE w = Earlier
    BY <1>0, <1>1, <2>1, <2>2, ClearedStep DEF Traced
  <2>3. CASE w # Earlier
    <3>1. w \in Cases /\ KeyOf[w] = k /\ Working(w)
      BY <2>1, <2>3 DEF Traced
    <3>2. Working(w)'
      BY <1>0, <1>1, <3>1, OthersStay
    <3> QED  BY <2>3, <3>1, <3>2 DEF Traced
  <2> QED  BY <2>2, <2>3
<1>2. CASE files' = files /\ pc'[c] # "returned" /\ (Working(c) => Working(c)')
  BY <1>1, <1>2 DEF Dirs
<1>3. CASE /\ EnsureWorkspace(c) /\ pc[c] \in {"idle", "init"}
           /\ pc'[c] \in {"init", "factory", "refused"}
  <2>1. k \in Dirs /\ w \in files[k]
    BY <1>3 DEF EnsureWorkspace, Dirs
  <2> QED  BY <1>1, <1>3, <2>1 DEF Working
<1>4. CASE CleanWorkspace(c) /\ pc'[c] = "returned"
  <2>1. k \in Dirs /\ k # KeyOf[c] /\ w \in files[k]
    BY <1>4 DEF CleanWorkspace, Dirs
  <2>2. Traced(k, w) /\ w \in Cases \cup {Earlier}
    BY <1>0, <2>1 DEF DamageConfined, Traced, FileType
  <2>3. CASE w = Earlier
    BY <1>0, <2>1, <2>2, <2>3, ClearedStep DEF Traced
  <2>4. CASE w # Earlier
    <3>1. w \in Cases /\ KeyOf[w] = k /\ Working(w) /\ w # c
      BY <2>1, <2>2, <2>4 DEF Traced
    <3> QED  BY <1>0, <2>4, <3>1, OthersStay DEF Traced
  <2> QED  BY <2>3, <2>4
<1>5. CASE /\ KeyOf[c] \in Dirs /\ pc' = pc /\ pc[c] = "turn"
           /\ files' = [files EXCEPT ![KeyOf[c]] = @ \cup {c}]
  <2>1. /\ Dirs' = Dirs
        /\ \A j \in Dirs : files'[j] = IF j = KeyOf[c] THEN files[j] \cup {c}
                                                       ELSE files[j]
    BY <1>5, WriteFacts
  <2>2. w \in files[k] \/ (w = c /\ k = KeyOf[c])
    BY <2>1
  <2>3. ASSUME w = c, k = KeyOf[c] PROVE Traced(k, w)'
    BY <1>5, <2>3, StaleType DEF Traced, Working
  <2>4. ASSUME w \in files[k] PROVE Traced(k, w)'
    BY <1>1, <1>5, <2>1, <2>4 DEF Working
  <2> QED  BY <2>2, <2>3, <2>4
<1> QED  BY <1>2, <1>3, <1>4, <1>5 DEF DirStep

\* A case loses its workspace, or finds something in it, only through cases
\* of its own name, and nothing in it is of a case that is over: for every
\* naming, whoever ends first (_node_bridge.js:45-64, 908-917).
THEOREM DamageIsConfined == HarnessSpec => []DamageConfined
<1>1. HarnessInit => DamageConfined
  BY DamageInit DEF HarnessInit
<1>2. HarnessInv /\ DamageConfined /\ [HarnessNext]_allVars => DamageConfined'
  <2> SUFFICES ASSUME HarnessInv, DamageConfined, [HarnessNext]_allVars
               PROVE  DamageConfined'
    OBVIOUS
  <2>1. CASE HarnessNext
    <3>1. [Next]_vars /\ CaseInv
      BY <2>1, StepIsCases DEF HarnessInv
    <3>2. ASSUME NEW c \in Cases, CaseStep(c) PROVE DamageConfined'
      <4>1. Local(c) /\ DirStep(c)
        BY <3>1, <3>2, CaseFacts DEF CaseInv
      <4>2. ~Keep => \A d \in Cases \ Supplied :
              Running(d)' => KeyOf[d] \in Dirs' \/ Cleared(KeyOf[d])'
        BY <3>1, <4>1, PresentStep
      <4>3. ~Keep => \A k \in Dirs' : \A w \in files'[k] : Traced(k, w)'
        BY <3>1, <4>1, TracedStep
      <4> QED  BY <4>2, <4>3 DEF DamageConfined, Traced
    <3>3. CASE UNCHANGED vars
      BY <3>3 DEF vars, DamageConfined, Running, Working, Cleared, Dirs
    <3> QED  BY <3>1, <3>2, <3>3 DEF Next, Over
  <2>2. CASE UNCHANGED allVars
    BY <2>2 DEF allVars, vars, DamageConfined, Running, Working, Cleared, Dirs
  <2> QED  BY <2>1, <2>2
<1> QED  BY <1>1, <1>2, Invariance, PTL DEF HarnessSpec

\* No path of the bridge returns before its server is stopped
\* (_node_bridge.js:852-917, provider.js:230-349).
THEOREM ServersStayInside == HarnessSpec => []ServerInsideCase
<1>1. HarnessInv => ServerInsideCase
  <2> SUFFICES ASSUME HarnessInv, NEW c \in Opencode, server[c] = "running"
               PROVE  pc[c] \in {"init", "turn", "finalize", "shutdown"}
    BY DEF ServerInsideCase
  <2>1. srv[c] \notin {"idle", "over"} /\ Joined(c)
    BY DEF HarnessInv, S!IInv, S!ServerOK
  <2>2. c \in Cases /\ pc[c] \in {"idle", "factory", "init", "turn", "finalize",
                                  "shutdown", "refused", "returned"}
    BY OpencodeType DEF HarnessInv, CaseInv, TypeOK
  <2> QED  BY <2>1, <2>2 DEF Joined
<1> QED  BY Invariance, <1>1, PTL

-----------------------------------------------------------------------------
(* The contract *)

LEMMA ContractInit == Init => \A c \in Cases : Contract(c)!Init
  BY DEF Init, Contract!Init

\* What a step of a case does to its counts and its result.
LEMMA CountSteps ==
  ASSUME CaseInv, NEW c \in Cases, CaseStep(c)
  PROVE  /\ \/ /\ UNCHANGED <<begun[c], good[c], completed[c]>>
            \/ /\ UNCHANGED <<good[c], completed[c], result[c]>>
               /\ begun'[c] = begun[c] + 1
            \/ /\ good'[c] = good[c] + 1 /\ completed'[c] = completed[c] + 1
               /\ begun'[c] \in {begun[c], begun[c] + 1}
               /\ result[c] = "none" /\ result'[c] = "none"
         /\ \/ result'[c] = result[c]
            \/ result[c] = "none" /\ result'[c] \in {"ok", "error"}
<1> USE DEF CaseInv, TypeOK
<1>0. Counted(c)
  BY DEF AllCounted
<1>1. CASE Refuse(c) \/ Start(c) \/ FactoryDone(c) \/ InitEnsures(c) \/ WriteFile(c)
  BY <1>0, <1>1 DEF Refuse, Start, FactoryDone, InitEnsures, WriteFile, FailEarly, Counted
<1>2. CASE InitDone(c)
  BY <1>0, <1>2 DEF InitDone, BeginTurn, Finally, Counted
<1>3. CASE TurnDone(c)
  <2>1. pc[c] = "turn" /\ result[c] = "none"
    BY <1>0, <1>3 DEF TurnDone, Counted
  <2>2. CASE good' = [good EXCEPT ![c] = @ + 1] /\ CountTurn(c)
    BY <2>1, <2>2 DEF CountTurn, LastTurn, BeginTurn
  <2>3. CASE TurnFails(c)
    BY <2>1, <2>3 DEF TurnFails, Finally
  <2> QED  BY <1>3, <2>2, <2>3 DEF TurnDone
<1>4. CASE FinalizeDone(c) \/ ShutdownDone(c)
  BY <1>0, <1>4 DEF FinalizeDone, ShutdownDone, Finally, Counted
<1> QED  BY <1>1, <1>2, <1>3, <1>4 DEF CaseStep

LEMMA ContractStep ==
  ASSUME CaseInv, CaseInv', NEW c \in Cases, CaseStep(c)
  PROVE  \A d \in Cases : [Contract(d)!Next]_(Contract(d)!vars)
<1>1. Local(c) /\ Counted(c) /\ Counted(c)'
  BY CaseFacts DEF CaseInv, AllCounted
<1>2. \A d \in Cases \ {c} : UNCHANGED Contract(d)!vars
  BY <1>1 DEF Local, Contract!vars
<1>3. Contract(c)!Advance
  <2>1. /\ begun[c] \in 0..Turns /\ good[c] \in 0..Turns /\ completed[c] \in 0..Turns
        /\ begun'[c] \in 0..Turns /\ good'[c] \in 0..Turns /\ completed'[c] \in 0..Turns
    BY DEF CaseInv, TypeOK
  <2>2. Contract(c)!InOrder'
    BY <1>1 DEF Contract!InOrder, Counted
  <2> QED  BY <2>1, <2>2, CountSteps, TurnsType DEF Contract!Advance
<1>4. Contract(c)!Decide
  BY <1>1, CountSteps DEF Contract!Decide, Counted
<1> QED  BY <1>2, <1>3, <1>4 DEF Contract!Next

\* Every case keeps the contract of CaseContract, as a subprocess case does,
\* with any number of cases around it (_node_bridge.js:800-919).
THEOREM CasesKeepContract == HarnessSpec => ImplementsCaseContract
<1>1. HarnessInit => \A c \in Cases : Contract(c)!Init
  BY ContractInit DEF HarnessInit
<1>2. HarnessInv /\ HarnessInv' /\ [HarnessNext]_allVars
        => [\A c \in Cases : [Contract(c)!Next]_(Contract(c)!vars)]_vars
  <2> SUFFICES ASSUME HarnessInv, HarnessInv', [HarnessNext]_allVars
               PROVE  [\A c \in Cases : [Contract(c)!Next]_(Contract(c)!vars)]_vars
    OBVIOUS
  <2>1. [Next]_vars
    BY StepIsCases DEF allVars
  <2> QED  BY <2>1, ContractStep DEF HarnessInv, Next, Over
<1> QED  BY <1>1, <1>2, Invariance, PTL DEF HarnessSpec, ImplementsCaseContract

\* _node_bridge.js:800-919, provider.js:25-104: the variables of the cases and
\* of the servers keep their types, with any number of both.
THEOREM TypeCorrect == HarnessSpec => [](TypeOK /\ S!TypeOK)
<1>1. HarnessInv => TypeOK /\ S!TypeOK
  BY DEF HarnessInv, CaseInv, S!IInv
<1> QED  BY Invariance, <1>1, PTL

\* _node_bridge.js:849-903: however the cases interleave, a turn is counted
\* only if its provider completed it, and "ok" means every turn.
THEOREM CasesCountHonestly == HarnessSpec => [](\A c \in Cases : Contract(c)!Honest)
<1>1. ASSUME HarnessInv, NEW c \in Cases PROVE Contract(c)!Honest
  <2>1. Counted(c) /\ begun[c] \in 0..Turns
    BY <1>1 DEF HarnessInv, CaseInv, AllCounted, TypeOK
  <2> QED  BY <2>1, TurnsType DEF Counted, Contract!Honest, Contract!InOrder
<1>2. HarnessInv => \A c \in Cases : Contract(c)!Honest
  BY <1>1
<1> QED  BY Invariance, <1>2, PTL
=============================================================================
