----------------------- MODULE AgentServerDaemonProofs -----------------------
(***************************************************************************)
(* For any number of callers, whatever the daemons, the port and the       *)
(* signals do: a daemon that lives is where the hooks find it, and one     *)
(* caller never has two.                                                   *)
(***************************************************************************)
EXTENDS AgentServerDaemon, FiniteSetTheorems, TLAPS

Quiet == {"idle", "port", "refused"}
InUse == {"probing", "blocked", "stopping"}
Ended == {"killing", "done", "failed"}

\* Which daemons a caller has, by where it is: none before its spawn, a
\* tracked one while it is in use, and after that only dead ones.
CallerOK(s) ==
  /\ \A n \in Attempts : /\ n > attempt[s] => daemon[<<s, n>>] = "none"
                         /\ n < attempt[s] => daemon[<<s, n>>] = "dead"
  /\ pc[s] \in Quiet => daemon[H(s)] = "none"
  /\ pc[s] \in InUse => H(s) \in active /\ daemon[H(s)] # "none"
  /\ pc[s] \in Ended => daemon[H(s)] = "dead"

ExitsSeen == \A h \in exitSeen : daemon[h] = "dead"

IInv == TypeOK /\ ExitsSeen /\ \A s \in Callers : CallerOK(s)

\* What the invariant is about.
tracked == <<pc, attempt, active, daemon, exitSeen>>

\* The rest of TypeOK.
OthersType ==
  /\ taken \subseteq Handles /\ terms \subseteq Handles
  /\ hooks \in BOOLEAN /\ signal \in BOOLEAN /\ request \in BOOLEAN
  /\ host \in {"up", "gone"}
  /\ logs \in [Handles -> 0..PipeCap]

TrackedType ==
  /\ pc \in [Callers -> Quiet \cup InUse \cup Ended]
  /\ attempt \in [Callers -> Attempts]
  /\ active \subseteq Handles /\ exitSeen \subseteq Handles
  /\ daemon \in [Handles -> {"none", "starting", "up", "dead"}]

LEMMA Types == TypeOK <=> TrackedType /\ OthersType
  BY DEF TypeOK, TrackedType, OthersType, Quiet, InUse, Ended

LEMMA HandleFacts ==
  /\ \A s \in Callers, n \in Attempts : <<s, n>> \in Handles
  /\ \A h \in Handles : h[1] \in Callers /\ h[2] \in Attempts /\ h = <<h[1], h[2]>>
  BY DEF Handles

LEMMA InitInv == Init => IInv
<1> SUFFICES ASSUME Init PROVE IInv
  OBVIOUS
<1>1. TrackedType
  BY DEF Init, TrackedType, Quiet, Attempts
<1>2. OthersType
  <2>1. taken \subseteq Handles /\ terms \subseteq Handles /\ host \in {"up", "gone"}
    BY DEF Init
  <2>2. hooks \in BOOLEAN /\ signal \in BOOLEAN /\ request \in BOOLEAN
    BY DEF Init
  <2>3. logs \in [Handles -> 0..PipeCap]
    BY PipeCapType DEF Init
  <2> QED  BY <2>1, <2>2, <2>3 DEF OthersType
<1>3. ExitsSeen
  BY DEF Init, ExitsSeen
<1>4. ASSUME NEW s \in Callers PROVE CallerOK(s)
  <2>1. pc[s] = "idle" /\ attempt[s] = 1
    BY DEF Init
  <2>a. \A n \in Attempts : <<s, n>> \in Handles
    BY HandleFacts
  <2>b. \A h \in Handles : daemon[h] = "none"
    BY DEF Init
  <2>c. \A n \in Attempts : ~(n < 1)
    BY DEF Attempts
  <2>2. \A n \in Attempts : daemon[<<s, n>>] = "none" /\ ~(n < 1)
    BY <2>a, <2>b, <2>c
  <2>3. daemon[H(s)] = "none"
    BY <2>1, <2>2 DEF H, Attempts
  <2>4. \A n \in Attempts : ~(n < attempt[s])
    BY <2>1, <2>2
  <2> QED  BY <2>1, <2>2, <2>3, <2>4 DEF CallerOK, InUse, Ended
<1> QED  BY <1>1, <1>2, <1>3, <1>4, Types DEF IInv

\* The variables the invariant says nothing of keep their types.
LEMMA OthersKept ==
  ASSUME TypeOK, [Next]_vars
  PROVE  OthersType'
<1> USE DEF procVars, OthersType
<1>0. OthersType
  BY Types
<1>1. ASSUME NEW s \in Callers, CallerStep(s) PROVE OthersType'
  <2>1. attempt[s] \in Attempts /\ H(s) \in Handles
    BY HandleFacts DEF TypeOK, H
  <2>2. CASE Start(s) \/ ProbeOk(s) \/ ProbeInUse(s) \/ ProbeTimeout(s)
             \/ GraceOver(s) \/ KillWaitOver(s)
    BY <1>0, <2>2 DEF Start, ProbeOk, ProbeInUse, ProbeTimeout, GraceOver, KillWaitOver
  <2>3. CASE Spawn(s)
    BY <1>0, <2>1, <2>3 DEF Spawn
  <2>4. CASE PromptfooEnds(s)
    BY <1>0, <2>1, <2>4 DEF PromptfooEnds
  <2> QED  BY <1>1, <2>2, <2>3, <2>4 DEF CallerStep
<1>2. ASSUME NEW h \in Handles,
             ExitEvent(h) \/ DaemonUp(h) \/ DaemonDies(h) \/ DaemonTerminates(h)
      PROVE  OthersType'
  BY <1>0, <1>2 DEF ExitEvent, DaemonUp, DaemonDies, DaemonTerminates, Die
<1>3. ASSUME NEW h \in Handles, Answer(h) \/ Drain(h) PROVE OthersType'
  <2>1. UNCHANGED <<taken, terms, hooks, signal, host>> /\ request' \in {request, FALSE}
    BY <1>3 DEF Answer, Drain
  <2>2. logs' \in [Handles -> 0..PipeCap]
    BY <1>0, <1>3, PipeCapType DEF Answer, Drain
  <2> QED  BY <1>0, <2>1, <2>2
<1>4. CASE Ask \/ SignalComes \/ SignalHandled \/ Exit
  BY <1>0, <1>4 DEF Ask, SignalComes, SignalHandled, TermActive, Exit, TypeOK
<1>5. CASE UNCHANGED vars
  BY <1>0, <1>5 DEF vars
<1> QED  BY <1>1, <1>2, <1>3, <1>4, <1>5 DEF Next, Over

\* A daemon that is not the caller's own, or is dead already, does not change.
LEMMA KillFacts ==
  ASSUME TypeOK, NEW G, Kill(G)
  PROVE  /\ daemon' \in [Handles -> {"none", "starting", "up", "dead"}]
         /\ \A h \in Handles :
              /\ h \notin G => daemon'[h] = daemon[h]
              /\ daemon[h] \in {"none", "dead"} => daemon'[h] = daemon[h]
              /\ h \in G /\ daemon[h] # "none" => daemon'[h] = "dead"
  BY DEF Kill, TypeOK, Alive

\* What keeps CallerOK for every caller but s: its state and its daemons are
\* as they were.
Aside(s) ==
  \A t \in Callers \ {s} :
    /\ pc'[t] = pc[t] /\ attempt'[t] = attempt[t]
    /\ \A n \in Attempts :
         /\ <<t, n>> \in active' <=> <<t, n>> \in active
         /\ daemon'[<<t, n>>] = daemon[<<t, n>>]

LEMMA AsideOK ==
  ASSUME IInv, NEW s \in Callers, Aside(s)
  PROVE  \A t \in Callers \ {s} : CallerOK(t)'
  BY HandleFacts DEF IInv, TypeOK, Aside, CallerOK, H

\* A step that only lets daemons die, wherever the callers are.
LEMMA DeathsOK ==
  ASSUME IInv, TrackedType', UNCHANGED <<pc, attempt, active>>,
         \A h \in Handles : daemon'[h] = daemon[h] \/ (daemon[h] # "none" /\ daemon'[h] = "dead")
  PROVE  \A t \in Callers : CallerOK(t)'
<1> SUFFICES ASSUME NEW t \in Callers PROVE CallerOK(t)'
  OBVIOUS
<1>1. CallerOK(t) /\ attempt[t] \in Attempts
  BY DEF IInv, TypeOK
<1>2. \A n \in Attempts : \/ daemon'[<<t, n>>] = daemon[<<t, n>>]
                          \/ daemon[<<t, n>>] # "none" /\ daemon'[<<t, n>>] = "dead"
  BY HandleFacts
<1> QED  BY <1>1, <1>2 DEF CallerOK, H, InUse, Quiet, Ended

\* A failed start: the caller's daemon is dead and forgotten.
LEMMA AbandonFacts ==
  ASSUME TypeOK, NEW s \in Callers, Abandon(s), daemon[H(s)] # "none",
         UNCHANGED exitSeen
  PROVE  /\ active' \subseteq Handles /\ daemon'[H(s)] = "dead"
         /\ daemon' \in [Handles -> {"none", "starting", "up", "dead"}]
         /\ \A h \in Handles : h # H(s) => /\ daemon'[h] = daemon[h]
                                           /\ h \in active' <=> h \in active
<1>1. H(s) \in Handles
  BY HandleFacts DEF TypeOK, H
<1> QED  BY <1>1, KillFacts DEF Abandon, TypeOK

\* The steps of a caller.
LEMMA CallerInv ==
  ASSUME IInv, NEW s \in Callers, CallerStep(s)
  PROVE  TrackedType' /\ ExitsSeen' /\ \A t \in Callers : CallerOK(t)'
<1>0. /\ TypeOK /\ TrackedType /\ ExitsSeen /\ CallerOK(s) /\ attempt[s] \in Attempts
      /\ H(s) \in Handles /\ \A n \in Attempts : <<s, n>> \in Handles
  BY Types, HandleFacts DEF IInv, TypeOK, H
<1> USE DEF procVars, GoTo, TrackedType, ExitsSeen
<1>1. ASSUME NEW p \in {"port", "refused", "blocked"}, pc' = [pc EXCEPT ![s] = p],
             p = "blocked" => pc[s] = "probing", p # "blocked" => pc[s] = "idle",
             UNCHANGED <<attempt, active, daemon, exitSeen>>
      PROVE  TrackedType' /\ ExitsSeen' /\ \A t \in Callers : CallerOK(t)'
  <2>1. TrackedType' /\ ExitsSeen'
    BY <1>0, <1>1 DEF Quiet, InUse
  <2>2. CallerOK(s)'
    BY <1>0, <1>1 DEF CallerOK, H, Quiet, InUse, Ended
  <2>3. Aside(s)
    BY <1>0, <1>1 DEF Aside
  <2> QED  BY <2>1, <2>2, <2>3, AsideOK
<1>2. CASE Start(s) \/ ProbeOk(s)
  <2>1. \E p \in {"port", "refused", "blocked"} :
          /\ pc' = [pc EXCEPT ![s] = p]
          /\ p = "blocked" => pc[s] = "probing"
          /\ p # "blocked" => pc[s] = "idle"
    BY <1>2 DEF Start, ProbeOk
  <2>2. UNCHANGED <<attempt, active, daemon, exitSeen>>
    BY <1>2 DEF Start, ProbeOk
  <2> QED  BY <1>1, <2>1, <2>2
<1>3. CASE Spawn(s)
  <2>1. /\ pc[s] = "port" /\ pc' = [pc EXCEPT ![s] = "probing"]
        /\ daemon' = [daemon EXCEPT ![H(s)] = "starting"]
        /\ active' = active \cup {H(s)} /\ UNCHANGED <<attempt, exitSeen>>
    BY <1>3 DEF Spawn
  <2>2. daemon[H(s)] = "none"
    BY <1>0, <2>1 DEF CallerOK, Quiet
  <2>3. TrackedType' /\ ExitsSeen'
    BY <1>0, <2>1, <2>2 DEF InUse
  <2>4. \A n \in Attempts : n # attempt[s] => daemon'[<<s, n>>] = daemon[<<s, n>>]
    BY <1>0, <2>1 DEF H
  <2>5. pc'[s] = "probing" /\ H(s)' = H(s) /\ daemon'[H(s)] = "starting" /\ H(s) \in active'
    BY <1>0, <2>1 DEF H
  <2>6. CallerOK(s)'
    BY <1>0, <2>1, <2>4, <2>5 DEF CallerOK, Quiet, InUse, Ended, Attempts
  <2>7. Aside(s)
    BY <1>0, <2>1 DEF Aside, H
  <2> QED  BY <2>3, <2>6, <2>7, AsideOK
<1>4. CASE ProbeInUse(s) \/ ProbeTimeout(s)
  <2>1. pc[s] = "probing" /\ Abandon(s) /\ UNCHANGED exitSeen
    BY <1>4 DEF ProbeInUse, ProbeTimeout
  <2>2. daemon[H(s)] # "none"
    BY <1>0, <2>1 DEF CallerOK, InUse
  <2>3. /\ active' \subseteq Handles /\ daemon'[H(s)] = "dead"
        /\ daemon' \in [Handles -> {"none", "starting", "up", "dead"}]
        /\ \A h \in Handles : h # H(s) => /\ daemon'[h] = daemon[h]
                                          /\ h \in active' <=> h \in active
    BY <1>0, <2>1, <2>2, AbandonFacts
  <2>4. \/ pc' = [pc EXCEPT ![s] = "failed"] /\ attempt' = attempt
        \/ /\ pc' = [pc EXCEPT ![s] = "port"]
           /\ attempt[s] = 1 /\ attempt' = [attempt EXCEPT ![s] = 2]
    <3>1. CASE ProbeInUse(s)
      BY <1>0, <3>1 DEF ProbeInUse, Retry
    <3>2. CASE ProbeTimeout(s)
      BY <3>2 DEF ProbeTimeout
    <3> QED  BY <1>4, <3>1, <3>2
  <2>5. TrackedType'
    BY <1>0, <2>1, <2>3, <2>4 DEF Quiet, Ended, Attempts
  <2>6. ExitsSeen'
    BY <1>0, <2>1, <2>3
  <2>7. Aside(s)
    BY <1>0, <2>3, <2>4, HandleFacts DEF Aside, H
  <2>8. \A n \in Attempts : n # attempt[s] => daemon'[<<s, n>>] = daemon[<<s, n>>]
    BY <1>0, <2>3 DEF H
  <2>9. CASE pc' = [pc EXCEPT ![s] = "failed"] /\ attempt' = attempt
    <3>1. pc'[s] = "failed" /\ attempt'[s] = attempt[s] /\ H(s)' = H(s)
      BY <1>0, <2>9 DEF H
    <3>2. \A n \in Attempts : n > attempt[s] \/ n < attempt[s] => n # attempt[s]
      BY <1>0 DEF Attempts
    <3>3. \A n \in Attempts :
            /\ n > attempt[s] => daemon'[<<s, n>>] = "none"
            /\ n < attempt[s] => daemon'[<<s, n>>] = "dead"
      BY <1>0, <2>8, <3>2 DEF CallerOK
    <3>4. CallerOK(s)'
      BY <2>3, <3>1, <3>3 DEF CallerOK, Quiet, InUse
    <3> QED  BY <2>5, <2>6, <2>7, <3>4, AsideOK
  <2>10. CASE /\ pc' = [pc EXCEPT ![s] = "port"]
              /\ attempt[s] = 1 /\ attempt' = [attempt EXCEPT ![s] = 2]
    <3>1. daemon'[<<s, 1>>] = "dead"
      BY <2>3, <2>10 DEF H
    <3>2. daemon'[<<s, 2>>] = "none"
      BY <1>0, <2>8, <2>10 DEF CallerOK, Attempts
    <3>3. pc'[s] = "port" /\ attempt'[s] = 2
      BY <1>0, <2>10
    <3>4. \A n \in Attempts : ~(n > 2) /\ (n < 2 => n = 1)
      BY DEF Attempts
    <3>5. H(s)' = <<s, 2>>
      BY <3>3 DEF H
    <3>6. CallerOK(s)'
      BY <3>1, <3>2, <3>3, <3>4, <3>5 DEF CallerOK, InUse, Ended
    <3> QED  BY <2>5, <2>6, <2>7, <3>6, AsideOK
  <2> QED  BY <2>4, <2>9, <2>10
<1>5. CASE PromptfooEnds(s)
  <2>1. pc[s] = "blocked" /\ UNCHANGED <<attempt, daemon, exitSeen>>
    BY <1>5 DEF PromptfooEnds
  <2>2. \/ /\ daemon[H(s)] = "dead" /\ active' = active \ {H(s)}
           /\ pc' = [pc EXCEPT ![s] = "done"]
        \/ active' = active /\ pc' = [pc EXCEPT ![s] = "stopping"]
    BY <1>0, <1>5 DEF PromptfooEnds, ActiveAtStop
  <2>3. TrackedType' /\ ExitsSeen'
    BY <1>0, <2>1, <2>2 DEF InUse, Ended
  <2>4. CallerOK(s)'
    BY <1>0, <2>1, <2>2 DEF CallerOK, H, Quiet, InUse, Ended
  <2>5. Aside(s)
    BY <1>0, <2>1, <2>2 DEF Aside, H
  <2> QED  BY <2>3, <2>4, <2>5, AsideOK
<1>6. CASE GraceOver(s)
  <2>1. /\ pc[s] = "stopping" /\ Kill({H(s)}) /\ pc' = [pc EXCEPT ![s] = "killing"]
        /\ UNCHANGED <<attempt, active, exitSeen>>
    BY <1>6 DEF GraceOver
  <2>2. daemon[H(s)] # "none"
    BY <1>0, <2>1 DEF CallerOK, InUse
  <2>3. /\ daemon'[H(s)] = "dead"
        /\ daemon' \in [Handles -> {"none", "starting", "up", "dead"}]
        /\ \A h \in Handles : h # H(s) => daemon'[h] = daemon[h]
    BY <1>0, <2>1, <2>2, KillFacts
  <2>4. TrackedType' /\ ExitsSeen'
    BY <1>0, <2>1, <2>3 DEF Ended
  <2>5. \A n \in Attempts : n # attempt[s] => daemon'[<<s, n>>] = daemon[<<s, n>>]
    BY <1>0, <2>3 DEF H
  <2>6. CallerOK(s)'
    BY <1>0, <2>1, <2>3, <2>5 DEF CallerOK, H, Quiet, InUse, Ended
  <2>7. Aside(s)
    BY <1>0, <2>1, <2>3, HandleFacts DEF Aside, H
  <2> QED  BY <2>4, <2>6, <2>7, AsideOK
<1>7. CASE KillWaitOver(s)
  <2>1. /\ pc[s] = "killing" /\ active' = active \ {H(s)}
        /\ pc' = [pc EXCEPT ![s] = "done"] /\ UNCHANGED <<attempt, daemon, exitSeen>>
    BY <1>7 DEF KillWaitOver
  <2>2. TrackedType' /\ ExitsSeen'
    BY <1>0, <2>1 DEF Ended
  <2>3. CallerOK(s)'
    BY <1>0, <2>1 DEF CallerOK, H, Quiet, InUse, Ended
  <2>4. Aside(s)
    BY <1>0, <2>1 DEF Aside, H
  <2> QED  BY <2>2, <2>3, <2>4, AsideOK
<1> QED  BY <1>2, <1>3, <1>4, <1>5, <1>6, <1>7 DEF CallerStep

\* The steps of the daemons.
LEMMA DaemonInv ==
  ASSUME IInv, NEW h \in Handles,
         \/ ExitEvent(h) \/ DaemonUp(h) \/ DaemonDies(h) \/ DaemonTerminates(h)
         \/ Answer(h) \/ Drain(h)
  PROVE  TrackedType' /\ ExitsSeen' /\ \A t \in Callers : CallerOK(t)'
<1>0. TrackedType /\ ExitsSeen /\ \A t \in Callers : CallerOK(t)
  BY Types DEF IInv
<1> USE DEF procVars, TrackedType, ExitsSeen
<1>1. CASE ExitEvent(h)
  <2>1. /\ daemon[h] = "dead" /\ exitSeen' = exitSeen \cup {h}
        /\ UNCHANGED <<attempt, daemon>>
        /\ \/ UNCHANGED <<pc, active>>
           \/ /\ pc[h[1]] \in {"stopping", "killing"} /\ h = H(h[1])
              /\ pc' = [pc EXCEPT ![h[1]] = "done"] /\ active' = active \ {h}
    BY <1>1 DEF ExitEvent, GoTo
  <2>2. TrackedType' /\ ExitsSeen'
    BY <1>0, <2>1, HandleFacts DEF Ended
  <2>3. CASE UNCHANGED <<pc, active>>
    BY <1>0, <2>1, <2>2, <2>3, DeathsOK
  <2>4. CASE /\ pc[h[1]] \in {"stopping", "killing"} /\ h = H(h[1])
             /\ pc' = [pc EXCEPT ![h[1]] = "done"] /\ active' = active \ {h}
    <3> DEFINE s == h[1]
    <3>1. s \in Callers /\ CallerOK(s) /\ h = H(s)
      BY <1>0, <2>4, HandleFacts
    <3>2. CallerOK(s)'
      BY <1>0, <2>1, <2>4, <3>1 DEF CallerOK, H, Quiet, InUse, Ended
    <3>3. Aside(s)
      BY <1>0, <2>1, <2>4, <3>1 DEF Aside, H
    <3> QED  BY <2>2, <3>1, <3>2, <3>3, AsideOK
  <2> QED  BY <2>1, <2>3, <2>4
<1>2. CASE DaemonUp(h)
  <2>1. /\ daemon[h] = "starting" /\ daemon' = [daemon EXCEPT ![h] = "up"]
        /\ UNCHANGED <<pc, attempt, active, exitSeen>>
    BY <1>2 DEF DaemonUp
  <2>2. TrackedType' /\ ExitsSeen'
    BY <1>0, <2>1
  <2>3. \A g \in Handles : \/ daemon'[g] = daemon[g]
                           \/ daemon[g] = "starting" /\ daemon'[g] = "up"
    BY <1>0, <2>1
  <2>4. ASSUME NEW t \in Callers PROVE CallerOK(t)'
    <3>1. /\ attempt[t] \in Attempts /\ CallerOK(t)
          /\ \A n \in Attempts : \/ daemon'[<<t, n>>] = daemon[<<t, n>>]
                                 \/ /\ daemon[<<t, n>>] = "starting"
                                    /\ daemon'[<<t, n>>] = "up"
      BY <1>0, <2>3, HandleFacts
    <3> QED  BY <2>1, <3>1 DEF CallerOK, H, Quiet, InUse, Ended
  <2> QED  BY <2>2, <2>4
<1>3. CASE DaemonDies(h) \/ DaemonTerminates(h)
  <2>1. /\ Alive(h) /\ daemon' = [daemon EXCEPT ![h] = "dead"]
        /\ UNCHANGED <<pc, attempt, active, exitSeen>>
    BY <1>3 DEF DaemonDies, DaemonTerminates, Die
  <2>2. TrackedType' /\ ExitsSeen'
    BY <1>0, <2>1
  <2>3. \A g \in Handles : \/ daemon'[g] = daemon[g]
                           \/ daemon[g] # "none" /\ daemon'[g] = "dead"
    BY <1>0, <2>1 DEF Alive
  <2> QED  BY <2>1, <2>2, <2>3, DeathsOK
<1>4. CASE Answer(h) \/ Drain(h)
  <2>1. UNCHANGED tracked
    BY <1>4 DEF Answer, Drain, tracked
  <2> QED  BY <1>0, <2>1 DEF tracked, CallerOK, H
<1> QED  BY <1>1, <1>2, <1>3, <1>4

\* The steps of the CLI process around the call.
LEMMA HostInv ==
  ASSUME IInv, Ask \/ SignalComes \/ SignalHandled \/ Exit \/ UNCHANGED vars
  PROVE  TrackedType' /\ ExitsSeen' /\ \A t \in Callers : CallerOK(t)'
<1>0. TypeOK /\ TrackedType /\ ExitsSeen /\ \A t \in Callers : CallerOK(t)
  BY Types DEF IInv
<1> USE DEF procVars, TrackedType, ExitsSeen
<1>1. CASE UNCHANGED tracked
  BY <1>0, <1>1 DEF tracked, CallerOK, H
<1>2. CASE Exit
  <2>1. UNCHANGED <<pc, attempt, active, exitSeen>> /\ (Kill(active) \/ UNCHANGED daemon)
    BY <1>2 DEF Exit
  <2>2. CASE UNCHANGED daemon
    BY <1>1, <2>1, <2>2 DEF tracked
  <2>3. CASE Kill(active)
    <3>1. /\ daemon' \in [Handles -> {"none", "starting", "up", "dead"}]
          /\ \A h \in Handles : \/ daemon'[h] = daemon[h]
                                \/ daemon[h] # "none" /\ daemon'[h] = "dead"
      BY <1>0, <2>3, KillFacts
    <3>2. TrackedType'
      BY <1>0, <2>1, <3>1
    <3>3. ExitsSeen'
      BY <1>0, <2>1, <3>1
    <3> QED  BY <2>1, <3>1, <3>2, <3>3, DeathsOK
  <2> QED  BY <2>1, <2>2, <2>3
<1>3. Ask \/ SignalComes \/ SignalHandled \/ UNCHANGED vars => UNCHANGED tracked
  BY DEF Ask, SignalComes, SignalHandled, vars, tracked
<1> QED  BY <1>1, <1>2, <1>3

LEMMA StepInv == IInv /\ [Next]_vars => IInv'
<1> SUFFICES ASSUME IInv, [Next]_vars PROVE IInv'
  OBVIOUS
<1>1. TrackedType' /\ ExitsSeen' /\ \A t \in Callers : CallerOK(t)'
  BY CallerInv, DaemonInv, HostInv DEF Next, Over
<1>2. OthersType'
  BY OthersKept DEF IInv
<1>3. TypeOK'
  BY <1>1, <1>2 DEF TypeOK, TrackedType, OthersType, Quiet, InUse, Ended
<1> QED  BY <1>1, <1>3 DEF IInv

\* The calls of agent-server-lifecycle.js never leave the invariant.
THEOREM Invariance == Spec => []IInv
  BY InitInv, StepInv, PTL DEF Spec

\* The variables of the daemon's lifecycle (agent-server-lifecycle.js:24-228)
\* keep their types, and the pipes their bound.
THEOREM TypeCorrect == Spec => []TypeOK
<1>1. IInv => TypeOK
  BY DEF IInv
<1> QED  BY Invariance, <1>1, PTL

\* A daemon that lives is its caller's latest, and in ACTIVE_HANDLES.
LEMMA LivesInUse ==
  ASSUME IInv, NEW h \in Handles, Alive(h)
  PROVE  h = H(h[1]) /\ h \in active
<1>1. h[1] \in Callers /\ h[2] \in Attempts /\ h = <<h[1], h[2]>>
  BY HandleFacts
<1>2. CallerOK(h[1]) /\ attempt[h[1]] \in Attempts
      /\ pc[h[1]] \in Quiet \cup InUse \cup Ended
  BY <1>1, Types DEF IInv, TrackedType
<1>3. h[2] = attempt[h[1]]
  BY <1>1, <1>2 DEF CallerOK, Alive, Attempts
<1>4. h = H(h[1])
  BY <1>1, <1>3 DEF H
<1> QED  BY <1>2, <1>4 DEF CallerOK, Alive

\* A daemon that lives is in ACTIVE_HANDLES, where the hooks of
\* agent-server-lifecycle.js:167-192 find it.
THEOREM DaemonsAreTracked == Spec => []LiveDaemonsTracked
<1>1. IInv => LiveDaemonsTracked
  BY LivesInUse DEF LiveDaemonsTracked
<1> QED  BY Invariance, <1>1, PTL

\* docs/design.md:414: one caller, as the CLI is, has one daemon at a time,
\* the retry on another port included.
THEOREM OneCallerOneDaemon ==
  ASSUME NEW c, Callers = {c} PROVE Spec => []OneDaemon
<1>1. IInv => OneDaemon
  <2> SUFFICES ASSUME IInv PROVE OneDaemon
    OBVIOUS
  <2>1. {h \in Handles : Alive(h)} \subseteq {H(c)}
    BY LivesInUse, HandleFacts
  <2>2. IsFiniteSet({H(c)}) /\ Cardinality({H(c)}) = 1
    BY FS_Singleton
  <2>3. Cardinality({h \in Handles : Alive(h)}) <= 1
    BY <2>1, <2>2, FS_Subset
  <2> QED  BY <2>3 DEF OneDaemon
<1> QED  BY Invariance, <1>1, PTL

-----------------------------------------------------------------------------
(* What outlives the CLI *)

LEMMA ToldStep ==
  IInv /\ HooksFirst /\ OrphansAreTold /\ [Next]_vars => HooksFirst' /\ OrphansAreTold'
<1> SUFFICES ASSUME IInv, HooksFirst, OrphansAreTold, [Next]_vars
             PROVE  HooksFirst' /\ OrphansAreTold'
  OBVIOUS
<1> DEFINE NoneBorn == \A h \in Handles : /\ daemon[h] = "none" => daemon'[h] = "none"
                                          /\ Alive(h)' => Alive(h)
<1>0. daemon \in [Handles -> {"none", "starting", "up", "dead"}] /\ active \subseteq Handles
  BY DEF IInv, TypeOK
<1>1. \A h \in Handles : Alive(h) => h \in active /\ hooks
  BY LivesInUse DEF HooksFirst, Alive
<1>2. ASSUME NoneBorn, UNCHANGED <<hooks, host>>, terms \subseteq terms'
      PROVE  HooksFirst' /\ OrphansAreTold'
  BY <1>2 DEF HooksFirst, OrphansAreTold
<1>3. ASSUME NEW G, Kill(G) PROVE NoneBorn
  BY <1>0, <1>3 DEF Kill, Alive
<1>4. UNCHANGED daemon => NoneBorn
  BY DEF Alive
<1>5. ASSUME NEW s \in Callers, CallerStep(s) PROVE HooksFirst' /\ OrphansAreTold'
  <2>1. CASE Spawn(s)
    BY <2>1 DEF Spawn, LoopRuns, HooksFirst, OrphansAreTold
  <2>2. CASE Start(s) \/ ProbeOk(s) \/ PromptfooEnds(s) \/ KillWaitOver(s)
    <3>1. UNCHANGED daemon /\ UNCHANGED <<hooks, host>> /\ terms \subseteq terms'
      BY <2>2 DEF Start, ProbeOk, PromptfooEnds, KillWaitOver, procVars
    <3> QED  BY <1>2, <1>4, <3>1
  <2>3. CASE ProbeInUse(s) \/ ProbeTimeout(s) \/ GraceOver(s)
    <3>1. Kill({H(s)}) /\ UNCHANGED <<hooks, host, terms>>
      BY <2>3 DEF ProbeInUse, ProbeTimeout, GraceOver, Abandon
    <3> QED  BY <1>2, <1>3, <3>1
  <2> QED  BY <1>5, <2>1, <2>2, <2>3 DEF CallerStep
<1>6. ASSUME NEW h \in Handles,
             \/ ExitEvent(h) \/ DaemonUp(h) \/ DaemonDies(h) \/ DaemonTerminates(h)
             \/ Answer(h) \/ Drain(h)
      PROVE  HooksFirst' /\ OrphansAreTold'
  <2>1. UNCHANGED <<hooks, host, terms>>
    BY <1>6 DEF ExitEvent, DaemonUp, DaemonDies, DaemonTerminates, Die, Answer, Drain
  <2>2. \/ UNCHANGED daemon
        \/ Alive(h) /\ \E d \in {"up", "dead"} : daemon' = [daemon EXCEPT ![h] = d]
    BY <1>6 DEF ExitEvent, DaemonUp, DaemonDies, DaemonTerminates, Die, Answer, Drain,
                procVars, Alive
  <2>3. NoneBorn
    BY <1>0, <2>2 DEF Alive
  <2> QED  BY <1>2, <2>1, <2>3
<1>7. CASE Ask \/ SignalComes \/ UNCHANGED vars
  BY <1>2, <1>4, <1>7 DEF Ask, SignalComes, vars, procVars
<1>8. CASE SignalHandled
  BY <1>1, <1>8 DEF SignalHandled, TermActive, procVars, HooksFirst, OrphansAreTold, Alive
<1>9. CASE Exit
  <2>1. UNCHANGED <<hooks, terms>> /\ (Kill(active) \/ (~hooks /\ UNCHANGED daemon))
    BY <1>9 DEF Exit
  <2>2. NoneBorn
    BY <1>3, <1>4, <2>1
  <2>3. HooksFirst'
    BY <2>1, <2>2 DEF HooksFirst
  <2>4. \A h \in Handles : ~Alive(h)'
    <3>1. CASE Kill(active)
      BY <1>0, <1>1, <3>1 DEF Kill, Alive
    <3>2. CASE ~hooks /\ UNCHANGED daemon
      BY <1>1, <3>2 DEF Alive
    <3> QED  BY <2>1, <3>1, <3>2
  <2> QED  BY <2>3, <2>4 DEF OrphansAreTold
<1> QED  BY <1>5, <1>6, <1>7, <1>8, <1>9 DEF Next, Over

\* agent-server-lifecycle.js:167-192: a daemon that outlives the CLI has had its
\* SIGTERM, whatever ended the CLI and in whatever step of a start or a stop.
THEOREM OrphansWereTold == Spec => []OrphansAreTold
<1>1. Init => HooksFirst /\ OrphansAreTold
  BY DEF Init, HooksFirst, OrphansAreTold
<1> QED  BY <1>1, ToldStep, Invariance, PTL DEF Spec
=============================================================================
