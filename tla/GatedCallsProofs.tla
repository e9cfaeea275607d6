--------------------------- MODULE GatedCallsProofs ---------------------------
(***************************************************************************)
(* Proofs about GatedCalls and its two parts.  First the gate, for any     *)
(* finite set of callers, any kinds and any caps; then the calls of the    *)
(* CLI, for any commands, generations and retries; then the two together.  *)
(* The invariant of each part is stated in its module; the safety          *)
(* properties and the refinement follow from it.                           *)
(***************************************************************************)
EXTENDS GatedCalls, FiniteSetTheorems, SequenceTheorems, TLAPS

\* What Head and Tail of a queue are, as the later steps need it.
LEMMA TailFacts ==
  ASSUME NEW S, NEW s \in Seq(S), s # <<>>
  PROVE  /\ Head(s) = s[1] /\ Head(s) \in S
         /\ Len(s) \in Nat /\ Len(s) > 0
         /\ Tail(s) \in Seq(S) /\ Len(Tail(s)) = Len(s) - 1
         /\ \A i \in 1..(Len(s) - 1) : Tail(s)[i] = s[i + 1]
  OBVIOUS

\* What appending one element to a queue does.
LEMMA AppendFacts ==
  ASSUME NEW S, NEW s \in Seq(S), NEW e \in S
  PROVE  /\ Len(s) \in Nat
         /\ Append(s, e) \in Seq(S) /\ Len(Append(s, e)) = Len(s) + 1
         /\ \A i \in 1..Len(s) : Append(s, e)[i] = s[i]
         /\ Append(s, e)[Len(s) + 1] = e
  OBVIOUS

\* The holders of a gate are finitely many.
LEMMA HeldFinite ==
  ASSUME TypeOK, NEW g \in Gates
  PROVE  /\ held[g] \subseteq Callers /\ IsFiniteSet(held[g])
         /\ Cardinality(held[g]) \in Nat
  <1>1. held[g] \in SUBSET Callers
    BY DEF TypeOK
  <1>2. QED
    BY <1>1, CallersFinite, FS_Subset, FS_CardinalityType

LEMMA InitInv == Init => IInv
  <1> SUFFICES ASSUME Init PROVE IInv
    OBVIOUS
  <1>1. TypeOK
    BY DEF Init, TypeOK
  <1>2. Counted
    BY FS_EmptySet, CapType DEF Init, Counted, Gates
  <1>3. QueueOK /\ HeldOK /\ CallerOK
    BY NamesDistinct DEF Init, QueueOK, HeldOK, CallerOK, Gates
  <1>4. NoStrandedWaiter
    BY CapType DEF Init, NoStrandedWaiter
  <1>5. QED
    BY <1>1, <1>2, <1>3, <1>4 DEF IInv

\* A queue that grows by a caller which is not in it stays a queue of
\* distinct callers; used for both kinds of submission.
LEMMA SubmitKeepsDistinct ==
  ASSUME NEW s \in Seq(Callers), NEW c \in Callers,
         \A i \in 1..Len(s) : s[i] # c,
         \A i, j \in 1..Len(s) : s[i] = s[j] => i = j
  PROVE  \A i, j \in 1..Len(Append(s, c)) :
            Append(s, c)[i] = Append(s, c)[j] => i = j
  BY AppendFacts

LEMMA CallApiStep ==
  ASSUME IInv, NEW c \in Callers, CallApi(c)
  PROVE  IInv'
  <1> USE DEF IInv, CallApi, Submit
  <1>0. Global \in Gates /\ pc[c] = "idle"
    BY DEF Gates
  <1>1. TypeOK'
    BY <1>0 DEF TypeOK
  <1>2. Counted'
    BY DEF Counted
  <1>3. HeldOK'
    BY DEF HeldOK
  <1>4. CallerOK'
    BY DEF CallerOK, TypeOK
  <1>5. NoStrandedWaiter'
    <2>1. ASSUME NEW g \in Gates, Cap[g] > 0
          PROVE  (active[g] = Cap[g] \/ Len(queue[g]) <= kicks[g])'
      <3>1. active[g] = Cap[g] \/ Len(queue[g]) <= kicks[g]
        BY <2>1 DEF NoStrandedWaiter
      <3>2. Len(queue'[g]) = IF g = Global THEN Len(queue[g]) + 1 ELSE Len(queue[g])
        BY AppendFacts DEF TypeOK
      <3>3. kicks'[g] = IF g = Global THEN kicks[g] + 1 ELSE kicks[g]
        BY DEF TypeOK
      <3>4. Len(queue[g]) \in Nat /\ kicks[g] \in Nat
        BY DEF TypeOK
      <3>5. QED
        BY <3>1, <3>2, <3>3, <3>4
    <2>2. QED
      BY <2>1 DEF NoStrandedWaiter
  <1>6. QueueOK'
    <2>1. ASSUME NEW g \in Gates
          PROVE  QueueOK!(g)'
      <3>1. CASE g = Global
        <4>1. \A i \in 1..Len(queue[g]) : queue[g][i] # c
          BY <1>0, <3>1 DEF QueueOK
        <4>2. queue'[g] = Append(queue[g], c) /\ queue[g] \in Seq(Callers)
          BY <3>1 DEF TypeOK
        <4>3. \A i \in 1..Len(queue'[g]) : pc'[queue'[g][i]] = "askGlobal"
          <5>1. ASSUME NEW i \in 1..Len(queue'[g])
                PROVE  pc'[queue'[g][i]] = "askGlobal"
            <6>1. CASE i \in 1..Len(queue[g])
              BY <3>1, <4>1, <4>2, <6>1, AppendFacts DEF QueueOK, TypeOK
            <6>2. CASE i = Len(queue[g]) + 1
              BY <4>2, <6>2, AppendFacts DEF TypeOK
            <6>3. QED
              BY <4>2, <5>1, <6>1, <6>2, AppendFacts
          <5>2. QED
            BY <5>1
        <4>4. \A i, j \in 1..Len(queue'[g]) : queue'[g][i] = queue'[g][j] => i = j
          BY <4>1, <4>2, SubmitKeepsDistinct DEF QueueOK
        <4>5. QED
          BY <3>1, <4>3, <4>4
      <3>2. CASE g # Global
        <4>1. queue'[g] = queue[g] /\ \A i \in 1..Len(queue[g]) : queue[g][i] # c
          BY <1>0, <3>2 DEF QueueOK, TypeOK
        <4>2. QED
          BY <3>2, <4>1 DEF QueueOK, TypeOK
      <3>3. QED
        BY <3>1, <3>2
    <2>2. QED
      BY <2>1 DEF QueueOK
  <1>7. QED
    BY <1>1, <1>2, <1>3, <1>4, <1>5, <1>6
LEMMA AskKindStep ==
  ASSUME IInv, NEW c \in Callers, AskKind(c)
  PROVE  IInv'
  <1> DEFINE k == KindOf[c]
  <1> USE DEF IInv, AskKind, Submit
  <1>0. k \in Kinds /\ k \in Gates /\ k # Global /\ pc[c] = "admitted"
    BY NamesDistinct DEF Gates
  <1>1. TypeOK'
    BY <1>0 DEF TypeOK
  <1>2. Counted'
    BY DEF Counted
  <1>3. HeldOK'
    BY DEF HeldOK
  <1>4. CallerOK'
    BY <1>0 DEF CallerOK, TypeOK
  <1>5. NoStrandedWaiter'
    <2>1. ASSUME NEW g \in Gates, Cap[g] > 0
          PROVE  (active[g] = Cap[g] \/ Len(queue[g]) <= kicks[g])'
      <3>1. active[g] = Cap[g] \/ Len(queue[g]) <= kicks[g]
        BY <2>1 DEF NoStrandedWaiter
      <3>2. Len(queue'[g]) = IF g = k THEN Len(queue[g]) + 1 ELSE Len(queue[g])
        BY AppendFacts DEF TypeOK
      <3>3. kicks'[g] = IF g = k THEN kicks[g] + 1 ELSE kicks[g]
        BY DEF TypeOK
      <3>4. Len(queue[g]) \in Nat /\ kicks[g] \in Nat
        BY DEF TypeOK
      <3>5. QED
        BY <3>1, <3>2, <3>3, <3>4
    <2>2. QED
      BY <2>1 DEF NoStrandedWaiter
  <1>6. QueueOK'
    <2>1. ASSUME NEW g \in Gates
          PROVE  QueueOK!(g)'
      <3>1. CASE g = k
        <4>1. \A i \in 1..Len(queue[g]) : queue[g][i] # c
          BY <1>0, <3>1 DEF QueueOK
        <4>2. queue'[g] = Append(queue[g], c) /\ queue[g] \in Seq(Callers)
          BY <3>1 DEF TypeOK
        <4>3. \A i \in 1..Len(queue'[g]) :
                 pc'[queue'[g][i]] = "askKind" /\ KindOf[queue'[g][i]] = g
          <5>1. ASSUME NEW i \in 1..Len(queue'[g])
                PROVE  pc'[queue'[g][i]] = "askKind" /\ KindOf[queue'[g][i]] = g
            <6>1. CASE i \in 1..Len(queue[g])
              BY <1>0, <3>1, <4>1, <4>2, <6>1, AppendFacts DEF QueueOK, TypeOK
            <6>2. CASE i = Len(queue[g]) + 1
              BY <3>1, <4>2, <6>2, AppendFacts DEF TypeOK
            <6>3. QED
              BY <4>2, <5>1, <6>1, <6>2, AppendFacts
          <5>2. QED
            BY <5>1
        <4>4. \A i, j \in 1..Len(queue'[g]) : queue'[g][i] = queue'[g][j] => i = j
          BY <4>1, <4>2, SubmitKeepsDistinct DEF QueueOK
        <4>5. QED
          BY <1>0, <3>1, <4>3, <4>4
      <3>2. CASE g # k
        <4>1. queue'[g] = queue[g] /\ queue[g] \in Seq(Callers)
          BY <3>2 DEF TypeOK
        <4>2. \A d \in Callers : pc[d] # "admitted" => pc'[d] = pc[d]
          BY <1>0 DEF TypeOK
        <4> HIDE DEF AskKind, Submit, k
        <4>3. \A i \in 1..Len(queue[g]) : queue[g][i] \in Callers
          BY <4>1
        <4>4. \A i \in 1..Len(queue[g]) : pc[queue[g][i]] # "admitted"
          BY DEF QueueOK
        <4>5. QED
          BY <4>1, <4>2, <4>3, <4>4 DEF QueueOK
      <3>3. QED
        BY <3>1, <3>2
    <2>2. QED
      BY <2>1 DEF QueueOK
  <1>7. QED
    BY <1>1, <1>2, <1>3, <1>4, <1>5, <1>6

\* A caller that waits in no queue moves without disturbing any queue.
LEMMA MoveOutsideQueues ==
  ASSUME IInv, NEW c \in Callers, NEW s,
         pc[c] \notin {"askGlobal", "askKind"},
         pc' = [pc EXCEPT ![c] = s], UNCHANGED queue
  PROVE  QueueOK'
  <1> USE DEF IInv
  <1>1. ASSUME NEW g \in Gates
        PROVE  \A i \in 1..Len(queue[g]) :
                  queue[g][i] \in Callers /\ queue[g][i] # c
    <2>1. \A i \in 1..Len(queue[g]) : queue[g][i] \in Callers
      BY DEF TypeOK
    <2>2. QED
      BY <2>1 DEF QueueOK
  <1>2. \A d \in Callers : d # c => pc'[d] = pc[d]
    BY DEF TypeOK
  <1>3. QED
    BY <1>1, <1>2 DEF QueueOK

LEMMA EnterDirectlyStep ==
  ASSUME IInv, NEW c \in Callers, EnterDirectly(c)
  PROVE  IInv'
  <1> USE DEF IInv, EnterDirectly
  <1>1. TypeOK'
    BY DEF TypeOK
  <1>2. Counted' /\ HeldOK' /\ NoStrandedWaiter'
    BY DEF Counted, HeldOK, NoStrandedWaiter
  <1>3. CallerOK'
    BY NamesDistinct DEF CallerOK, TypeOK, Gates
  <1>4. QueueOK'
    BY MoveOutsideQueues
  <1>5. QED
    BY <1>1, <1>2, <1>3, <1>4

LEMMA ReadFailsStep ==
  ASSUME IInv, NEW c \in Callers, ReadFails(c)
  PROVE  IInv'
  <1> USE DEF IInv, ReadFails
  <1>1. TypeOK'
    BY DEF TypeOK
  <1>2. Counted' /\ HeldOK' /\ NoStrandedWaiter'
    BY DEF Counted, HeldOK, NoStrandedWaiter
  <1>3. CallerOK'
    BY DEF CallerOK, TypeOK
  <1>4. QueueOK'
    BY MoveOutsideQueues
  <1>5. QED
    BY <1>1, <1>2, <1>3, <1>4

LEMMA ReleaseStep ==
  ASSUME IInv, NEW c \in Callers, Release(c)
  PROVE  IInv'
  <1> USE DEF IInv, Release
  <1>1. TypeOK'
    BY DEF TypeOK
  <1>2. Counted' /\ NoStrandedWaiter'
    BY DEF Counted, NoStrandedWaiter
  <1>3. HeldOK'
    BY DEF HeldOK
  <1>4. CallerOK'
    BY DEF CallerOK, TypeOK, Gates
  <1>5. QueueOK'
    BY MoveOutsideQueues
  <1>6. QED
    BY <1>1, <1>2, <1>3, <1>4, <1>5
\* Starting the head of a queue: the head waits at that gate, holds no slot of
\* it, is in no queue afterwards, and every queue stays well formed.
LEMMA StartHeadFacts ==
  ASSUME IInv, NEW g \in Gates, queue[g] # <<>>, StartHead(g)
  PROVE  LET h == Head(queue[g]) IN
         /\ h \in Callers /\ h \notin held[g]
         /\ pc[h] = IF g = Global THEN "askGlobal" ELSE "askKind"
         /\ g # Global => KindOf[h] = g
         /\ QueueOK'
         /\ queue' \in [Gates -> Seq(Callers)]
         /\ Len(queue[g]) \in Nat /\ Len(queue'[g]) = Len(queue[g]) - 1
         /\ \A x \in Gates : x # g => queue'[x] = queue[x]
         /\ pc' \in [Callers -> {"idle", "askGlobal", "admitted", "askKind",
                                 "working", "failed"}]
         /\ \A d \in Callers : pc'[d] = IF d # h THEN pc[d]
                                        ELSE IF g = Global THEN "admitted"
                                        ELSE "working"
  <1> DEFINE h == Head(queue[g])
  <1> USE DEF IInv, StartHead
  <1>1. /\ queue[g] \in Seq(Callers) /\ h = queue[g][1] /\ h \in Callers
        /\ Len(queue[g]) \in Nat /\ Len(queue[g]) > 0
        /\ Tail(queue[g]) \in Seq(Callers)
        /\ Len(Tail(queue[g])) = Len(queue[g]) - 1
        /\ \A i \in 1..(Len(queue[g]) - 1) : Tail(queue[g])[i] = queue[g][i + 1]
    BY TailFacts DEF TypeOK
  <1>2. /\ pc[h] = IF g = Global THEN "askGlobal" ELSE "askKind"
        /\ g # Global => KindOf[h] = g
    BY <1>1 DEF QueueOK
  <1>3. h \notin held[g]
    <2>1. CASE g = Global
      BY <1>1, <1>2, <2>1 DEF CallerOK
    <2>2. CASE g # Global
      BY <1>1, <1>2, <2>2 DEF CallerOK, Gates
    <2>3. QED
      BY <2>1, <2>2
  <1>4. /\ queue' \in [Gates -> Seq(Callers)]
        /\ queue'[g] = Tail(queue[g])
        /\ \A x \in Gates : x # g => queue'[x] = queue[x]
    BY <1>1 DEF TypeOK
  <1>5. /\ pc' \in [Callers -> {"idle", "askGlobal", "admitted", "askKind",
                                 "working", "failed"}]
        /\ \A d \in Callers : pc'[d] = IF d # h THEN pc[d]
                                        ELSE IF g = Global THEN "admitted"
                                        ELSE "working"
    BY <1>1 DEF TypeOK
  <1>6. QueueOK'
    <2>1. ASSUME NEW x \in Gates
          PROVE  QueueOK!(x)'
      <3>1. CASE x = g
        <4>1. \A i \in 1..Len(queue'[g]) :
                 /\ i \in 1..(Len(queue[g]) - 1) /\ i + 1 \in 1..Len(queue[g])
                 /\ queue'[g][i] = queue[g][i + 1]
                 /\ queue[g][i + 1] \in Callers
          BY <1>1, <1>4
        <4>2. \A i \in 1..Len(queue'[g]) : queue'[g][i] # h
          BY <1>1, <4>1 DEF QueueOK
        <4>3. \A i \in 1..Len(queue'[g]) :
                 IF g = Global THEN pc'[queue'[g][i]] = "askGlobal"
                 ELSE pc'[queue'[g][i]] = "askKind" /\ KindOf[queue'[g][i]] = g
          BY <1>5, <4>1, <4>2 DEF QueueOK
        <4>4. \A i, j \in 1..Len(queue'[g]) : queue'[g][i] = queue'[g][j] => i = j
          BY <4>1 DEF QueueOK
        <4>5. QED
          BY <3>1, <4>3, <4>4
      <3>2. CASE x # g
        <4>1. \A i \in 1..Len(queue[x]) :
                 queue[x][i] \in Callers /\ queue[x][i] # h
          BY <1>2, <3>2 DEF QueueOK, TypeOK
        <4>2. QED
          BY <1>4, <1>5, <3>2, <4>1 DEF QueueOK
      <3>3. QED
        BY <3>1, <3>2
    <2>2. QED
      BY <2>1 DEF QueueOK
  <1>7. QED
    BY <1>1, <1>2, <1>3, <1>4, <1>5, <1>6
LEMMA HeadIsCaller ==
  ASSUME IInv, NEW g \in Gates, queue[g] # <<>>
  PROVE  Head(queue[g]) \in Callers
  BY TailFacts DEF IInv, TypeOK

LEMMA KickStep ==
  ASSUME IInv, NEW g \in Gates, Kick(g)
  PROVE  IInv'
  <1> USE DEF IInv
  <1>0. /\ kicks[g] \in Nat /\ kicks[g] > 0 /\ kicks' = [kicks EXCEPT ![g] = @ - 1]
        /\ kicks' \in [Gates -> Nat] /\ Cap[g] \in Nat /\ active[g] \in Nat
        /\ settled' = settled /\ config' = config
    <2>1. /\ kicks[g] > 0 /\ kicks' = [kicks EXCEPT ![g] = @ - 1]
          /\ settled' = settled /\ config' = config
      BY DEF Kick
    <2>2. kicks[g] \in Nat /\ active[g] \in Nat /\ kicks \in [Gates -> Nat]
      BY DEF TypeOK
    <2>3. kicks[g] - 1 \in Nat
      BY <2>1, <2>2
    <2>4. QED
      BY <2>1, <2>2, <2>3, CapType
  <1>1. CASE ~KickStarts(g)
    <2>1. UNCHANGED <<queue, pc, active, held>>
      BY <1>1 DEF Kick
    <2>2. TypeOK' /\ Counted' /\ HeldOK' /\ CallerOK' /\ QueueOK'
      BY <1>0, <2>1 DEF TypeOK, Counted, HeldOK, CallerOK, QueueOK
    <2>3. ASSUME NEW x \in Gates, Cap[x] > 0
          PROVE  active[x] = Cap[x] \/ Len(queue[x]) <= kicks'[x]
      <3>1. CASE x # g
        BY <1>0, <2>3, <3>1 DEF NoStrandedWaiter, TypeOK
      <3>2. CASE x = g /\ queue[g] = <<>>
        BY <1>0, <3>2, EmptySeq DEF TypeOK
      <3>3. CASE x = g /\ queue[g] # <<>>
        BY <1>0, <1>1, <3>3 DEF KickStarts, Counted
      <3>4. QED
        BY <3>1, <3>2, <3>3
    <2>4. NoStrandedWaiter'
      BY <2>1, <2>3 DEF NoStrandedWaiter
    <2>5. QED
      BY <2>2, <2>4
  <1>2. CASE KickStarts(g)
    <2>0. PICK h \in Callers : h = Head(queue[g])
      BY <1>2, HeadIsCaller DEF KickStarts
    <2>1. /\ queue[g] # <<>> /\ active[g] < Cap[g] /\ StartHead(g)
          /\ active' = [active EXCEPT ![g] = @ + 1]
          /\ held' = [held EXCEPT ![g] = @ \cup {h}]
      BY <1>2, <2>0 DEF Kick, KickStarts
    <2>2. /\ h \in Callers /\ h \notin held[g]
          /\ pc[h] = IF g = Global THEN "askGlobal" ELSE "askKind"
          /\ g # Global => KindOf[h] = g
          /\ QueueOK' /\ queue' \in [Gates -> Seq(Callers)]
          /\ Len(queue[g]) \in Nat /\ Len(queue'[g]) = Len(queue[g]) - 1
          /\ \A x \in Gates : x # g => queue'[x] = queue[x]
          /\ pc' \in [Callers -> {"idle", "askGlobal", "admitted", "askKind",
                                   "working", "failed"}]
          /\ \A d \in Callers : pc'[d] = IF d # h THEN pc[d]
                                          ELSE IF g = Global THEN "admitted"
                                          ELSE "working"
      BY <2>0, <2>1, StartHeadFacts
    <2>3. TypeOK'
      <3>1. active' \in [Gates -> Nat]
        BY <1>0, <2>1 DEF TypeOK
      <3>2. held' \in [Gates -> SUBSET Callers]
        BY <2>1, <2>2 DEF TypeOK
      <3>3. QED
        BY <1>0, <2>2, <3>1, <3>2 DEF TypeOK
    <2>4. Counted'
      <3>1. ASSUME NEW x \in Gates
            PROVE  active'[x] = Cardinality(held'[x]) /\ active'[x] <= Cap[x]
        <4>1. CASE x = g
          <5>1. Cardinality(held'[g]) = Cardinality(held[g]) + 1
            BY <2>1, <2>2, HeldFinite, FS_AddElement DEF TypeOK
          <5>2. QED
            BY <1>0, <2>1, <4>1, <5>1 DEF Counted, TypeOK
        <4>2. CASE x # g
          BY <2>1, <4>2 DEF Counted, TypeOK
        <4>3. QED
          BY <4>1, <4>2
      <3>2. QED
        BY <3>1 DEF Counted
    <2>5. HeldOK'
      BY <1>0, <2>1, <2>2, NamesDistinct DEF HeldOK, TypeOK, Gates
    <2>6. CallerOK'
      <3>1. \A x \in Gates, d \in Callers :
               d \in held'[x] <=> d \in held[x] \/ (x = g /\ d = h)
        BY <2>1 DEF TypeOK
      <3>2. h \notin settled[g]
        BY <2>2 DEF HeldOK
      <3>3. ASSUME NEW d \in Callers, d # h
            PROVE  CallerOK!(d)'
        <4>1. pc'[d] = pc[d] /\ CallerOK!(d)
          BY <2>2, <3>3 DEF CallerOK
        <4>2. \A x \in Gates : /\ d \in held'[x] <=> d \in held[x]
                               /\ d \in settled'[x] <=> d \in settled[x]
          BY <1>0, <3>1, <3>3
        <4>3. Global \in Gates /\ Kinds \subseteq Gates
          BY DEF Gates
        <4>4. QED
          BY <4>1, <4>2, <4>3
      <3>4. CallerOK!(h)'
        <4>1. CASE g = Global
          <5>1. pc'[h] = "admitted" /\ pc[h] = "askGlobal"
            BY <2>2, <4>1
          <5>2. h \in held'[Global] /\ h \notin settled'[Global]
            BY <1>0, <3>1, <3>2, <4>1
          <5>3. \A k \in Kinds : h \notin held'[k]
            BY <2>2, <3>1, <4>1, <5>1, NamesDistinct DEF CallerOK, Gates
          <5>4. QED
            BY <5>1, <5>2, <5>3
        <4>2. CASE g # Global
          <5>1. pc'[h] = "working" /\ pc[h] = "askKind" /\ KindOf[h] = g
            BY <2>2, <4>2
          <5>2. h \in held'[Global] /\ h \notin settled'[Global]
            BY <1>0, <2>2, <3>1, <5>1 DEF CallerOK, Gates
          <5>3. h \in held'[g] /\ h \notin settled'[g]
            BY <1>0, <3>1, <3>2
          <5>4. QED
            BY <5>1, <5>2, <5>3
        <4>3. QED
          BY <4>1, <4>2
      <3>5. QED
        BY <2>2, <3>3, <3>4 DEF CallerOK
    <2>7. NoStrandedWaiter'
      <3>1. ASSUME NEW x \in Gates, Cap[x] > 0
            PROVE  active'[x] = Cap[x] \/ Len(queue'[x]) <= kicks'[x]
        <4>1. CASE x = g
          <5>1. Len(queue[g]) <= kicks[g]
            BY <2>1, <3>1, <4>1, <1>0 DEF NoStrandedWaiter
          <5>2. QED
            BY <1>0, <2>2, <4>1, <5>1 DEF TypeOK
        <4>2. CASE x # g
          BY <1>0, <2>1, <2>2, <3>1, <4>2 DEF NoStrandedWaiter, TypeOK
        <4>3. QED
          BY <4>1, <4>2
      <3>2. QED
        BY <3>1 DEF NoStrandedWaiter
    <2>8. QED
      BY <2>2, <2>3, <2>4, <2>5, <2>6, <2>7
  <1>3. QED
    BY <1>1, <1>2

LEMMA TaskEndedStep ==
  ASSUME IInv, NEW g \in Gates, NEW c \in Callers, TaskEnded(g, c)
  PROVE  IInv'
  <1> USE DEF IInv
  <1>0. /\ c \in settled[g] /\ c \in held[g]
        /\ settled' = [settled EXCEPT ![g] = @ \ {c}]
        /\ kicks' = kicks /\ config' = config
        /\ active[g] \in Nat /\ active[g] = Cardinality(held[g]) /\ active[g] > 0
    <2>1. c \in settled[g] /\ c \in held[g]
      BY DEF TaskEnded, HeldOK
    <2>2. Cardinality(held[g]) \in Nat /\ Cardinality(held[g]) # 0
      BY <2>1, HeldFinite, FS_EmptySet
    <2>3. QED
      BY <2>1, <2>2 DEF TaskEnded, Counted, TypeOK
  <1>1. /\ settled' \in [Gates -> SUBSET Callers]
        /\ \A x \in Gates, d \in Callers :
              d \in settled'[x] <=> d \in settled[x] /\ ~(x = g /\ d = c)
    BY <1>0 DEF TypeOK
  <1>2. \* where the caller of the ended task may be
        /\ g = Global => pc[c] \in {"idle", "failed"}
        /\ g # Global => /\ pc[c] \in {"idle", "working"}
                         /\ pc[c] = "working" => ~(KindOf[c] = g /\ Cap[g] > 0)
    BY <1>0 DEF CallerOK, TypeOK, Gates
  <1>3. CASE queue[g] = <<>>
    <2>1. /\ active' = [active EXCEPT ![g] = @ - 1]
          /\ held' = [held EXCEPT ![g] = @ \ {c}]
          /\ queue' = queue /\ pc' = pc
      BY <1>3 DEF TaskEnded
    <2>2. TypeOK'
      BY <1>0, <1>1, <2>1 DEF TypeOK
    <2>3. Counted'
      <3>1. ASSUME NEW x \in Gates
            PROVE  active'[x] = Cardinality(held'[x]) /\ active'[x] <= Cap[x]
        <4>1. CASE x = g
          <5>1. Cardinality(held'[g]) = Cardinality(held[g]) - 1
            BY <1>0, <2>1, HeldFinite, FS_RemoveElement DEF TypeOK
          <5>2. active'[g] = active[g] - 1 /\ active[g] <= Cap[g] /\ Cap[g] \in Nat
            BY <2>1, CapType DEF Counted, TypeOK
          <5>3. QED
            BY <1>0, <4>1, <5>1, <5>2
        <4>2. CASE x # g
          BY <2>1, <4>2 DEF Counted, TypeOK
        <4>3. QED
          BY <4>1, <4>2
      <3>2. QED
        BY <3>1 DEF Counted
    <2>4. HeldOK'
      BY <1>1, <2>1 DEF HeldOK, TypeOK, Gates
    <2>5. CallerOK'
      BY <1>1, <1>2, <2>1, NamesDistinct DEF CallerOK, TypeOK, Gates
    <2>6. QueueOK'
      BY <2>1 DEF QueueOK
    <2>7. NoStrandedWaiter'
      BY <1>0, <1>3, <2>1, EmptySeq DEF NoStrandedWaiter, TypeOK
    <2>8. QED
      BY <2>2, <2>3, <2>4, <2>5, <2>6, <2>7
  <1>4. CASE queue[g] # <<>>
    <2>0. PICK h \in Callers : h = Head(queue[g])
      BY <1>4, HeadIsCaller
    <2>1. /\ StartHead(g) /\ active' = active
          /\ held' = [held EXCEPT ![g] = (@ \ {c}) \cup {h}]
      BY <1>4, <2>0 DEF TaskEnded
    <2>2. /\ h \in Callers /\ h \notin held[g]
          /\ pc[h] = IF g = Global THEN "askGlobal" ELSE "askKind"
          /\ g # Global => KindOf[h] = g
          /\ QueueOK' /\ queue' \in [Gates -> Seq(Callers)]
          /\ Len(queue[g]) \in Nat /\ Len(queue'[g]) = Len(queue[g]) - 1
          /\ \A x \in Gates : x # g => queue'[x] = queue[x]
          /\ pc' \in [Callers -> {"idle", "askGlobal", "admitted", "askKind",
                                   "working", "failed"}]
          /\ \A d \in Callers : pc'[d] = IF d # h THEN pc[d]
                                          ELSE IF g = Global THEN "admitted"
                                          ELSE "working"
      BY <1>4, <2>0, <2>1, StartHeadFacts
    <2>3. TypeOK'
      <3>1. held' \in [Gates -> SUBSET Callers]
        BY <2>0, <2>1 DEF TypeOK
      <3>2. settled' \in [Gates -> SUBSET Callers] /\ UNCHANGED <<kicks, config, active>>
        BY <1>0, <1>1, <2>1
      <3>3. QED
        BY <2>2, <3>1, <3>2 DEF TypeOK
    <2>4. Counted'
      <3>1. Cardinality(held'[g]) = Cardinality(held[g])
        <4>1. /\ IsFiniteSet(held[g] \ {c})
              /\ Cardinality(held[g] \ {c}) = Cardinality(held[g]) - 1
          BY <1>0, HeldFinite, FS_RemoveElement
        <4>2. Cardinality((held[g] \ {c}) \cup {h}) = Cardinality(held[g] \ {c}) + 1
          BY <2>2, <4>1, FS_AddElement
        <4>3. QED
          BY <1>0, <2>1, <4>1, <4>2 DEF TypeOK
      <3>2. QED
        BY <2>1, <3>1 DEF Counted, TypeOK
    <2>5. \A x \in Gates, d \in Callers :
             d \in held'[x] <=> \/ d \in held[x] /\ ~(x = g /\ d = c)
                                \/ x = g /\ d = h
      BY <2>1 DEF TypeOK
    <2>6. HeldOK'
      <3>1. \A x \in Gates : held'[x] \subseteq Callers
        BY <2>3 DEF TypeOK
      <3>2. \A x \in Gates : settled'[x] \subseteq held'[x]
        BY <1>1, <2>5 DEF HeldOK, TypeOK
      <3>3. QED
        BY <2>2, <2>5, <3>1, <3>2, NamesDistinct DEF HeldOK, Gates
    <2>7. CallerOK'
      <3>2. h \notin settled[g] /\ h # c
        BY <1>0, <2>2 DEF HeldOK
      <3>3. ASSUME NEW d \in Callers, d # h
            PROVE  CallerOK!(d)'
        <4>1. pc'[d] = pc[d] /\ CallerOK!(d)
          BY <2>2, <3>3 DEF CallerOK
        <4>2. Global \in Gates /\ Kinds \subseteq Gates
          BY DEF Gates
        <4>3. CASE d # c
          <5>1. \A x \in Gates : /\ d \in held'[x] <=> d \in held[x]
                                 /\ d \in settled'[x] <=> d \in settled[x]
            BY <1>1, <2>5, <3>3, <4>3
          <5>2. QED
            BY <4>1, <4>2, <5>1
        <4>4. CASE d = c
          <5>1. \A x \in Gates :
                   /\ d \in held'[x] <=> d \in held[x] /\ x # g
                   /\ d \in settled'[x] <=> d \in settled[x] /\ x # g
            BY <1>1, <2>5, <3>3, <4>4
          <5>2. QED
            BY <1>2, <4>1, <4>2, <4>4, <5>1
        <4>5. QED
          BY <4>3, <4>4
      <3>4. CallerOK!(h)'
        <4>1. CASE g = Global
          <5>1. pc'[h] = "admitted" /\ pc[h] = "askGlobal"
            BY <2>2, <4>1
          <5>2. h \in held'[Global] /\ h \notin settled'[Global]
            BY <1>1, <2>2, <2>5, <3>2, <4>1
          <5>3. \A k \in Kinds : h \notin held'[k]
            BY <2>2, <2>5, <4>1, <5>1, NamesDistinct DEF CallerOK, Gates
          <5>4. QED
            BY <5>1, <5>2, <5>3
        <4>2. CASE g # Global
          <5>1. pc'[h] = "working" /\ pc[h] = "askKind" /\ KindOf[h] = g
            BY <2>2, <4>2
          <5>2. h \in held'[Global] /\ h \notin settled'[Global]
            BY <1>1, <2>2, <2>5, <3>2, <4>2, <5>1 DEF CallerOK, Gates
          <5>3. h \in held'[g] /\ h \notin settled'[g]
            BY <1>1, <2>2, <2>5, <3>2
          <5>4. QED
            BY <5>1, <5>2, <5>3
        <4>3. QED
          BY <4>1, <4>2
      <3>5. QED
        BY <2>2, <3>3, <3>4 DEF CallerOK
    <2>8. NoStrandedWaiter'
      <3>1. ASSUME NEW x \in Gates, Cap[x] > 0
            PROVE  active'[x] = Cap[x] \/ Len(queue'[x]) <= kicks'[x]
        <4>1. active[x] = Cap[x] \/ Len(queue[x]) <= kicks[x]
          BY <3>1 DEF NoStrandedWaiter
        <4>2. Len(queue[x]) \in Nat /\ kicks[x] \in Nat
          BY DEF TypeOK
        <4>3. Len(queue'[x]) = IF x = g THEN Len(queue[x]) - 1 ELSE Len(queue[x])
          BY <2>2
        <4>4. QED
          BY <1>0, <2>1, <4>1, <4>2, <4>3
      <3>2. QED
        BY <3>1 DEF NoStrandedWaiter
    <2>9. QED
      BY <2>2, <2>3, <2>4, <2>6, <2>7, <2>8
  <1>5. QED
    BY <1>3, <1>4
LEMMA StepInv == IInv /\ [Next]_vars => IInv'
  <1> SUFFICES ASSUME IInv, [Next]_vars PROVE IInv'
    OBVIOUS
  <1>1. ASSUME NEW c \in Callers,
               CallApi(c) \/ EnterDirectly(c) \/ AskKind(c) \/ ReadFails(c) \/ Release(c)
        PROVE  IInv'
    BY <1>1, CallApiStep, EnterDirectlyStep, AskKindStep, ReadFailsStep, ReleaseStep
  <1>2. ASSUME NEW g \in Gates, Kick(g) \/ \E c \in Callers : TaskEnded(g, c)
        PROVE  IInv'
    BY <1>2, KickStep, TaskEndedStep
  <1>3. CASE UNCHANGED vars
    BY <1>3 DEF vars, IInv, TypeOK, Counted, QueueOK, HeldOK, CallerOK,
                NoStrandedWaiter
  <1>4. QED
    BY <1>1, <1>2, <1>3 DEF Next, Starved

\* The invariant holds in every reachable state.
THEOREM Invariance == Spec => []IInv
  <1>1. Init => IInv
    BY InitInv
  <1>2. IInv /\ [Next]_vars => IInv'
    BY StepInv
  <1>3. QED
    BY <1>1, <1>2, PTL DEF Spec

\* The executing callers of a gate are among its unsettled holders, so there
\* are no more of them than the gate's activeCount.
LEMMA WorkingBounded ==
  ASSUME IInv
  PROVE  /\ IsFiniteSet(Working)
         /\ Cardinality(Working) <= active[Global]
         /\ \A k \in Kinds : Cap[k] > 0 => Cardinality(WorkingOf(k)) <= active[k]
  <1> USE DEF IInv
  <1>1. Working \subseteq held[Global] /\ Global \in Gates
    BY DEF Working, CallerOK, Gates
  <1>2. IsFiniteSet(Working) /\ Cardinality(Working) <= active[Global]
    BY <1>1, HeldFinite, FS_Subset DEF Counted
  <1>3. ASSUME NEW k \in Kinds, Cap[k] > 0
        PROVE  Cardinality(WorkingOf(k)) <= active[k]
    <2>1. WorkingOf(k) \subseteq held[k] /\ k \in Gates
      BY <1>3 DEF WorkingOf, Working, CallerOK, Gates
    <2>2. QED
      BY <2>1, HeldFinite, FS_Subset DEF Counted
  <1>4. QED
    BY <1>2, <1>3

LEMMA InvImpliesCaps == IInv => CapsRespected
  <1> SUFFICES ASSUME IInv PROVE CapsRespected
    OBVIOUS
  <1>1. \A g \in Gates : active[g] <= Cap[g] /\ active[g] \in Nat /\ Cap[g] \in Nat
    BY CapType DEF IInv, Counted, TypeOK
  <1>2. Cardinality(Working) \in Nat
    BY WorkingBounded, FS_CardinalityType
  <1>3. Cardinality(Working) <= Cap[Global]
    BY <1>1, <1>2, WorkingBounded DEF Gates
  <1>4. ASSUME NEW k \in Kinds, Cap[k] > 0
        PROVE  Cardinality(WorkingOf(k)) <= Cap[k]
    <2>1. Cardinality(WorkingOf(k)) \in Nat
      BY WorkingBounded, FS_Subset, FS_CardinalityType DEF WorkingOf
    <2>2. QED
      BY <1>1, <1>4, <2>1, WorkingBounded DEF Gates
  <1>5. QED
    BY <1>3, <1>4 DEF CapsRespected

\* Typing, caps, no stranded waiter, and the nesting of the per-kind slots in
\* the global ones, for every number of callers and every cap.
THEOREM GateSafety ==
  Spec => [](TypeOK /\ CapsRespected /\ NoStrandedWaiter /\ KindInsideGlobal)
  <1>1. IInv => KindInsideGlobal
    BY DEF IInv, TypeOK, CallerOK, KindInsideGlobal, Gates
  <1>2. IInv => TypeOK /\ CapsRespected /\ NoStrandedWaiter /\ KindInsideGlobal
    BY <1>1, InvImpliesCaps DEF IInv
  <1>3. QED
    BY <1>2, Invariance, PTL

\* Every global slot has an owner that will give it back, or was lost to a
\* failed read of eval-tiers.toml.
THEOREM SlotOwnership == Spec => []SlotHasOwner
  <1>1. IInv => SlotHasOwner
    BY DEF IInv, TypeOK, CallerOK, SlotHasOwner, Gates
  <1>2. QED
    BY <1>1, Invariance, PTL

-----------------------------------------------------------------------------
(* No deadlock of the nested gates *)

\* A caller stays in a queue to which another is appended.
LEMMA SubmitQueues ==
  ASSUME TypeOK, NEW g \in Gates, NEW c \in Callers,
         queue' = [queue EXCEPT ![g] = Append(@, c)]
  PROVE  /\ Queued(g, c)'
         /\ \A x \in Gates, d \in Callers : Queued(x, d) => Queued(x, d)'
  <1>1. /\ queue[g] \in Seq(Callers)
        /\ queue'[g] = Append(queue[g], c)
        /\ \A x \in Gates \ {g} : queue'[x] = queue[x]
    BY DEF TypeOK
  <1>2. /\ Len(queue[g]) \in Nat /\ Len(queue'[g]) = Len(queue[g]) + 1
        /\ \A i \in 1..Len(queue[g]) : queue'[g][i] = queue[g][i]
        /\ queue'[g][Len(queue[g]) + 1] = c
    BY <1>1, AppendFacts
  <1>3. Queued(g, c)'
    BY <1>2 DEF Queued
  <1>4. ASSUME NEW x \in Gates, NEW d \in Callers, Queued(x, d) PROVE Queued(x, d)'
    <2>1. PICK i \in 1..Len(queue[x]) : queue[x][i] = d
      BY <1>4 DEF Queued
    <2>2. CASE x = g
      <3>1. i \in 1..Len(queue'[x]) /\ queue'[x][i] = d
        BY <1>2, <2>1, <2>2
      <3>2. QED
        BY <3>1 DEF Queued
    <2>3. CASE x # g
      BY <1>1, <2>1, <2>3 DEF Queued
    <2>4. QED
      BY <2>2, <2>3
  <1>5. QED
    BY <1>3, <1>4

\* Only its head leaves a queue, and is let in.
LEMMA StartQueues ==
  ASSUME IInv, NEW g \in Gates, queue[g] # <<>>, StartHead(g), WaitersQueued
  PROVE  WaitersQueued'
  <1> DEFINE h == Head(queue[g])
  <1>1. /\ queue[g] \in Seq(Callers) /\ h \in Callers /\ h = queue[g][1]
        /\ Len(queue[g]) \in Nat /\ Len(Tail(queue[g])) = Len(queue[g]) - 1
        /\ \A i \in 1..(Len(queue[g]) - 1) : Tail(queue[g])[i] = queue[g][i + 1]
    BY TailFacts DEF IInv, TypeOK
  <1>2. /\ queue'[g] = Tail(queue[g]) /\ \A x \in Gates \ {g} : queue'[x] = queue[x]
        /\ pc'[h] \in {"admitted", "working"}
        /\ \A d \in Callers \ {h} : pc'[d] = pc[d]
    BY <1>1 DEF StartHead, IInv, TypeOK
  <1>3. ASSUME NEW x \in Gates, NEW d \in Callers \ {h}, Queued(x, d) PROVE Queued(x, d)'
    <2>1. PICK i \in 1..Len(queue[x]) : queue[x][i] = d
      BY <1>3 DEF Queued
    <2>2. CASE x = g
      <3>1. i # 1
        BY <1>1, <2>1, <2>2
      <3>2. i - 1 \in 1..(Len(queue[g]) - 1) /\ (i - 1) + 1 = i
        BY <1>1, <2>1, <2>2, <3>1
      <3>3. Tail(queue[g])[i - 1] = d
        BY <1>1, <2>1, <2>2, <3>2
      <3>4. i - 1 \in 1..Len(queue'[x]) /\ queue'[x][i - 1] = d
        BY <1>1, <1>2, <2>2, <3>2, <3>3
      <3>5. QED
        BY <3>4 DEF Queued
    <2>3. CASE x # g
      BY <1>2, <2>1, <2>3 DEF Queued
    <2>4. QED
      BY <2>2, <2>3
  <1>4. ASSUME NEW d \in Callers
        PROVE  /\ pc'[d] = "askGlobal" => Queued(Global, d)'
               /\ pc'[d] = "askKind" => Queued(KindOf[d], d)'
    <2>1. CASE d = h
      BY <1>2, <2>1
    <2>2. CASE d # h
      <3>1. pc[d] = "askKind" => KindOf[d] \in Gates
        BY DEF IInv, CallerOK, Gates
      <3>2. QED
        BY <1>2, <1>3, <2>2, <3>1 DEF WaitersQueued, Gates
    <2>3. QED
      BY <2>1, <2>2
  <1>5. QED
    BY <1>4 DEF WaitersQueued

LEMMA QueuedStep == IInv /\ WaitersQueued /\ [Next]_vars => WaitersQueued'
  <1> SUFFICES ASSUME IInv, WaitersQueued, [Next]_vars PROVE WaitersQueued'
    OBVIOUS
  <1>1. TypeOK /\ Global \in Gates
    BY DEF IInv, Gates
  <1>2. ASSUME NEW c \in Callers, NEW g \in Gates, Submit(g, c),
               \/ g = Global /\ pc' = [pc EXCEPT ![c] = "askGlobal"]
               \/ g = KindOf[c] /\ pc' = [pc EXCEPT ![c] = "askKind"]
        PROVE  WaitersQueued'
    <2>1. /\ Queued(g, c)'
          /\ \A x \in Gates, d \in Callers : Queued(x, d) => Queued(x, d)'
      BY <1>1, <1>2, SubmitQueues DEF Submit
    <2>2. ASSUME NEW d \in Callers
          PROVE  /\ pc'[d] = "askGlobal" => Queued(Global, d)'
                 /\ pc'[d] = "askKind" => Queued(KindOf[d], d)'
      <3>1. CASE d = c
        BY <1>1, <1>2, <2>1, <3>1 DEF TypeOK
      <3>2. CASE d # c
        <4>1. pc'[d] = pc[d]
          BY <1>1, <1>2, <3>2 DEF TypeOK
        <4>2. pc[d] = "askKind" => KindOf[d] \in Gates
          BY DEF IInv, CallerOK, Gates
        <4>3. QED
          BY <1>1, <2>1, <4>1, <4>2 DEF WaitersQueued
      <3>3. QED
        BY <3>1, <3>2
    <2>3. QED
      BY <2>2 DEF WaitersQueued
  <1>3. ASSUME NEW c \in Callers, NEW s, s \notin {"askGlobal", "askKind"},
               pc' = [pc EXCEPT ![c] = s], queue' = queue
        PROVE  WaitersQueued'
    BY <1>1, <1>3 DEF WaitersQueued, Queued, TypeOK
  <1>4. ASSUME NEW c \in Callers, CallApi(c) PROVE WaitersQueued'
    BY <1>1, <1>2, <1>4 DEF CallApi
  <1>5. ASSUME NEW c \in Callers, AskKind(c) PROVE WaitersQueued'
    BY <1>2, <1>5 DEF AskKind, Gates
  <1>6. ASSUME NEW c \in Callers, EnterDirectly(c) \/ ReadFails(c) \/ Release(c)
        PROVE  WaitersQueued'
    BY <1>3, <1>6 DEF EnterDirectly, ReadFails, Release
  <1>7. ASSUME NEW g \in Gates, Kick(g) PROVE WaitersQueued'
    <2>1. CASE KickStarts(g)
      BY <1>7, <2>1, StartQueues DEF Kick, KickStarts
    <2>2. CASE ~KickStarts(g)
      BY <1>7, <2>2 DEF Kick, WaitersQueued, Queued
    <2>3. QED
      BY <2>1, <2>2
  <1>8. ASSUME NEW g \in Gates, NEW c \in Callers, TaskEnded(g, c) PROVE WaitersQueued'
    <2>1. CASE queue[g] # <<>>
      BY <1>8, <2>1, StartQueues DEF TaskEnded
    <2>2. CASE queue[g] = <<>>
      BY <1>8, <2>2 DEF TaskEnded, WaitersQueued, Queued
    <2>3. QED
      BY <2>1, <2>2
  <1>9. CASE UNCHANGED vars
    BY <1>9 DEF vars, WaitersQueued, Queued
  <1>10. QED
    BY <1>4, <1>5, <1>6, <1>7, <1>8, <1>9 DEF Next, Starved

\* Where somebody waits, a microtask is on its way or the gate is full; and
\* then a slot is taken, if it is not being given back.
LEMMA FullOrKicked ==
  ASSUME IInv, NEW g \in Gates, Cap[g] > 0, NEW c \in Callers, Queued(g, c)
  PROVE  kicks[g] > 0 \/ settled[g] # {} \/ held[g] \ settled[g] # {}
  <1>1. Len(queue[g]) >= 1 /\ Len(queue[g]) \in Nat /\ kicks[g] \in Nat
    BY DEF Queued, IInv, TypeOK
  <1>2. CASE active[g] = Cap[g]
    <2>1. Cardinality(held[g]) > 0
      BY <1>2 DEF IInv, Counted
    <2>2. held[g] # {}
      BY <2>1, FS_EmptySet
    <2>3. QED
      BY <2>2
  <1>3. CASE Len(queue[g]) <= kicks[g]
    BY <1>1, <1>3
  <1>4. QED
    BY <1>2, <1>3 DEF IInv, NoStrandedWaiter

\* Hold and wait goes one way only: who has a slot of a kind waits for nothing
\* more, so that a queue at a kind always moves, and with it the global one.
THEOREM NoDeadlock == Spec => []NobodyStuck
  <1> DEFINE Moves == \/ \E g \in Gates : kicks[g] > 0 \/ settled[g] # {}
                      \/ \E c \in Callers : pc[c] \in {"admitted", "working"}
                      \/ SlotLost
  <1>1. ASSUME IInv, WaitersQueued, NEW c \in Callers, pc[c] = "askKind" PROVE Moves
    <2>1. KindOf[c] \in Kinds /\ KindOf[c] \in Gates /\ Cap[KindOf[c]] > 0
      BY <1>1 DEF IInv, CallerOK, Gates
    <2>2. ASSUME NEW d \in held[KindOf[c]] \ settled[KindOf[c]] PROVE Moves
      <3>1. d \in Callers
        BY <1>1, <2>1 DEF IInv, TypeOK
      <3>2. pc[d] \in {"idle", "askGlobal", "admitted", "askKind", "working", "failed"}
        BY <1>1, <3>1 DEF IInv, TypeOK
      <3>3. pc[d] \notin {"idle", "askGlobal", "askKind"}
        BY <1>1, <2>1, <2>2, <3>1 DEF IInv, CallerOK
      <3>4. QED
        BY <3>1, <3>2, <3>3 DEF SlotLost
    <2>3. QED
      BY <1>1, <2>1, <2>2, FullOrKicked DEF WaitersQueued
  <1>2. ASSUME IInv, WaitersQueued, NEW c \in Callers, pc[c] = "askGlobal" PROVE Moves
    <2>1. Global \in Gates /\ Cap[Global] > 0
      BY CapType DEF Gates
    <2>2. ASSUME NEW d \in held[Global] \ settled[Global] PROVE Moves
      <3>1. d \in Callers
        BY <1>2, <2>1 DEF IInv, TypeOK
      <3>2. pc[d] \in {"idle", "askGlobal", "admitted", "askKind", "working", "failed"}
        BY <1>2, <3>1 DEF IInv, TypeOK
      <3>3. pc[d] \notin {"idle", "askGlobal"}
        BY <1>2, <2>1, <2>2, <3>1 DEF IInv, CallerOK
      <3>4. QED
        BY <1>1, <1>2, <3>1, <3>2, <3>3 DEF SlotLost
    <2>3. QED
      BY <1>2, <2>1, <2>2, FullOrKicked DEF WaitersQueued
  <1>3. IInv /\ WaitersQueued => NobodyStuck
    BY <1>1, <1>2 DEF NobodyStuck
  <1>4. Init => WaitersQueued
    BY DEF Init, WaitersQueued
  <1>5. QED
    BY <1>3, <1>4, QueuedStep, Invariance, PTL DEF Spec

-----------------------------------------------------------------------------
(* The abstract specification *)

LEMMA StepRefines == IInv /\ [Next]_vars => [Slots!Next]_Working
  <1> SUFFICES ASSUME IInv, [Next]_vars PROVE [Slots!Next]_Working
    OBVIOUS
  <1>1. ASSUME NEW c \in Callers, pc[c] # "working", c \in held[Global],
               c \notin settled[Global], pc' = [pc EXCEPT ![c] = "working"]
        PROVE  Slots!Enter(c)
    <2>1. Working' = Working \cup {c} /\ c \notin Working
      BY <1>1 DEF Working, IInv, TypeOK
    <2>2. Working \cup {c} \subseteq held[Global] /\ Global \in Gates
      BY <1>1 DEF Working, IInv, CallerOK, Gates
    <2>3. Cardinality(Working \cup {c}) <= Cardinality(held[Global])
      BY <2>2, HeldFinite, FS_Subset DEF IInv
    <2>4. /\ Cardinality(Working \cup {c}) = Cardinality(Working) + 1
          /\ Cardinality(Working) \in Nat
      BY <2>1, WorkingBounded, FS_AddElement, FS_CardinalityType
    <2>5. Cardinality(held[Global]) <= Cap[Global] /\ Cap[Global] \in Nat
          /\ Cardinality(held[Global]) \in Nat
      BY <2>2, HeldFinite, CapType DEF IInv, Counted
    <2>6. Cardinality(Working) < Cap[Global]
      BY <2>3, <2>4, <2>5
    <2>7. QED
      BY <2>1, <2>6 DEF Slots!Enter, Slots!Cardinality, Cardinality
  <1>2. ASSUME NEW c \in Callers, NEW s, s # "working", pc[c] # "working",
               pc' = [pc EXCEPT ![c] = s]
        PROVE  Working' = Working
    BY <1>2 DEF Working, IInv, TypeOK
  <1>3. ASSUME NEW g \in Gates, StartHead(g), queue[g] # <<>>
        PROVE  [Slots!Next]_Working
    <2>1. PICK h \in Callers : h = Head(queue[g])
      BY <1>3, HeadIsCaller
    <2>2. /\ pc[h] = IF g = Global THEN "askGlobal" ELSE "askKind"
          /\ pc' = [pc EXCEPT ![h] = IF g = Global THEN "admitted" ELSE "working"]
      BY <1>3, <2>1, StartHeadFacts DEF StartHead
    <2>3. CASE g = Global
      BY <1>2, <2>2, <2>3
    <2>4. CASE g # Global
      <3>1. h \in held[Global] /\ h \notin settled[Global]
        BY <2>2, <2>4 DEF IInv, CallerOK
      <3>2. Slots!Enter(h)
        BY <1>1, <2>2, <2>4, <3>1
      <3>3. QED
        BY <3>2 DEF Slots!Next
    <2>5. QED
      BY <2>3, <2>4
  <1>4. ASSUME NEW c \in Callers, CallApi(c) \/ AskKind(c) \/ ReadFails(c)
        PROVE  [Slots!Next]_Working
    BY <1>2, <1>4 DEF CallApi, AskKind, ReadFails
  <1>5. ASSUME NEW c \in Callers, EnterDirectly(c)
        PROVE  [Slots!Next]_Working
    <2>1. c \in held[Global] /\ c \notin settled[Global]
      BY <1>5 DEF EnterDirectly, IInv, CallerOK
    <2>2. Slots!Enter(c)
      BY <1>1, <1>5, <2>1 DEF EnterDirectly
    <2>3. QED
      BY <2>2 DEF Slots!Next
  <1>6. ASSUME NEW c \in Callers, Release(c)
        PROVE  [Slots!Next]_Working
    <2>1. c \in Working /\ Working' = Working \ {c}
      BY <1>6 DEF Release, Working, IInv, TypeOK
    <2>2. QED
      BY <2>1 DEF Slots!Leave, Slots!Next
  <1>7. ASSUME NEW g \in Gates, Kick(g) PROVE [Slots!Next]_Working
    <2>1. CASE KickStarts(g)
      BY <1>3, <1>7, <2>1 DEF Kick, KickStarts
    <2>2. CASE ~KickStarts(g)
      BY <1>7, <2>2 DEF Kick, Working
    <2>3. QED
      BY <2>1, <2>2
  <1>8. ASSUME NEW g \in Gates, NEW c \in Callers, TaskEnded(g, c)
        PROVE  [Slots!Next]_Working
    <2>1. CASE queue[g] # <<>>
      BY <1>3, <1>8, <2>1 DEF TaskEnded
    <2>2. CASE queue[g] = <<>>
      BY <1>8, <2>2 DEF TaskEnded, Working
    <2>3. QED
      BY <2>1, <2>2
  <1>9. CASE UNCHANGED vars
    BY <1>9 DEF vars, Working
  <1>10. QED
    BY <1>4, <1>5, <1>6, <1>7, <1>8, <1>9 DEF Next, Starved

\* The gate implements a bounded set of executing callers: all the queues and
\* microtasks are invisible behind the cap.
THEOREM GateRefinement == Spec => ImplementsBoundedSlots
  <1>1. Init => Slots!Init
    BY DEF Init, Slots!Init, Working
  <1>2. IInv /\ [Next]_vars => [Slots!Next]_Working
    BY StepRefines
  <1>3. QED
    BY <1>1, <1>2, Invariance, PTL DEF Spec, Slots!Spec, ImplementsBoundedSlots

-----------------------------------------------------------------------------
(* The calls of the CLI *)

\* What is run, if anything is, is what was probed.
LEMMA CommandFacts ==
  ASSUME NEW c \in Calls
  PROVE  /\ C!ProbeCommand(c) \in Commands
         /\ C!RunnerCommand(c) # Blank => C!RunnerCommand(c) = C!ProbeCommand(c)
  <1>1. Plain \in Commands /\ Plain # Blank /\ Plain # Unset
    BY CliTypes DEF C!ConstantsOK
  <1>2. C!Chosen(c) \in Commands \cup {Blank}
    BY CliTypes DEF C!ConstantsOK, C!Chosen, C!Runners
  <1>3. QED
    BY <1>1, <1>2 DEF C!ProbeCommand, C!RunnerCommand

LEMMA CliInit == C!Init => C!IInv
  <1> SUFFICES ASSUME C!Init PROVE C!IInv
    OBVIOUS
  <1>1. C!TypeOK
    BY DEF C!Init, C!TypeOK
  <1>2. C!CacheOK /\ C!CrashExplained
    BY DEF C!Init, C!CacheOK, C!CrashExplained
  <1>3. ASSUME NEW c \in Calls PROVE C!CallOK(c)
    <2>1. Retries[c] \in Nat
      BY CliTypes DEF C!ConstantsOK
    <2>2. cli[c] = "idle" /\ child[c] = "none" /\ attempt[c] = 0
      BY DEF C!Init
    <2>3. QED
      BY <2>1, <2>2 DEF C!CallOK, C!RunOK, C!ChildOK, C!AttemptsBounded
  <1>4. QED
    BY <1>1, <1>2, <1>3 DEF C!IInv

\* The types of what an operation changes of one call.
LEMMA CliTypesOf ==
  ASSUME C!TypeOK, NEW c \in Calls
  PROVE  /\ cli[c] \in {"idle", "probing", "running", "parsing", "returned"}
         /\ result[c] \in {"none", "ok", "error", "thrown"}
         /\ major[c] \in 0..2 /\ attempt[c] \in Nat /\ Retries[c] \in Nat
         /\ child[c] \in {"none", "alive", "stopping", "failing", "ended"}
  BY CliTypes DEF C!TypeOK, C!ConstantsOK

\* Where a run of the CLI leaves its call.
LEMMA SpawnFacts ==
  ASSUME C!TypeOK, NEW c \in Calls, C!Spawn(c)
  PROVE  /\ \/ /\ cli' = [cli EXCEPT ![c] = "returned"]
               /\ result' = [result EXCEPT ![c] = "error"]
            \/ /\ cli' = [cli EXCEPT ![c] = "running"] /\ UNCHANGED result
               /\ C!RunnerCommand(c) # Blank /\ c \notin aborted
         /\ \/ C!RunnerCommand(c) = Blank /\ attempt' = attempt /\ child' = child
            \/ /\ C!RunnerCommand(c) # Blank
               /\ attempt' = [attempt EXCEPT ![c] = attempt[c] + 1]
               /\ \E s \in {"alive", "failing", "stopping"} :
                    /\ child' = [child EXCEPT ![c] = s]
                    /\ s = "alive" => c \notin aborted
                    /\ s = "stopping" => c \in aborted
         /\ c \notin aborted /\ C!RunnerCommand(c) # Blank => cli' = [cli EXCEPT ![c] = "running"]
  <1>1. CASE C!RunnerCommand(c) = Blank
    BY <1>1 DEF C!Spawn, C!Return
  <1>2. CASE C!RunnerCommand(c) # Blank /\ c \in aborted
    <2>1. PICK s \in {"alive", "failing"} : child' = [child EXCEPT ![c] = C!Kill(s)]
      BY <1>2 DEF C!Spawn
    <2>2. C!Kill(s) \in {"failing", "stopping"}
      BY DEF C!Kill
    <2>3. /\ attempt' = [attempt EXCEPT ![c] = attempt[c] + 1]
          /\ cli' = [cli EXCEPT ![c] = "returned"]
          /\ result' = [result EXCEPT ![c] = "error"]
      BY <1>2 DEF C!Spawn, C!Return
    <2>4. QED
      BY <1>2, <2>1, <2>2, <2>3
  <1>3. CASE C!RunnerCommand(c) # Blank /\ c \notin aborted
    <2>1. PICK s \in {"alive", "failing"} : child' = [child EXCEPT ![c] = s]
      BY <1>3 DEF C!Spawn
    <2>2. /\ attempt' = [attempt EXCEPT ![c] = attempt[c] + 1]
          /\ cli' = [cli EXCEPT ![c] = "running"] /\ UNCHANGED result
      BY <1>3 DEF C!Spawn
    <2>3. QED
      BY <1>3, <2>1, <2>2
  <1>4. QED
    BY <1>1, <1>2, <1>3

\* What an operation of call c may change of a function: its value at c.
Sets(f, g, c, S) == \E v \in S : g = [f EXCEPT ![c] = v]

Places == {"idle", "probing", "running", "parsing", "returned"}
Results == {"none", "ok", "error", "thrown"}
Children == {"none", "alive", "stopping", "failing", "ended"}

\* What an operation of call c leaves alone: everything of the other calls.
OnlyCall(c) ==
  /\ Sets(cli, cli', c, Places)
  /\ Sets(result, result', c, Results)
  /\ Sets(major, major', c, 0..2)
  /\ Sets(attempt, attempt', c, Nat)
  /\ Sets(child, child', c, Children)

SharedGrow ==
  /\ aborted \subseteq aborted' /\ aborted' \subseteq Calls
  /\ failed \subseteq failed' /\ failed' \subseteq Commands
  /\ answered \subseteq answered' /\ answered' \subseteq Commands
  /\ late' \subseteq Calls
  /\ cache' \in [Commands -> 0..2]
  /\ host' \in {"up", "crashed"}

LEMMA Unchanged ==
  ASSUME C!TypeOK, NEW c \in Calls
  PROVE  /\ cli' = cli => Sets(cli, cli', c, Places)
         /\ result' = result => Sets(result, result', c, Results)
         /\ major' = major => Sets(major, major', c, 0..2)
         /\ attempt' = attempt => Sets(attempt, attempt', c, Nat)
         /\ child' = child => Sets(child, child', c, Children)
  <1>1. /\ cli = [cli EXCEPT ![c] = cli[c]] /\ result = [result EXCEPT ![c] = result[c]]
        /\ major = [major EXCEPT ![c] = major[c]]
        /\ attempt = [attempt EXCEPT ![c] = attempt[c]]
        /\ child = [child EXCEPT ![c] = child[c]]
    BY DEF C!TypeOK
  <1>2. QED
    BY <1>1, CliTypesOf DEF Sets, Places, Results, Children

LEMMA SharedStays ==
  ASSUME C!TypeOK, UNCHANGED <<aborted, late, cache, answered, failed, host>>
  PROVE  SharedGrow
  BY DEF C!TypeOK, SharedGrow

LEMMA ReturnMoves ==
  ASSUME C!TypeOK, NEW c \in Calls, NEW r \in Results, C!Return(c, r)
  PROVE  Sets(cli, cli', c, Places) /\ Sets(result, result', c, Results)
  BY DEF C!Return, Sets, Places

LEMMA SpawnMoves ==
  ASSUME C!TypeOK, NEW c \in Calls, C!Spawn(c)
  PROVE  /\ Sets(cli, cli', c, Places) /\ Sets(result, result', c, Results)
         /\ Sets(attempt, attempt', c, Nat) /\ Sets(child, child', c, Children)
  <1>1. Sets(cli, cli', c, Places) /\ Sets(result, result', c, Results)
    BY SpawnFacts, Unchanged DEF Sets, Places, Results
  <1>2. attempt[c] + 1 \in Nat
    BY CliTypesOf
  <1>3. Sets(attempt, attempt', c, Nat) /\ Sets(child, child', c, Children)
    BY <1>2, SpawnFacts, Unchanged DEF Sets, Children
  <1>4. QED
    BY <1>1, <1>3

LEMMA TryAgainMoves ==
  ASSUME C!TypeOK, NEW c \in Calls, C!TryAgain(c)
  PROVE  /\ Sets(cli, cli', c, Places) /\ Sets(result, result', c, Results)
         /\ Sets(attempt, attempt', c, Nat) /\ Sets(child, child', c, Children)
  <1>1. CASE C!Spawn(c)
    BY <1>1, SpawnMoves
  <1>2. CASE C!Return(c, "error") /\ C!Ended(c)
    BY <1>2, ReturnMoves, Unchanged DEF C!Ended, Sets, Children, Results
  <1>3. QED
    BY <1>1, <1>2 DEF C!TryAgain

LEMMA KnownType ==
  ASSUME C!TypeOK, NEW c \in Calls
  PROVE  C!Known(c) \in 0..2
  BY CommandFacts, CliTypes DEF C!TypeOK, C!Known, C!ConstantsOK

\* What a probe of command k that answers g, 0 if it fails, leaves behind.
ProbeSays(c, k, g) ==
  /\ cache' = [cache EXCEPT ![k] = IF g = 0 THEN 1 ELSE g]
  /\ failed' = IF g = 0 THEN failed \cup {k} ELSE failed
  /\ major' = [major EXCEPT ![c] = IF g = 0 THEN 1 ELSE g]
  /\ answered' = answered \cup {k}

LEMMA ProbeFacts ==
  ASSUME NEW c \in Calls, C!ProbeEnds(c)
  PROVE  \E g \in {0, Generation[C!ProbeCommand(c)]} :
           g \in 0..2 /\ ProbeSays(c, C!ProbeCommand(c), g)
  <1>1. PICK g \in {0, Generation[C!ProbeCommand(c)]} :
          /\ cache' = C!Remember(C!ProbeCommand(c), g)
          /\ failed' = IF g = 0 THEN failed \cup {C!ProbeCommand(c)} ELSE failed
          /\ major' = [major EXCEPT ![c] = IF g = 0 THEN 1 ELSE g]
    BY DEF C!ProbeEnds
  <1>2. answered' = answered \cup {C!ProbeCommand(c)}
    BY DEF C!ProbeEnds
  <1>3. Generation[C!ProbeCommand(c)] \in 0..2
    BY CommandFacts, CliTypes DEF C!ConstantsOK
  <1>4. cache' = [cache EXCEPT ![C!ProbeCommand(c)] = IF g = 0 THEN 1 ELSE g]
    BY <1>1 DEF C!Remember
  <1>5. ProbeSays(c, C!ProbeCommand(c), g)
    BY <1>1, <1>2, <1>4 DEF ProbeSays
  <1>6. g \in 0..2
    BY <1>3
  <1>7. QED
    BY <1>5, <1>6

LEMMA CliLocal ==
  ASSUME C!TypeOK, NEW c \in Calls,
         \/ C!Refuse(c) \/ C!Start(c) \/ C!ProbeEnds(c) \/ C!ProbeTimesOut(c)
         \/ C!ChildExits(c) \/ C!Parsed(c) \/ C!SpawnError(c) \/ C!Abort(c)
  PROVE  OnlyCall(c) /\ SharedGrow
  <1>1. CASE C!Refuse(c)
    <2>1. Sets(cli, cli', c, Places) /\ Sets(result, result', c, Results)
      BY <1>1, ReturnMoves DEF C!Refuse, Results
    <2>2. SharedGrow
      BY <1>1, SharedStays DEF C!Refuse, C!probing
    <2>3. QED
      BY <1>1, <2>1, <2>2, Unchanged DEF C!Refuse, OnlyCall
  <1>2. CASE C!Start(c)
    <2>1. SharedGrow
      BY <1>2, SharedStays DEF C!Start, C!probing
    <2>2. CASE C!Known(c) # 0
      <3>1. C!Spawn(c) /\ major' = [major EXCEPT ![c] = C!Known(c)]
        BY <1>2, <2>2 DEF C!Start
      <3>2. Sets(major, major', c, 0..2)
        BY <3>1, KnownType DEF Sets
      <3>3. QED
        BY <2>1, <3>1, <3>2, SpawnMoves DEF OnlyCall
    <2>3. CASE C!Known(c) = 0
      <3>1. cli' = [cli EXCEPT ![c] = "probing"] /\ UNCHANGED <<result, major, attempt, child>>
        BY <1>2, <2>3 DEF C!Start
      <3>2. Sets(cli, cli', c, Places)
        BY <3>1 DEF Sets, Places
      <3>3. QED
        BY <2>1, <3>1, <3>2, Unchanged DEF OnlyCall
    <2>4. QED
      BY <2>2, <2>3
  <1>3. CASE C!ProbeEnds(c)
    <2> DEFINE k == C!ProbeCommand(c)
    <2>1. k \in Commands
      BY CommandFacts
    <2>2. PICK g \in 0..2 : ProbeSays(c, k, g)
      BY <1>3, ProbeFacts
    <2>3. cache' \in [Commands -> 0..2]
      BY <2>1, <2>2 DEF ProbeSays, C!TypeOK
    <2>4. /\ failed \subseteq failed' /\ failed' \subseteq Commands
          /\ answered \subseteq answered' /\ answered' \subseteq Commands
      BY <2>1, <2>2 DEF ProbeSays, C!TypeOK
    <2>5. late' \subseteq Calls /\ aborted' = aborted /\ host' = host
      BY <1>3 DEF C!ProbeEnds, C!TypeOK
    <2>6. Sets(major, major', c, 0..2)
      <3>1. (IF g = 0 THEN 1 ELSE g) \in 0..2
        OBVIOUS
      <3>2. QED
        BY <2>2, <3>1 DEF ProbeSays, Sets
    <2>7. SharedGrow
      BY <2>3, <2>4, <2>5 DEF SharedGrow, C!TypeOK
    <2>8. C!Spawn(c)
      BY <1>3 DEF C!ProbeEnds
    <2>9. QED
      BY <2>6, <2>7, <2>8, SpawnMoves DEF OnlyCall
  <1>4. CASE C!ProbeTimesOut(c)
    <2>1. SharedGrow
      BY <1>4 DEF C!ProbeTimesOut, SharedGrow, C!TypeOK
    <2>2. QED
      BY <1>4, <2>1, Unchanged DEF C!ProbeTimesOut, OnlyCall
  <1>5. CASE C!ChildExits(c)
    <2>1. SharedGrow /\ major' = major
      BY <1>5, SharedStays DEF C!ChildExits, C!probing
    <2>2. ASSUME C!Ended(c)
          PROVE  Sets(child, child', c, Children) /\ Sets(attempt, attempt', c, Nat)
      BY <2>2, Unchanged DEF C!Ended, Sets, Children
    <2>3. CASE C!Ended(c) /\ UNCHANGED <<cli, result>>
      BY <2>1, <2>2, <2>3, Unchanged DEF OnlyCall
    <2>4. ASSUME NEW r \in Results, C!Ended(c), C!Return(c, r)
          PROVE  OnlyCall(c)
      BY <2>1, <2>2, <2>4, ReturnMoves, Unchanged DEF OnlyCall
    <2>5. ASSUME NEW out, C!Resolved(c, out)
          PROVE  OnlyCall(c)
      <3>1. CASE C!TryAgain(c)
        BY <2>1, <3>1, TryAgainMoves, Unchanged DEF OnlyCall
      <3>2. CASE C!Ended(c) /\ C!Return(c, "ok")
        BY <2>4, <3>2 DEF Results
      <3>3. CASE C!Ended(c) /\ cli' = [cli EXCEPT ![c] = "parsing"] /\ UNCHANGED result
        <4>1. Sets(cli, cli', c, Places)
          BY <3>3 DEF Sets, Places
        <4>2. QED
          BY <2>1, <2>2, <3>3, <4>1, Unchanged DEF OnlyCall
      <3>4. QED
        BY <2>5, <3>1, <3>2, <3>3 DEF C!Resolved
    <2>6. CASE cli[c] # "running"
      BY <1>5, <2>1, <2>3, <2>6 DEF C!ChildExits
    <2>7. CASE cli[c] = "running"
      <3>1. PICK code \in {0, 1}, out \in {"text", "blank"}, err \in BOOLEAN :
              LET res == C!Closed(c, code, out, err)
              IN IF res = "rejected" THEN C!Return(c, "error") /\ C!Ended(c)
                                     ELSE C!Resolved(c, res)
        BY <1>5, <2>7 DEF C!ChildExits
      <3>2. QED
        BY <2>1, <2>4, <2>5, <3>1 DEF Results
    <2>8. QED
      BY <2>6, <2>7
  <1>6. CASE C!Parsed(c)
    <2>1. SharedGrow /\ major' = major
      BY <1>6, SharedStays DEF C!Parsed, C!probing
    <2>2. CASE C!TryAgain(c)
      BY <2>1, <2>2, TryAgainMoves, Unchanged DEF OnlyCall
    <2>3. ASSUME NEW r \in Results, C!Return(c, r), UNCHANGED <<attempt, child>>
          PROVE  OnlyCall(c)
      BY <2>1, <2>3, ReturnMoves, Unchanged DEF OnlyCall
    <2>4. QED
      BY <1>6, <2>1, <2>2, <2>3 DEF C!Parsed, Results
  <1>7. CASE C!SpawnError(c)
    <2>1. Sets(child, child', c, Children) /\ attempt' = attempt /\ major' = major
      BY <1>7 DEF C!SpawnError, C!Ended, Sets, Children
    <2>2. Sets(cli, cli', c, Places) /\ Sets(result, result', c, Results)
          /\ host' \in {"up", "crashed"}
      <3>1. CASE C!Return(c, "error") /\ UNCHANGED host
        BY <3>1, ReturnMoves DEF Results, C!TypeOK
      <3>2. CASE host' = "crashed" /\ UNCHANGED <<cli, result>>
        BY <3>2, Unchanged
      <3>3. QED
        BY <1>7, <3>1, <3>2 DEF C!SpawnError
    <2>3. SharedGrow
      BY <1>7, <2>2 DEF C!SpawnError, C!probing, SharedGrow, C!TypeOK
    <2>4. QED
      BY <2>1, <2>2, <2>3, Unchanged DEF OnlyCall
  <1>8. CASE C!Abort(c)
    <2>1. aborted \subseteq aborted' /\ aborted' \subseteq Calls
      BY <1>8 DEF C!Abort, C!TypeOK
    <2>2. SharedGrow
      BY <1>8, <2>1 DEF C!Abort, C!probing, SharedGrow, C!TypeOK
    <2>3. UNCHANGED <<major, attempt>>
      BY <1>8 DEF C!Abort
    <2>4. CASE cli[c] = "running"
      <3>1. child' = [child EXCEPT ![c] = C!Kill(child[c])] /\ C!Return(c, "error")
        BY <1>8, <2>4 DEF C!Abort
      <3>2. C!Kill(child[c]) \in Children
        BY CliTypesOf DEF C!Kill, Children
      <3>3. QED
        BY <2>2, <2>3, <3>1, <3>2, ReturnMoves, Unchanged DEF OnlyCall, Sets, Results
    <2>5. CASE cli[c] # "running"
      BY <1>8, <2>2, <2>3, <2>5, Unchanged DEF C!Abort, OnlyCall
    <2>6. QED
      BY <2>4, <2>5
  <1>9. QED
    BY <1>1, <1>2, <1>3, <1>4, <1>5, <1>6, <1>7, <1>8

\* What holds of every call is kept for the calls an operation leaves alone.
LEMMA Spread ==
  ASSUME C!TypeOK, \A d \in Calls : C!CallOK(d), NEW c \in Calls,
         OnlyCall(c), SharedGrow, C!CallOK(c)'
  PROVE  C!TypeOK' /\ \A d \in Calls : C!CallOK(d)'
  <1>1. /\ cli' \in [Calls -> Places] /\ result' \in [Calls -> Results]
        /\ major' \in [Calls -> 0..2] /\ attempt' \in [Calls -> Nat]
        /\ child' \in [Calls -> Children]
    BY DEF C!TypeOK, OnlyCall, Sets, Places, Results, Children
  <1>2. C!TypeOK'
    BY <1>1 DEF SharedGrow, C!TypeOK, Places, Results, Children
  <1>3. ASSUME NEW d \in Calls, d # c PROVE C!CallOK(d)'
    <2>1. /\ cli'[d] = cli[d] /\ result'[d] = result[d] /\ major'[d] = major[d]
          /\ attempt'[d] = attempt[d] /\ child'[d] = child[d]
      BY <1>3 DEF C!TypeOK, OnlyCall, Sets
    <2>2. \A k, m : C!Justified(k, m) => C!Justified(k, m)'
      BY DEF C!Justified, SharedGrow
    <2>3. C!RunOK(d)'
      BY <2>1, <2>2 DEF C!CallOK, C!RunOK, C!Justified, SharedGrow
    <2>4. C!ChildOK(d)' /\ C!AttemptsBounded(d)'
      BY <2>1 DEF C!CallOK, C!ChildOK, C!AttemptsBounded, SharedGrow
    <2>5. QED
      BY <2>3, <2>4 DEF C!CallOK
  <1>4. QED
    BY <1>2, <1>3

\* A call that begins a run, and one that returns.
LEMMA SpawnKeeps ==
  ASSUME C!TypeOK, NEW c \in Calls, C!Spawn(c), UNCHANGED aborted,
         attempt[c] <= Retries[c],
         C!RunnerCommand(c) = Blank => child[c] = "none",
         EnvMajor = 0 => C!Justified(C!ProbeCommand(c), major[c])'
  PROVE  C!CallOK(c)'
  <1>1. C!RunOK(c)'
    <2>1. cli'[c] \in {"running", "parsing"} => C!RunnerCommand(c) # Blank
      BY SpawnFacts DEF C!TypeOK
    <2>2. QED
      BY <2>1 DEF C!RunOK
  <1>2. C!AttemptsBounded(c)'
    <2>1. attempt'[c] = attempt[c] \/ attempt'[c] = attempt[c] + 1
      BY SpawnFacts DEF C!TypeOK
    <2>2. QED
      BY <2>1, CliTypesOf DEF C!AttemptsBounded
  <1>3. C!ChildOK(c)'
    <2>1. cli'[c] = "running" \/ (cli'[c] = "returned" /\ result'[c] = "error")
      BY SpawnFacts DEF C!TypeOK
    <2>2. c \notin aborted /\ C!RunnerCommand(c) # Blank => cli'[c] = "running"
      BY SpawnFacts DEF C!TypeOK
    <2>3. CASE C!RunnerCommand(c) = Blank
      <3>1. child'[c] = "none"
        BY <2>3, SpawnFacts DEF C!TypeOK
      <3>2. QED
        BY <2>1, <3>1 DEF C!ChildOK
    <2>4. CASE C!RunnerCommand(c) # Blank
      <3>1. PICK s \in {"alive", "failing", "stopping"} :
              child' = [child EXCEPT ![c] = s] /\ (s = "alive" => c \notin aborted)
        BY <2>4, SpawnFacts
      <3>2. child'[c] = s
        BY <3>1 DEF C!TypeOK
      <3>3. QED
        BY <2>1, <2>2, <2>4, <3>1, <3>2 DEF C!ChildOK
    <2>5. QED
      BY <2>3, <2>4
  <1>4. QED
    BY <1>1, <1>2, <1>3 DEF C!CallOK

LEMMA ReturnKeeps ==
  ASSUME C!TypeOK, NEW c \in Calls, NEW r \in Results, C!Return(c, r),
         C!AttemptsBounded(c), UNCHANGED attempt,
         child'[c] \in {"none", "stopping", "ended"}
  PROVE  C!CallOK(c)'
  <1>1. cli'[c] = "returned"
    BY DEF C!Return, C!TypeOK
  <1>2. QED
    BY <1>1 DEF C!CallOK, C!RunOK, C!ChildOK, C!AttemptsBounded

LEMMA TryAgainKeeps ==
  ASSUME C!TypeOK, NEW c \in Calls, C!CallOK(c), cli[c] \in {"running", "parsing"},
         C!TryAgain(c), UNCHANGED <<aborted, failed, major>>
  PROVE  C!CallOK(c)'
  <1>1. CASE attempt[c] <= Retries[c]
    <2>1. C!RunnerCommand(c) # Blank
      BY DEF C!CallOK, C!RunOK
    <2>2. EnvMajor = 0 => C!Justified(C!ProbeCommand(c), major[c])'
      BY DEF C!CallOK, C!RunOK, C!Justified
    <2>3. QED
      BY <1>1, <2>1, <2>2, SpawnKeeps DEF C!TryAgain
  <1>2. CASE ~(attempt[c] <= Retries[c])
    <2>1. C!Return(c, "error") /\ C!Ended(c)
      BY <1>2 DEF C!TryAgain
    <2>2. child'[c] = "ended" /\ UNCHANGED attempt
      BY <2>1 DEF C!Ended, C!TypeOK
    <2>3. QED
      BY <2>1, <2>2, ReturnKeeps DEF C!CallOK, Results
  <1>3. QED
    BY <1>1, <1>2

\* The generation that a call resolves is justified.
LEMMA KnownJustified ==
  ASSUME C!TypeOK, C!CacheOK, NEW c \in Calls, C!Known(c) # 0, EnvMajor = 0
  PROVE  C!Justified(C!ProbeCommand(c), C!Known(c))
  BY CommandFacts DEF C!CacheOK, C!Known

LEMMA ProbeJustified ==
  ASSUME C!TypeOK, NEW c \in Calls, NEW k \in Commands, NEW g \in {0, Generation[k]},
         ProbeSays(c, k, g)
  PROVE  /\ C!Justified(k, major[c])'
         /\ cache'[k] = major'[c]
  <1>1. /\ major'[c] = IF g = 0 THEN 1 ELSE g
        /\ cache'[k] = IF g = 0 THEN 1 ELSE g
        /\ g = 0 => k \in failed'
    BY DEF ProbeSays, C!TypeOK
  <1>2. QED
    BY <1>1 DEF C!Justified

CliOp(c) ==
  \/ C!Refuse(c) \/ C!Start(c) \/ C!ProbeEnds(c) \/ C!ProbeTimesOut(c)
  \/ C!ChildExits(c) \/ C!Parsed(c) \/ C!SpawnError(c) \/ C!Abort(c)

\* Each operation keeps what holds of its own call.
LEMMA CliKeeps ==
  ASSUME C!TypeOK, C!CacheOK, NEW c \in Calls, C!CallOK(c), CliOp(c)
  PROVE  C!CallOK(c)'
  <1>1. /\ Retries[c] \in Nat /\ attempt[c] \in Nat
        /\ cli[c] \in {"idle", "probing"} => child[c] = "none" /\ attempt[c] = 0
    BY CliTypesOf DEF C!CallOK, C!ChildOK
  <1>2. CASE C!Refuse(c)
    <2>1. UNCHANGED <<attempt, child>> /\ child[c] = "none"
      BY <1>1, <1>2 DEF C!Refuse
    <2>2. \E r \in Results : C!Return(c, r)
      BY <1>2 DEF C!Refuse, Results
    <2>3. QED
      BY <2>1, <2>2, ReturnKeeps DEF C!CallOK
  <1>3. CASE C!Start(c)
    <2>1. CASE C!Known(c) # 0
      <3>1. C!Spawn(c) /\ UNCHANGED <<aborted, failed>>
            /\ major' = [major EXCEPT ![c] = C!Known(c)]
        BY <1>3, <2>1 DEF C!Start, C!probing
      <3>2. major'[c] = C!Known(c)
        BY <3>1 DEF C!TypeOK
      <3>3. EnvMajor = 0 => C!Justified(C!ProbeCommand(c), major[c])'
        BY <2>1, <3>1, <3>2, KnownJustified DEF C!Justified
      <3>4. cli[c] = "idle"
        BY <1>3 DEF C!Start
      <3>5. QED
        BY <1>1, <3>1, <3>3, <3>4, SpawnKeeps
    <2>2. CASE C!Known(c) = 0
      <3>1. cli[c] = "idle" /\ cli' = [cli EXCEPT ![c] = "probing"]
            /\ UNCHANGED <<result, attempt, child>>
        BY <1>3, <2>2 DEF C!Start
      <3>2. cli'[c] = "probing" /\ child'[c] = "none" /\ attempt'[c] = 0
        BY <1>1, <3>1 DEF C!TypeOK
      <3>3. QED
        BY <1>1, <3>2 DEF C!CallOK, C!RunOK, C!ChildOK, C!AttemptsBounded
    <2>3. QED
      BY <2>1, <2>2
  <1>4. CASE C!ProbeEnds(c)
    <2>1. PICK g \in {0, Generation[C!ProbeCommand(c)]} :
            ProbeSays(c, C!ProbeCommand(c), g)
      BY <1>4, ProbeFacts
    <2>2. C!Justified(C!ProbeCommand(c), major[c])'
      BY <2>1, CommandFacts, ProbeJustified
    <2>3. C!Spawn(c) /\ UNCHANGED aborted /\ cli[c] = "probing"
      BY <1>4 DEF C!ProbeEnds
    <2>4. QED
      BY <1>1, <2>2, <2>3, SpawnKeeps
  <1>5. CASE C!ProbeTimesOut(c)
    BY <1>5 DEF C!ProbeTimesOut, C!CallOK, C!RunOK, C!ChildOK, C!AttemptsBounded,
                C!Justified
  <1>6. CASE C!ChildExits(c)
    <2>1. UNCHANGED <<aborted, failed, major>>
      BY <1>6 DEF C!ChildExits, C!probing
    <2>2. ASSUME C!Ended(c) PROVE child'[c] = "ended" /\ UNCHANGED attempt
      BY <2>2 DEF C!Ended, C!TypeOK
    <2>3. ASSUME NEW r \in Results, C!Ended(c), C!Return(c, r) PROVE C!CallOK(c)'
      BY <2>2, <2>3, ReturnKeeps DEF C!CallOK
    <2>4. CASE cli[c] # "running"
      <3>1. C!Ended(c) /\ UNCHANGED <<cli, result>>
        BY <1>6, <2>4 DEF C!ChildExits
      <3>2. child'[c] = "ended" /\ attempt' = attempt /\ cli[c] \notin {"idle", "probing"}
        BY <1>1, <1>6, <2>2, <3>1 DEF C!ChildExits
      <3>3. QED
        BY <2>1, <3>1, <3>2 DEF C!CallOK, C!RunOK, C!ChildOK, C!AttemptsBounded,
                                C!Justified
    <2>5. CASE cli[c] = "running"
      <3>1. ASSUME NEW out, C!Resolved(c, out) PROVE C!CallOK(c)'
        <4>1. CASE C!TryAgain(c)
          BY <2>1, <2>5, <4>1, TryAgainKeeps
        <4>2. CASE C!Ended(c) /\ C!Return(c, "ok")
          BY <2>3, <4>2 DEF Results
        <4>3. CASE cli' = [cli EXCEPT ![c] = "parsing"] /\ C!Ended(c)
          <5>1. cli'[c] = "parsing" /\ child'[c] = "ended" /\ attempt' = attempt
            BY <2>2, <4>3 DEF C!TypeOK
          <5>2. QED
            BY <2>1, <2>5, <5>1 DEF C!CallOK, C!RunOK, C!ChildOK, C!AttemptsBounded,
                                    C!Justified
        <4>4. QED
          BY <3>1, <4>1, <4>2, <4>3 DEF C!Resolved
      <3>2. PICK code \in {0, 1}, out \in {"text", "blank"}, err \in BOOLEAN :
              LET res == C!Closed(c, code, out, err)
              IN IF res = "rejected" THEN C!Return(c, "error") /\ C!Ended(c)
                                     ELSE C!Resolved(c, res)
        BY <1>6, <2>5 DEF C!ChildExits
      <3>3. QED
        BY <2>3, <3>1, <3>2 DEF Results
    <2>6. QED
      BY <2>4, <2>5
  <1>7. CASE C!Parsed(c)
    <2>1. UNCHANGED <<aborted, failed, major>> /\ cli[c] = "parsing"
      BY <1>7 DEF C!Parsed, C!probing
    <2>2. CASE C!TryAgain(c)
      BY <2>1, <2>2, TryAgainKeeps
    <2>3. ASSUME NEW r \in Results, C!Return(c, r), UNCHANGED <<attempt, child>>
          PROVE  C!CallOK(c)'
      BY <2>1, <2>3, ReturnKeeps DEF C!CallOK, C!ChildOK
    <2>4. QED
      BY <1>7, <2>2, <2>3 DEF C!Parsed, Results
  <1>8. CASE C!SpawnError(c)
    <2>1. child'[c] = "ended" /\ UNCHANGED <<attempt, failed, major>> /\ child[c] = "failing"
      BY <1>8 DEF C!SpawnError, C!Ended, C!TypeOK, C!probing
    <2>2. CASE C!Return(c, "error")
      BY <2>1, <2>2, ReturnKeeps DEF C!CallOK, Results
    <2>3. CASE UNCHANGED <<cli, result>>
      <3>1. cli[c] \notin {"idle", "probing"}
        BY <1>1, <2>1
      <3>2. QED
        BY <2>1, <2>3, <3>1 DEF C!CallOK, C!RunOK, C!ChildOK, C!AttemptsBounded,
                                C!Justified
    <2>4. QED
      BY <1>8, <2>2, <2>3 DEF C!SpawnError
  <1>9. CASE C!Abort(c)
    <2>1. UNCHANGED <<attempt, failed, major>> /\ child[c] # "failing"
      BY <1>9 DEF C!Abort, C!probing
    <2>2. CASE cli[c] = "running"
      <3>1. child' = [child EXCEPT ![c] = C!Kill(child[c])] /\ C!Return(c, "error")
        BY <1>9, <2>2 DEF C!Abort
      <3>2. child'[c] \in {"none", "stopping", "ended"}
        BY <2>1, <3>1, CliTypesOf DEF C!Kill, C!TypeOK
      <3>3. QED
        BY <2>1, <3>1, <3>2, ReturnKeeps DEF C!CallOK, Results
    <2>3. CASE cli[c] # "running"
      <3>1. UNCHANGED <<cli, result, child>>
        BY <1>9, <2>3 DEF C!Abort
      <3>2. QED
        BY <2>1, <3>1 DEF C!CallOK, C!RunOK, C!ChildOK, C!AttemptsBounded, C!Justified
    <2>4. QED
      BY <2>2, <2>3
  <1>10. QED
    BY <1>2, <1>3, <1>4, <1>5, <1>6, <1>7, <1>8, <1>9 DEF CliOp

\* Only the end of a probe writes the cache, and only for its command.
LEMMA CacheKeeps ==
  ASSUME C!TypeOK, C!CacheOK, NEW c \in Calls, CliOp(c)
  PROVE  C!CacheOK'
  <1>1. CASE C!ProbeEnds(c)
    <2> DEFINE k == C!ProbeCommand(c)
    <2>1. k \in Commands
      BY CommandFacts
    <2>2. PICK g \in {0, Generation[k]} : ProbeSays(c, k, g)
      BY <1>1, ProbeFacts
    <2>3. C!Justified(k, cache[k])' /\ cache'[k] # 0
      BY <2>1, <2>2, ProbeJustified DEF C!Justified
    <2>4. ASSUME NEW l \in Commands, l # k
          PROVE  /\ cache'[l] # 0 => C!Justified(l, cache[l])'
                 /\ l \in answered' => cache'[l] # 0
      <3>1. /\ cache'[l] = cache[l] /\ (l \in answered' => l \in answered)
            /\ failed \subseteq failed'
        BY <2>2, <2>4 DEF ProbeSays, C!TypeOK
      <3>2. QED
        BY <3>1 DEF C!CacheOK, C!Justified
    <2>5. QED
      BY <2>3, <2>4 DEF C!CacheOK
  <1>2. CASE ~C!ProbeEnds(c)
    <2>1. UNCHANGED <<cache, answered, failed>>
      BY <1>2 DEF CliOp, C!Refuse, C!Start, C!ProbeTimesOut, C!ChildExits, C!Parsed,
                  C!SpawnError, C!Abort, C!probing
    <2>2. QED
      BY <2>1 DEF C!CacheOK, C!Justified
  <1>3. QED
    BY <1>1, <1>2

\* The process ends only by an error that nobody hears.
LEMMA CrashKeeps ==
  ASSUME C!TypeOK, NEW c \in Calls, C!CallOK(c), CliOp(c)
  PROVE  C!CrashExplained'
  <1>1. CASE C!SpawnError(c)
    <2>1. UNCHANGED aborted /\ host = "up"
      BY <1>1 DEF C!SpawnError
    <2>2. CASE UNCHANGED host
      BY <2>1, <2>2 DEF C!CrashExplained
    <2>3. CASE UNCHANGED <<cli, result>> /\ ~C!ErrorHeard(c)
      <3>1. child[c] = "failing" /\ cli[c] # "running"
        BY <1>1, <2>3 DEF C!SpawnError, C!ErrorHeard
      <3>2. c \in aborted' /\ result'[c] = "error"
        BY <2>1, <2>3, <3>1 DEF C!CallOK, C!ChildOK
      <3>3. QED
        BY <3>2 DEF C!CrashExplained
    <2>4. QED
      BY <1>1, <2>2, <2>3 DEF C!SpawnError
  <1>2. CASE ~C!SpawnError(c)
    <2>1. host' = "up"
      BY <1>2 DEF CliOp, C!Refuse, C!Start, C!ProbeEnds, C!ProbeTimesOut, C!ChildExits,
                  C!Parsed, C!Abort
    <2>2. QED
      BY <2>1 DEF C!CrashExplained
  <1>3. QED
    BY <1>1, <1>2

LEMMA CliStepInv == C!IInv /\ [C!Next]_(C!vars) => C!IInv'
  <1> SUFFICES ASSUME C!IInv, [C!Next]_(C!vars) PROVE C!IInv'
    OBVIOUS
  <1>1. ASSUME NEW c \in Calls, CliOp(c) PROVE C!IInv'
    <2>1. C!TypeOK /\ C!CacheOK /\ \A d \in Calls : C!CallOK(d)
      BY DEF C!IInv
    <2>2. C!CallOK(c)' /\ C!CacheOK' /\ C!CrashExplained'
      BY <1>1, <2>1, CliKeeps, CacheKeeps, CrashKeeps
    <2>3. OnlyCall(c) /\ SharedGrow
      BY <1>1, <2>1, CliLocal DEF CliOp
    <2>4. C!TypeOK' /\ \A d \in Calls : C!CallOK(d)'
      BY <2>1, <2>2, <2>3, Spread
    <2>5. QED
      BY <2>2, <2>4 DEF C!IInv
  <1>2. CASE UNCHANGED C!vars
    <2>1. C!TypeOK' /\ C!CacheOK' /\ C!CrashExplained'
      BY <1>2 DEF C!vars, C!probing, C!IInv, C!TypeOK, C!CacheOK, C!CrashExplained,
                  C!Justified
    <2>2. ASSUME NEW c \in Calls PROVE C!CallOK(c)'
      BY <1>2 DEF C!vars, C!probing, C!IInv, C!CallOK, C!RunOK, C!ChildOK,
                  C!AttemptsBounded, C!Justified
    <2>3. QED
      BY <2>1, <2>2 DEF C!IInv
  <1>3. QED
    BY <1>1, <1>2 DEF C!Next, C!Over, CliOp

\* The two generations understand the arguments that are built for them.
LEMMA ArgsUnderstood ==
  C!Understands(1, C!RunArgs(1)) /\ C!Understands(2, C!RunArgs(2))
  <1>1. 1 # 2 /\ 2 # 1
    OBVIOUS
  <1>2. \A m : /\ C!RunArgs(m).dir = (m = 1)
               /\ C!RunArgs(m).standalone = (m = 2)
               /\ C!RunArgs(m).cwd = IF m = 2 THEN "project" ELSE "evalRoot"
    BY DEF C!RunArgs
  <1>3. C!RunArgs(2).cwd = "project"
    BY <1>2
  <1>4. C!RunArgs(1).dir = TRUE /\ C!RunArgs(1).standalone = FALSE
    BY <1>1, <1>2
  <1>5. C!RunArgs(2).dir = FALSE /\ C!RunArgs(2).standalone = TRUE
    BY <1>1, <1>2
  <1>6. QED
    BY <1>1, <1>3, <1>4, <1>5, Zenon DEF C!Understands

\* What the invariant says of a run.
LEMMA CliInvFits == C!IInv => C!ArgumentsFit
  <1> SUFFICES ASSUME C!IInv, NEW c \in Calls, cli[c] = "running",
                      Generation[C!RunnerCommand(c)] # 0, EnvMajor = 0
               PROVE  \/ C!Understands(Generation[C!RunnerCommand(c)], C!RunArgs(major[c]))
                      \/ major[c] = 1 /\ C!RunnerCommand(c) \in failed
    BY DEF C!ArgumentsFit
  <1>1. C!RunnerCommand(c) # Blank /\ C!Justified(C!RunnerCommand(c), major[c])
    BY CommandFacts DEF C!IInv, C!CallOK, C!RunOK
  <1>2. major[c] \in 0..2
    BY DEF C!IInv, C!TypeOK
  <1>3. C!Understands(1, C!RunArgs(1)) /\ C!Understands(2, C!RunArgs(2))
    BY ArgsUnderstood
  <1>4. QED
    BY <1>1, <1>2, <1>3 DEF C!Justified

\* A probe is only spawned for what the cache does not know.
LEMMA OneRound ==
  C!IInv /\ [C!Next]_(C!vars) =>
    [\A c \in Calls : cli[c] # "probing" /\ cli'[c] = "probing"
                        => C!ProbeCommand(c) \notin answered]_(C!vars)
  <1> SUFFICES ASSUME C!IInv, C!Next, NEW c \in Calls, cli[c] # "probing", cli'[c] = "probing"
               PROVE  C!ProbeCommand(c) \notin answered
    OBVIOUS
  <1>1. C!TypeOK
    BY DEF C!IInv
  <1>2. PICK d \in Calls : CliOp(d)
    BY DEF C!Next, C!Over, C!vars, CliOp
  <1>3. d = c
    BY <1>1, <1>2, CliLocal DEF CliOp, OnlyCall, Sets, C!TypeOK
  <1>4. C!Start(c)
    <2>1. ASSUME C!Spawn(c) PROVE FALSE
      BY <1>1, <2>1, SpawnFacts DEF C!TypeOK
    <2>2. ASSUME NEW r, C!Return(c, r) PROVE FALSE
      BY <1>1, <2>2 DEF C!Return, C!TypeOK
    <2>3. ASSUME C!TryAgain(c) PROVE FALSE
      BY <2>1, <2>2, <2>3 DEF C!TryAgain
    <2>4. ASSUME NEW out, C!Resolved(c, out) PROVE FALSE
      BY <1>1, <2>2, <2>3, <2>4 DEF C!Resolved, C!TypeOK
    <2>5. ~C!ChildExits(c)
      BY <1>1, <2>2, <2>4 DEF C!ChildExits
    <2>6. ~C!Refuse(c) /\ ~C!ProbeEnds(c) /\ ~C!ProbeTimesOut(c)
      BY <2>1, <2>2 DEF C!Refuse, C!ProbeEnds, C!ProbeTimesOut
    <2>7. ~C!Parsed(c) /\ ~C!SpawnError(c) /\ ~C!Abort(c)
      BY <2>2, <2>3 DEF C!Parsed, C!SpawnError, C!Abort
    <2>8. QED
      BY <1>2, <1>3, <2>5, <2>6, <2>7 DEF CliOp
  <1>5. C!Known(c) = 0
    <2>1. C!Known(c) # 0 => C!Spawn(c)
      BY <1>4 DEF C!Start
    <2>2. C!Spawn(c) => cli'[c] # "probing"
      BY <1>1, SpawnFacts DEF C!TypeOK
    <2>3. QED
      BY <2>1, <2>2
  <1>6. QED
    BY <1>5, CommandFacts DEF C!Known, C!IInv, C!CacheOK

-----------------------------------------------------------------------------
(* The composition *)

\* A step of the process is a step or a stutter of the gate, and of the calls.
LEMMA StepIsGate == GatedNext => [Next]_vars
  <1>1. \A c : Finally(c) => UNCHANGED vars \/ (c \in Callers /\ Release(c))
    BY GatedTypes DEF Finally
  <1>2. ASSUME NEW c \in Calls, CliStep(c) PROVE [Next]_vars
    BY <1>1, <1>2 DEF CliStep, Begin, Resumes, TimesOut, BinaryEnds, Aborts, Next
  <1>3. ASSUME NEW c \in Gated, GateStep(c) PROVE Next
    BY <1>3, GatedTypes DEF GateStep, Ask, Admitted, AcquireRejects, Next
  <1>4. Microtask => Next
    BY DEF Microtask, Next
  <1>5. QED
    BY <1>2, <1>3, <1>4 DEF GatedNext, Over

LEMMA StepIsCalls == GatedNext => [C!Next]_(C!vars)
  <1>1. Gated \subseteq Calls
    BY CliTypes DEF Gated, C!ConstantsOK
  <1>2. ASSUME NEW c \in Calls, CliStep(c) PROVE C!Next
    BY <1>2 DEF CliStep, Begin, Resumes, TimesOut, BinaryEnds, Aborts, C!Next
  <1>3. UNCHANGED calls => UNCHANGED C!vars
    BY DEF calls, C!vars, C!probing
  <1>4. ASSUME NEW c \in Gated, GateStep(c) PROVE [C!Next]_(C!vars)
    BY <1>1, <1>3, <1>4 DEF GateStep, Ask, Admitted, AcquireRejects, C!Next
  <1>5. Microtask => UNCHANGED C!vars
    BY <1>3 DEF Microtask
  <1>6. Over => [C!Next]_(C!vars)
    BY <1>3 DEF Over, C!Next
  <1>7. QED
    BY <1>2, <1>4, <1>5, <1>6 DEF GatedNext

\* The composition implements both of its parts: what is proved of the gate
\* and of the calls alone holds of them together.
THEOREM GatedIsBoth == GatedSpec => Spec /\ C!Spec
  <1>1. GatedInit => Init /\ C!Init
    BY DEF GatedInit
  <1>2. UNCHANGED allVars => UNCHANGED vars /\ UNCHANGED C!vars
    BY DEF allVars, calls, vars, C!vars, C!probing
  <1>3. [GatedNext]_allVars => [Next]_vars /\ [C!Next]_(C!vars)
    BY <1>2, StepIsGate, StepIsCalls
  <1>4. QED
    BY <1>1, <1>3, PTL DEF GatedSpec, Spec, C!Spec

LEMMA CliInvariance == GatedSpec => []C!IInv
  <1>1. C!Spec => []C!IInv
    BY CliInit, CliStepInv, PTL DEF C!Spec
  <1>2. QED
    BY <1>1, GatedIsBoth, PTL

\* Types of all that the calls of the CLI keep, and the bound on their runs
\* (opencode-cli-provider.js:179, 209).
THEOREM CliTypeCorrect ==
  GatedSpec => [](C!TypeOK /\ \A c \in Calls : C!AttemptsBounded(c))
  <1>1. C!IInv => C!TypeOK /\ \A c \in Calls : C!AttemptsBounded(c)
    BY DEF C!IInv, C!CallOK
  <1>2. QED
    BY <1>1, CliInvariance, PTL

\* A CLI that runs was given the arguments of its own generation, whatever the
\* interleaving of probes (opencode-cli-plugin-provider.js:40-44).
THEOREM ArgumentsAlwaysFit == GatedSpec => []ArgumentsFit
  <1>1. C!IInv => ArgumentsFit
    BY CliInvFits DEF ArgumentsFit
  <1>2. QED
    BY <1>1, CliInvariance, PTL

\* Only a call aborted before its run began takes promptfoo down
\* (opencode-cli-provider.js:270-280).
THEOREM CrashesAreExplained == GatedSpec => []CrashExplained
  <1>1. C!IInv => CrashExplained
    BY DEF C!IInv, CrashExplained
  <1>2. QED
    BY <1>1, CliInvariance, PTL

\* No command is probed after a probe of it has ended
\* (opencode-cli-invocation.js:33-35).
THEOREM ProbesOnce == GatedSpec => OneRoundOfProbes
  <1>1. C!Spec => C!OneRoundOfProbes
    <2>1. C!Spec => []C!IInv
      BY CliInit, CliStepInv, PTL DEF C!Spec
    <2>2. QED
      BY <2>1, OneRound, PTL DEF C!Spec, C!OneRoundOfProbes
  <1>2. QED
    BY <1>1, GatedIsBoth, PTL DEF OneRoundOfProbes

-----------------------------------------------------------------------------
(* Calls and slots *)

\* A call that has returned does nothing more.
LEMMA CliPlaces ==
  ASSUME C!TypeOK, NEW c \in Calls, CliOp(c)
  PROVE  cli[c] = "returned" => cli'[c] = "returned"
  <1>1. CASE C!Refuse(c) \/ C!Start(c)
    BY <1>1 DEF C!Refuse, C!Start
  <1>2. CASE C!ProbeEnds(c) \/ C!Parsed(c)
    BY <1>2 DEF C!ProbeEnds, C!Parsed
  <1>3. CASE C!ProbeTimesOut(c) \/ C!Abort(c)
    BY <1>3 DEF C!ProbeTimesOut, C!Abort
  <1>4. CASE C!ChildExits(c)
    <2>1. cli[c] # "running" => cli' = cli
      BY <1>4 DEF C!ChildExits
    <2>2. QED
      BY <2>1
  <1>5. CASE C!SpawnError(c)
    <2>1. cli[c] # "running" => cli' = cli
      BY <1>5 DEF C!SpawnError, C!ErrorHeard
    <2>2. QED
      BY <2>1
  <1>6. QED
    BY <1>1, <1>2, <1>3, <1>4, <1>5 DEF CliOp

\* A caller on its way to a slot has not begun; so the gate moves no other.
LEMMA NotBegun ==
  ASSUME C!TypeOK, Joined, NEW c \in Gated, pc[c] \in {"askGlobal", "admitted", "askKind"}
  PROVE  cli[c] = "idle"
  <1>1. c \in Calls
    BY CliTypes DEF Gated, C!ConstantsOK
  <1>2. QED
    BY <1>1, CliTypesOf DEF Joined

LEMMA MicrotaskMoves ==
  ASSUME IInv, C!TypeOK, Joined, Microtask, NEW d \in Gated, cli[d] # "idle"
  PROVE  pc'[d] = pc[d]
  <1>1. ASSUME NEW g \in Gates, queue[g] # <<>>, StartHead(g)
        PROVE  pc'[d] = pc[d]
    <2>1. PICK h \in Callers : h = Head(queue[g])
      BY <1>1, HeadIsCaller
    <2>2. /\ pc[h] = IF g = Global THEN "askGlobal" ELSE "askKind"
          /\ d # h => pc'[d] = pc[d]
      BY <1>1, <2>1, StartHeadFacts, GatedTypes
    <2>3. h # d
      BY <2>2, NotBegun
    <2>4. QED
      BY <2>2, <2>3
  <1>2. ASSUME NEW g \in Gates, Kick(g) PROVE pc'[d] = pc[d]
    BY <1>1, <1>2 DEF Kick, KickStarts
  <1>3. ASSUME NEW g \in Gates, NEW c \in Callers, TaskEnded(g, c) PROVE pc'[d] = pc[d]
    BY <1>1, <1>3 DEF TaskEnded
  <1>4. QED
    BY <1>2, <1>3 DEF Microtask

LEMMA JoinedStep ==
  IInv /\ C!IInv /\ Joined /\ [GatedNext]_allVars => Joined'
  <1> SUFFICES ASSUME IInv, C!IInv, Joined, [GatedNext]_allVars PROVE Joined'
    OBVIOUS
  <1> DEFINE At(d) == /\ cli[d] \in {"probing", "running", "parsing"} => pc[d] = "working"
                      /\ cli[d] = "returned" => pc[d] \in {"idle", "failed"}
  <1>1. TypeOK /\ C!TypeOK /\ (\A d \in Gated : At(d)) /\ Gated \subseteq Calls
    BY CliTypes DEF IInv, C!IInv, Joined, Gated, C!ConstantsOK
  <1>2. ASSUME \A d \in Gated : At(d)' PROVE Joined'
    BY <1>2 DEF Joined
  <1> HIDE DEF At
  <1>3. ASSUME NEW d \in Gated, cli'[d] = cli[d], pc'[d] = pc[d] \/ cli[d] = "idle"
        PROVE  At(d)'
    BY <1>1, <1>3 DEF At
  <1>4. ASSUME NEW c \in Gated, Ask(c) \/ Admitted(c) PROVE Joined'
    <2>1. cli[c] = "idle" /\ cli' = cli
      BY <1>1, <1>4, NotBegun DEF Ask, Admitted, calls, EnterDirectly, AskKind
    <2>2. ASSUME NEW d \in Gated, d # c PROVE pc'[d] = pc[d]
      BY <1>1, <1>4, <2>2, GatedTypes DEF Ask, Admitted, CallApi, EnterDirectly, AskKind, TypeOK
    <2>3. QED
      BY <1>2, <1>3, <2>1, <2>2
  <1>5. ASSUME NEW c \in Gated, AcquireRejects(c) PROVE Joined'
    <2>1. C!Refuse(c) /\ pc' = [pc EXCEPT ![c] = "failed"]
      BY <1>5 DEF AcquireRejects, ReadFails
    <2>2. cli' = [cli EXCEPT ![c] = "returned"]
      BY <2>1 DEF C!Refuse, C!Return
    <2>3. At(c)'
      BY <1>1, <2>1, <2>2, GatedTypes DEF At, TypeOK, C!TypeOK
    <2>4. ASSUME NEW d \in Gated, d # c PROVE At(d)'
      BY <1>1, <1>3, <2>1, <2>2, <2>4, GatedTypes DEF TypeOK, C!TypeOK
    <2>5. QED
      BY <1>2, <2>3, <2>4
  <1>6. CASE Microtask
    <2>1. cli' = cli
      BY <1>6 DEF Microtask, calls
    <2>2. QED
      BY <1>1, <1>2, <1>3, <1>6, <2>1, MicrotaskMoves
  <1>7. ASSUME NEW c \in Calls, CliStep(c) PROVE Joined'
    <2>1. CliOp(c) /\ Finally(c)
      BY <1>7 DEF CliStep, Begin, Resumes, TimesOut, BinaryEnds, Aborts, CliOp
    <2>2. \A d \in Calls : d # c => cli'[d] = cli[d]
      BY <1>1, <2>1, CliLocal DEF CliOp, OnlyCall, Sets, C!TypeOK
    <2>3. ASSUME NEW d \in Gated, d # c PROVE At(d)'
      <3>1. pc'[d] = pc[d]
        BY <1>1, <2>1, <2>3, GatedTypes DEF Finally, Release, vars, TypeOK
      <3>2. QED
        BY <1>1, <1>3, <2>2, <2>3, <3>1
    <2>4. CASE c \in Gated /\ cli[c] # "returned" /\ cli'[c] = "returned"
      <3>1. pc'[c] = "idle"
        BY <1>1, <2>1, <2>4, GatedTypes DEF Finally, Release, TypeOK
      <3>2. At(c)'
        BY <2>4, <3>1 DEF At
      <3>3. QED
        BY <1>2, <2>3, <3>2
    <2>5. CASE c \in Gated /\ ~(cli[c] # "returned" /\ cli'[c] = "returned")
      <3>1. pc' = pc
        BY <2>1, <2>5 DEF Finally, vars
      <3>2. cli[c] = "idle" /\ cli'[c] # "idle" => pc[c] = "working"
        <4>1. CASE Begin(c)
          BY <2>5, <4>1 DEF Begin
        <4>2. CASE ~Begin(c)
          <5>1. Resumes(c) \/ TimesOut(c) \/ BinaryEnds(c) \/ Aborts(c)
            BY <1>7, <4>2 DEF CliStep
          <5>2. cli[c] = "idle" => cli'[c] = "idle"
            BY <5>1 DEF Resumes, TimesOut, BinaryEnds, Aborts, C!Parsed, C!SpawnError, C!ErrorHeard,
                        C!ProbeTimesOut, C!ProbeEnds, C!ChildExits, C!Abort
          <5>3. QED
            BY <5>2
        <4>3. QED
          BY <4>1, <4>2
      <3>3. cli[c] = "returned" => cli'[c] = "returned"
        BY <1>1, <2>1, CliPlaces
      <3>4. cli[c] \in Places
        BY <1>1, CliTypesOf DEF Places
      <3>5. At(c)'
        BY <1>1, <2>5, <3>1, <3>2, <3>3, <3>4 DEF At, Places
      <3>6. QED
        BY <1>2, <2>3, <3>5
    <2>6. CASE c \notin Gated
      BY <1>2, <2>3, <2>6
    <2>7. QED
      BY <2>4, <2>5, <2>6
  <1>8. CASE Over \/ UNCHANGED allVars
    <2>1. cli' = cli /\ pc' = pc
      BY <1>8 DEF Over, allVars, calls, vars, C!Over, C!vars
    <2>2. QED
      BY <1>2, <1>3, <2>1
  <1>9. QED
    BY <1>4, <1>5, <1>6, <1>7, <1>8 DEF GatedNext, GateStep

LEMMA GatedInvariance == GatedSpec => [](IInv /\ C!IInv /\ Joined)
  <1>1. GatedInit => Joined
    BY CliTypes DEF GatedInit, C!Init, Joined, Gated, C!ConstantsOK
  <1>2. QED
    BY <1>1, JoinedStep, Invariance, CliInvariance, GatedIsBoth, PTL DEF GatedSpec

\* A CLI that nobody told to stop runs in the slot of its call, and no way out
\* of callApi keeps the slot (opencode-cli-plugin-provider.js:243-335).
THEOREM SlotsAreReturned == GatedSpec => []CallsInSlots
  <1>1. ASSUME IInv, C!IInv, Joined, NEW c \in Gated
        PROVE  /\ child[c] = "alive" => c \in held[Global] \ settled[Global]
               /\ cli[c] = "returned" /\ c \in held[Global] \ settled[Global]
                    => pc[c] = "failed"
    <2>1. c \in Calls /\ c \in Callers /\ Global \in Gates
      BY CliTypes, GatedTypes DEF Gated, C!ConstantsOK, Gates
    <2>2. child[c] = "alive" => cli[c] = "running"
      BY <1>1, <2>1 DEF C!IInv, C!CallOK, C!ChildOK
    <2>3. pc[c] = "working" => c \in held[Global] \ settled[Global]
      BY <1>1, <2>1 DEF IInv, CallerOK
    <2>4. pc[c] = "idle" => c \notin held[Global] \ settled[Global]
      BY <1>1, <2>1 DEF IInv, CallerOK
    <2>5. QED
      BY <1>1, <2>2, <2>3, <2>4 DEF Joined
  <1>2. IInv /\ C!IInv /\ Joined => CallsInSlots
    BY <1>1 DEF CallsInSlots
  <1>3. QED
    BY <1>2, GatedInvariance, PTL

\* A running CLI is a call that works in its slot.
LEMMA InvCapsProcesses == IInv /\ C!IInv /\ Joined => CliProcessesCapped
  <1>1. ASSUME IInv, C!IInv, Joined PROVE CliProcessesCapped
    <2>1. Running \subseteq Working
      <3>1. ASSUME NEW c \in Gated, child[c] = "alive" PROVE pc[c] = "working"
        BY <1>1, <3>1, CliTypes DEF C!IInv, C!CallOK, C!ChildOK, Joined, Gated, C!ConstantsOK
      <3>2. QED
        BY <3>1, GatedTypes DEF Working, Running
    <2>2. IsFiniteSet(Working) /\ Cardinality(Working) <= Cap[Global]
      <3>1. IsFiniteSet(Working)
        BY CallersFinite, FS_Subset DEF Working
      <3>2. QED
        BY <1>1, <3>1, InvImpliesCaps DEF CapsRespected
    <2>3. Cardinality(Running) <= Cardinality(Working) /\ IsFiniteSet(Running)
      BY <2>1, <2>2, FS_Subset
    <2>4. Cardinality(Running) \in Nat /\ Cardinality(Working) \in Nat /\ Cap[Global] \in Nat
      BY <2>2, <2>3, FS_CardinalityType, CapType DEF Gates
    <2>5. QED
      BY <2>2, <2>3, <2>4 DEF CliProcessesCapped
  <1>2. QED
    BY <1>1

\* No more CLI processes behind the gate, but those told to stop, than
\* AD_EVALS_MAX_CONCURRENCY (concurrency.js:127).
THEOREM ProcessesCapped == GatedSpec => []CliProcessesCapped
  BY InvCapsProcesses, GatedInvariance, PTL

Bounded ==
  /\ IsFiniteSet(Running) /\ Cardinality(Running) \in Nat
  /\ Cardinality(Running) <= Cap[Global] /\ Cap[Global] \in Nat

LEMMA RunningBounded == IInv /\ C!IInv /\ Joined => Bounded
  <1>1. IsFiniteSet(Running)
    BY CallersFinite, GatedTypes, FS_Subset DEF Running
  <1>2. IInv /\ C!IInv /\ Joined => Cardinality(Running) <= Cap[Global]
    BY InvCapsProcesses DEF CliProcessesCapped
  <1>3. QED
    BY <1>1, <1>2, FS_CardinalityType, CapType DEF Gates, Bounded

\* A step of a call changes no child but its own, and the bound on what runs
\* after it is the room there was before it.
LEMMA ProcessStep ==
  C!IInv /\ Bounded /\ Bounded' /\ [GatedNext]_allVars => [Processes!Next]_Running
  <1> SUFFICES ASSUME C!IInv, Bounded, Bounded', [GatedNext]_allVars
               PROVE  [Processes!Next]_Running
    OBVIOUS
  <1>1. ASSUME NEW c \in Gated, c \notin Running, Running' = Running \cup {c}
        PROVE  Processes!Enter(c)
    <2>1. IsFiniteSet(Running) /\ Cardinality(Running) \in Nat
      BY DEF Bounded
    <2>2. Cardinality(Running') = Cardinality(Running) + 1
      BY <1>1, <2>1, FS_AddElement
    <2>3. Cardinality(Running') <= Cap[Global] /\ Cap[Global] \in Nat
      BY DEF Bounded
    <2>4. Cardinality(Running) < Cap[Global]
      BY <2>1, <2>2, <2>3
    <2>5. QED
      BY <1>1, <2>4 DEF Processes!Enter, Processes!Cardinality, Cardinality
  <1>2. ASSUME NEW c \in Calls, CliOp(c) PROVE [Processes!Next]_Running
    <2>1. Sets(child, child', c, Children)
      BY <1>2, CliLocal DEF OnlyCall, CliOp, C!IInv
    <2>2. \A d \in Gated \ {c} : d \in Running <=> d \in Running'
      BY <2>1 DEF Sets, Running
    <2>3. \/ Running' = Running
          \/ c \in Gated /\ c \notin Running /\ Running' = Running \cup {c}
          \/ c \in Gated /\ c \in Running /\ Running' = Running \ {c}
      BY <2>2 DEF Running
    <2>4. QED
      BY <1>1, <2>3 DEF Processes!Next, Processes!Leave
  <1>3. C!Next => [Processes!Next]_Running
    <2>1. C!Over => Running' = Running
      BY DEF C!Over, C!vars, Running
    <2>2. QED
      BY <1>2, <2>1 DEF C!Next, CliOp
  <1>4. UNCHANGED C!vars => Running' = Running
    BY DEF C!vars, Running
  <1>5. UNCHANGED allVars => UNCHANGED C!vars
    BY DEF allVars, calls, C!vars, C!probing
  <1>6. QED
    BY <1>3, <1>4, <1>5, StepIsCalls

\* concurrency.js:127, seen from the CLI: behind its queues, retries and aborts
\* the processes are a set that never exceeds the cap.
THEOREM ProcessesFillSlots == GatedSpec => ImplementsBoundedProcesses
  <1>1. GatedInit => Processes!Init
    BY CliTypes DEF GatedInit, C!Init, Processes!Init, Running, Gated, C!ConstantsOK
  <1>2. QED
    BY <1>1, RunningBounded, ProcessStep, GatedInvariance, PTL
    DEF GatedSpec, Processes!Spec, ImplementsBoundedProcesses
=============================================================================
