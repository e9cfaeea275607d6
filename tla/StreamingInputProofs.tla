------------------------ MODULE StreamingInputProofs ------------------------
(***************************************************************************)
(* For every number of retries, cap and idle stop, and whatever the SDK    *)
(* and the caller do: the input generator loses no wake-up, the agent's    *)
(* messages are accounted for, an ended input stays ended, and an error    *)
(* result decides the call.                                                *)
(***************************************************************************)
EXTENDS StreamingInput, TLAPS

LEMMA CapFacts == Cap \in Nat /\ (MaxAutoReplies > 0 => Cap = MaxAutoReplies)
  BY LimitTypes DEF Cap

LEMMA InitInv == Init => IInv
<1> SUFFICES ASSUME Init PROVE IInv
  OBVIOUS
<1>1. TypeOK
  <2>1. attempt \in 0..(Retries + 1)
    BY RetriesType DEF Init
  <2>2. QED
    BY <2>1 DEF Init, TypeOK
<1>2. NoLostWakeup /\ InputAccounted /\ NothingAfterEnd /\ OutcomeAtEnd
  BY DEF Init, NoLostWakeup, InputAccounted, NothingAfterEnd, OutcomeAtEnd
<1>3. QED
  BY <1>1, <1>2 DEF IInv

\* A message that is being answered is the only one under way.
LEMMA OneUnderWay ==
  ASSUME TypeOK, InputAccounted, InTurn
  PROVE  queue = 0 /\ taken = answered + 1 /\ replies = answered
  BY DEF TypeOK, InputAccounted, InTurn

-----------------------------------------------------------------------------
(* The steps of the loop *)

\* What a result does to the input: it ends it and adds nothing, or it adds
\* one message below the cap.
LEMMA ResultCases ==
  ASSUME TypeOK, Result
  PROVE  /\ InTurn /\ answered' = answered + 1 /\ taken' = taken
         /\ UNCHANGED <<pc, attempt, aborted, controller, outcome>>
         /\ gen' = (IF gen = "waiting" THEN "woken" ELSE gen)
         /\ \/ ended' = TRUE /\ queue' = queue /\ replies' = replies
            \/ /\ replies < MaxAutoReplies /\ replies' = replies + 1
               /\ queue' = queue + 1 /\ ended' = ended
         /\ idle' \in Nat /\ tool' \in BOOLEAN /\ texts' \in BOOLEAN /\ error' \in BOOLEAN
         /\ success' \in {"null", "blank", "text"}
<1> USE DEF TypeOK, EndInput, Wake
<1>1. /\ InTurn /\ answered' = answered + 1
      /\ UNCHANGED <<pc, attempt, aborted, controller, outcome>>
  BY DEF Result
<1>2. CASE ErrorResult
  BY <1>1, <1>2 DEF ErrorResult
<1>3. CASE OtherResult
  BY <1>1, <1>3 DEF OtherResult
<1>4. ASSUME NEW r \in {"null", "blank", "text"}, Success(r)
      PROVE  /\ taken' = taken
             /\ gen' = (IF gen = "waiting" THEN "woken" ELSE gen)
             /\ \/ ended' = TRUE /\ queue' = queue /\ replies' = replies
                \/ /\ replies < MaxAutoReplies /\ replies' = replies + 1
                   /\ queue' = queue + 1 /\ ended' = ended
             /\ idle' \in Nat /\ tool' \in BOOLEAN /\ texts' \in BOOLEAN /\ error' \in BOOLEAN
             /\ success' \in {"null", "blank", "text"}
  <2> DEFINE n == IF tool THEN 0 ELSE idle + 1
  <2>1. /\ success' = (IF r = "null" THEN success ELSE r)
        /\ idle' = n
        /\ UNCHANGED <<taken, texts, error>>
    BY <1>4 DEF Success
  <2>2. CASE IdleStops(n) \/ CapReached
    <3>1. EndInput /\ UNCHANGED <<queue, replies, tool>>
      BY <1>4, <2>2 DEF Success
    <3>2. QED
      BY <2>1, <3>1
  <2>3. CASE ~(IdleStops(n) \/ CapReached)
    <3>1. /\ replies' = replies + 1 /\ tool' = FALSE
          /\ PushAutoReply /\ UNCHANGED ended
      BY <1>4, <2>3 DEF Success
    <3>2. replies < MaxAutoReplies
      BY <2>3, LimitTypes DEF CapReached
    <3>3. queue' = queue + 1 /\ gen' = (IF gen = "waiting" THEN "woken" ELSE gen)
      BY <3>1 DEF PushAutoReply
    <3>4. taken' = taken /\ ended' = ended
      BY <2>1, <3>1
    <3>5. idle' \in Nat
      BY <2>1
    <3>6. texts' \in BOOLEAN /\ error' \in BOOLEAN /\ tool' \in BOOLEAN
      BY <2>1, <3>1
    <3>7. success' \in {"null", "blank", "text"}
      BY <2>1
    <3>8. QED
      BY <3>1, <3>2, <3>3, <3>4, <3>5, <3>6, <3>7
  <2>4. QED
    BY <2>2, <2>3
<1>5. QED
  BY <1>1, <1>2, <1>3, <1>4 DEF Result

LEMMA ResultInv == ASSUME IInv, Result PROVE IInv'
<1> USE DEF IInv, TypeOK
<1>0. /\ answered' = answered + 1 /\ taken' = taken /\ idle' \in Nat
      /\ \/ queue' = queue /\ replies' = replies
         \/ queue' = queue + 1 /\ replies' = replies + 1
  BY ResultCases
<1>1. queue = 0 /\ taken = answered + 1 /\ replies = answered /\ pc = "loop"
  BY ResultCases, OneUnderWay DEF InTurn
<1>2. TypeOK'
  <2>1. /\ queue' \in Nat /\ taken' \in Nat /\ answered' \in Nat
        /\ replies' \in Nat /\ idle' \in Nat
    BY <1>0
  <2>2. /\ ended' \in BOOLEAN /\ tool' \in BOOLEAN /\ texts' \in BOOLEAN
        /\ error' \in BOOLEAN
    BY ResultCases
  <2>3. /\ success' \in {"null", "blank", "text"}
        /\ gen' \in {"ready", "waiting", "woken", "done"}
    BY ResultCases
  <2>4. UNCHANGED <<pc, attempt, aborted, controller, outcome>>
    BY ResultCases
  <2>5. QED
    BY <2>1, <2>2, <2>3, <2>4
<1>3. NoLostWakeup'
  BY ResultCases DEF NoLostWakeup
<1>4. InputAccounted'
  <2>1. queue' + taken' = 1 + replies' /\ answered' <= taken'
    BY <1>0, <1>1
  <2>2. replies' <= answered'
    BY <1>0, <1>1
  <2>3. replies' <= Cap
    <3>1. replies <= Cap
      BY <1>1 DEF InputAccounted
    <3>2. CASE replies' = replies
      BY <3>1, <3>2
    <3>3. CASE replies < MaxAutoReplies /\ replies' = replies + 1
      BY <3>3, CapFacts, LimitTypes
    <3>4. QED
      BY ResultCases, <3>2, <3>3
  <2>4. QED
    BY <2>1, <2>2, <2>3 DEF InputAccounted, Cap
<1>5. NothingAfterEnd'
  <2>1. CASE UNCHANGED queue
    BY ResultCases, <1>1, <2>1 DEF NothingAfterEnd
  <2>2. CASE ended' = ended
    <3>1. ~(ended /\ ~aborted)
      BY <1>1 DEF NothingAfterEnd
    <3>2. QED
      BY ResultCases, <2>2, <3>1 DEF NothingAfterEnd
  <2>3. QED
    BY ResultCases, <2>1, <2>2
<1>6. OutcomeAtEnd'
  BY ResultCases DEF OutcomeAtEnd
<1>7. QED
  BY <1>2, <1>3, <1>4, <1>5, <1>6

LEMMA NextInputInv == ASSUME IInv, NextInput PROVE IInv'
<1> USE DEF IInv, TypeOK, NextInput, turn
<1>1. TypeOK'
  OBVIOUS
<1>2. NoLostWakeup'
  BY DEF NoLostWakeup
<1>3. InputAccounted'
  BY DEF InputAccounted, Cap
<1>4. NothingAfterEnd'
  BY DEF NothingAfterEnd
<1>5. OutcomeAtEnd'
  BY DEF OutcomeAtEnd
<1>6. QED
  BY <1>1, <1>2, <1>3, <1>4, <1>5

\* How an attempt ends: the input is ended, and the call returns or goes on
\* with another attempt.
LEMMA AttemptEnds ==
  ASSUME IInv, StreamEnds \/ StreamThrows
  PROVE  IInv'
<1> USE DEF IInv, TypeOK, turn
<1>1. /\ pc = "loop" /\ EndInput
      /\ UNCHANGED <<aborted, controller, queue, taken, turn>>
  BY DEF StreamEnds, StreamThrows, Finally
<1>2. \/ \E res \in {"output", "error"} : Return(res) /\ UNCHANGED attempt
      \/ /\ attempt <= Retries /\ pc' = "loading" /\ attempt' = attempt + 1
         /\ UNCHANGED outcome
  BY DEF StreamEnds, StreamThrows, Settle
<1>3. /\ pc' \in {"loading", "returned"} /\ attempt' \in 0..(Retries + 1)
      /\ outcome' \in {"none", "output", "error"}
  BY <1>2, RetriesType DEF Return
<1>4. ended' = TRUE /\ gen' \in {"ready", "woken", "done"}
  BY <1>1 DEF EndInput, Wake
<1>5. TypeOK'
  BY <1>1, <1>3, <1>4
<1>6. NoLostWakeup' /\ InputAccounted' /\ NothingAfterEnd'
  BY <1>3, <1>4 DEF NoLostWakeup, InputAccounted, NothingAfterEnd
<1>7. OutcomeAtEnd'
  BY <1>1, <1>2 DEF OutcomeAtEnd, Return
<1>8. QED
  BY <1>5, <1>6, <1>7

-----------------------------------------------------------------------------

LEMMA StepInv == IInv /\ [Next]_vars => IInv'
<1> SUFFICES ASSUME IInv, [Next]_vars PROVE IInv'
  OBVIOUS
<1> USE DEF IInv
<1>1. CASE Begin
  BY <1>1, RetriesType DEF Begin, input, turn, TypeOK, NoLostWakeup,
                           InputAccounted, NothingAfterEnd, OutcomeAtEnd
<1>2. CASE LoadFails
  BY <1>2 DEF LoadFails, Return, input, turn, TypeOK, NoLostWakeup,
              InputAccounted, NothingAfterEnd, OutcomeAtEnd
<1>3. CASE Open
  <2>1. TypeOK'
    BY <1>3 DEF Open, AlreadyAborted, TypeOK
  <2>2. InputAccounted'
    BY <1>3, CapFacts DEF Open, InputAccounted, Cap
  <2>3. NoLostWakeup' /\ NothingAfterEnd' /\ OutcomeAtEnd'
    BY <1>3 DEF Open, NoLostWakeup, NothingAfterEnd, OutcomeAtEnd
  <2>4. QED
    BY <2>1, <2>2, <2>3
<1>4. CASE Abort
  <2>1. TypeOK'
    BY <1>4 DEF Abort, EndInput, Wake, turn, TypeOK
  <2>2. NoLostWakeup'
    BY <1>4 DEF Abort, EndInput, Wake, NoLostWakeup
  <2>3. InputAccounted' /\ NothingAfterEnd' /\ OutcomeAtEnd'
    BY <1>4 DEF Abort, turn, TypeOK, InputAccounted, NothingAfterEnd, OutcomeAtEnd, Cap
  <2>4. QED
    BY <2>1, <2>2, <2>3
<1>5. CASE NextInput
  BY <1>5, NextInputInv
<1>6. CASE Assistant
  <2>1. TypeOK'
    <3>1. texts' \in BOOLEAN /\ tool' \in BOOLEAN
      BY <1>6 DEF Assistant, TypeOK
    <3>2. UNCHANGED <<pc, attempt, aborted, controller, input, answered, replies,
                      idle, success, error, outcome>>
      BY <1>6 DEF Assistant
    <3>3. QED
      BY <3>1, <3>2 DEF input, TypeOK
  <2>2. InputAccounted'
    BY <1>6 DEF Assistant, input, InputAccounted, Cap
  <2>3. NoLostWakeup' /\ NothingAfterEnd' /\ OutcomeAtEnd'
    BY <1>6 DEF Assistant, input, NoLostWakeup, NothingAfterEnd, OutcomeAtEnd
  <2>4. QED
    BY <2>1, <2>2, <2>3
<1>7. CASE Result
  BY <1>7, ResultInv
<1>8. CASE StreamEnds \/ StreamThrows
  BY <1>8, AttemptEnds
<1>9. CASE UNCHANGED vars
  <2> USE <1>9 DEF vars, input, turn
  <2>1. TypeOK'
    BY DEF TypeOK
  <2>2. NoLostWakeup' /\ NothingAfterEnd' /\ OutcomeAtEnd'
    BY DEF NoLostWakeup, NothingAfterEnd, OutcomeAtEnd
  <2>3. InputAccounted'
    BY DEF InputAccounted, Cap
  <2>4. QED
    BY <2>1, <2>2, <2>3
<1>10. QED
  BY <1>1, <1>2, <1>3, <1>4, <1>5, <1>6, <1>7, <1>8, <1>9 DEF Next, Over

\* The call of claude-agent-sdk-provider.js never leaves the invariant.
THEOREM Invariance == Spec => []IInv
  BY InitInv, StepInv, PTL DEF Spec

\* claude-agent-sdk-provider.js:205-231: no reply and no end of the input is
\* lost on the generator, in whatever order the two sides run.
THEOREM WakeupsKept == Spec => []NoLostWakeup
<1>1. IInv => NoLostWakeup
  BY DEF IInv
<1>2. QED
  BY Invariance, <1>1, PTL

\* claude-agent-sdk-provider.js:22-26, 303-319: the prompt once and one message for each auto-reply, never
\* more than the cap, for every cap, also a negative one.
THEOREM MessagesAccounted == Spec => []InputAccounted
<1>1. IInv => InputAccounted
  BY DEF IInv
<1>2. QED
  BY Invariance, <1>1, PTL

\* claude-agent-sdk-provider.js:285-306, 321: what the loop has ended stays ended.
THEOREM EndedForGood == Spec => EndIsFinal
<1> DEFINE A == ended /\ ~aborted /\ pc = "loop" /\ pc' = "loop"
                  => UNCHANGED <<queue, taken, replies>>
<1>1. ASSUME IInv, [Next]_vars PROVE A
  <2> SUFFICES ASSUME ended, ~aborted, pc = "loop", pc' = "loop"
               PROVE  UNCHANGED <<queue, taken, replies>>
    OBVIOUS
  <2>1. queue = 0 /\ ~InTurn
    BY <1>1 DEF IInv, TypeOK, NothingAfterEnd, InTurn
  <2>2. CASE NextInput
    BY <2>1, <2>2 DEF NextInput, turn
  <2>3. CASE Abort
    BY <2>3 DEF Abort, turn
  <2>4. CASE UNCHANGED vars
    BY <2>4 DEF vars, input, turn
  <2>5. CASE Begin \/ LoadFails \/ Open
    BY <2>5 DEF Begin, LoadFails, Open
  <2>6. CASE Assistant \/ Result
    BY <2>1, <2>6 DEF Assistant, Result
  <2>7. CASE StreamEnds \/ StreamThrows
    BY <2>7 DEF StreamEnds, StreamThrows, turn
  <2>8. QED
    BY <1>1, <2>2, <2>3, <2>4, <2>5, <2>6, <2>7 DEF Next, Over
<1>2. QED
  BY Invariance, <1>1, PTL DEF EndIsFinal, Spec

\* claude-agent-sdk-provider.js:334, 338-343: no output and no further attempt after an error result.
THEOREM ErrorsDecide == Spec => ErrorDecides
<1> DEFINE A == error /\ pc = "loop" => attempt' = attempt /\ outcome' # "output"
<1>1. ASSUME IInv, [Next]_vars PROVE A
  <2> SUFFICES ASSUME error, pc = "loop"
               PROVE  attempt' = attempt /\ outcome' # "output"
    OBVIOUS
  <2>1. outcome = "none"
    BY <1>1 DEF IInv, OutcomeAtEnd
  <2>2. CASE StreamEnds
    BY <2>2 DEF StreamEnds, Settle, Return
  <2>3. CASE StreamThrows
    BY <2>3 DEF StreamThrows, Return
  <2>4. CASE NextInput \/ Abort \/ Assistant \/ Result
    BY <2>1, <2>4 DEF NextInput, Abort, Assistant, Result
  <2>5. CASE Begin \/ LoadFails \/ Open
    BY <2>5 DEF Begin, LoadFails, Open
  <2>6. CASE UNCHANGED vars
    BY <2>1, <2>6 DEF vars
  <2>7. QED
    BY <1>1, <2>2, <2>3, <2>4, <2>5, <2>6 DEF Next, Over
<1>2. QED
  BY Invariance, <1>1, PTL DEF ErrorDecides, Spec

\* The types; among them, never more than 1 + empty_output_retries attempts
\* (claude-agent-sdk-provider.js:338-343).
THEOREM TypeCorrect == Spec => []TypeOK
  BY Invariance, PTL DEF IInv
=============================================================================
