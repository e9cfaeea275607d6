---------------------- MODULE SubprocessDispatchProofs ----------------------
(***************************************************************************)
(* For a conversation of any length and every combination of faults: the   *)
(* bridge matches replies although it ignores their ids, leaves no adapter *)
(* behind, and keeps the contract of CaseContract.                         *)
(*                                                                         *)
(* The argument is InFlight: while the bridge waits for init, a turn or    *)
(* finalize, exactly one request is under way and it is the one the bridge *)
(* waits for.  It holds because every failure leads to shutdown, after     *)
(* which nothing but shutdown is asked.                                    *)
(***************************************************************************)
EXTENDS SubprocessDispatch, SequenceTheorems, TLAPS

\* Append on a sequence, element by element.
LEMMA AppendFacts ==
  ASSUME NEW S, NEW q \in Seq(S), NEW e \in S
  PROVE  /\ Append(q, e) \in Seq(S)
         /\ Len(Append(q, e)) = Len(q) + 1
         /\ \A i \in 1..Len(q) : Append(q, e)[i] = q[i]
         /\ Append(q, e)[Len(q) + 1] = e
  OBVIOUS

\* Tail of a non-empty sequence, element by element.
LEMMA TailFacts ==
  ASSUME NEW S, NEW q \in Seq(S), q # <<>>
  PROVE  /\ Head(q) = q[1] /\ q[1] \in S
         /\ Tail(q) \in Seq(S)
         /\ Len(Tail(q)) = Len(q) - 1
         /\ \A i \in 1..Len(Tail(q)) : Tail(q)[i] = q[i + 1]
  OBVIOUS

\* What is left of the pipe after its first k parts.
LEMMA RestFacts ==
  ASSUME NEW S, NEW q \in Seq(S), NEW k \in 1..Len(q)
  PROVE  /\ SubSeq(q, k + 1, Len(q)) \in Seq(S)
         /\ Len(SubSeq(q, k + 1, Len(q))) = Len(q) - k
         /\ SubSeq(q, 1, k) \in Seq(S)
         /\ Len(SubSeq(q, 1, k)) = k
         /\ Head(SubSeq(q, 1, k)) = q[1] /\ q[1] \in S
  OBVIOUS

LEMMA RequestFacts ==
  /\ Turns \in Nat /\ Turns > 0
  /\ Requests = 0..Turns + 2
  /\ InitReq = 0 /\ FinalizeReq = Turns + 1 /\ ShutdownReq = Turns + 2
  /\ NoId = -1 /\ Unanswered = -2
  BY TurnsType DEF Requests, InitReq, FinalizeReq, ShutdownReq, NoId, Unanswered

LEMMA InitInv == Init => IInv
<1> SUFFICES ASSUME Init PROVE IInv
  OBVIOUS
<1> USE RequestFacts DEF Init
<1>1. TypeOK
  <2>1. InitReq \in Requests /\ Unanswered \in Requests \cup {NoId, Unanswered}
    OBVIOUS
  <2>2. answer \in [Requests -> Requests \cup {NoId, Unanswered}]
    BY <2>1
  <2>3. inp \in Seq(Requests) /\ out \in Seq(Parts)
    OBVIOUS
  <2>4. completed \in 0..Turns /\ begun \in 0..Turns /\ good \in 0..Turns
    OBVIOUS
  <2>5. QED
    BY <2>1, <2>2, <2>3, <2>4 DEF TypeOK
<1>2. Exited /\ InFlight /\ NoOrphan
  BY DEF Exited, InFlight, Asking, NoOrphan
<1>3. Counted
  BY DEF Counted
<1>4. AnswersMatch
  BY DEF AnswersMatch
<1>5. QED
  BY <1>1, <1>2, <1>3, <1>4 DEF IInv

-----------------------------------------------------------------------------
(* The steps of the bridge *)

\* Leaving the try block keeps the invariant, whatever is still in stdout.
LEMMA EndCaseInv ==
  ASSUME IInv, Asking, NEW res \in {"ok", "error"}, EndCase(res),
         UNCHANGED <<completed, adapterVars, exitSeen>>,
         res = "ok" => completed = Turns,
         out' \in Seq(Parts), endSeen' \in BOOLEAN,
         answer' \in [Requests -> Requests \cup {NoId, Unanswered}],
         AnswersMatch'
  PROVE  IInv'
<1> USE RequestFacts
<1>1. inp \in Seq(Requests)
  BY DEF IInv, TypeOK
<1>2. ShutdownReq \in Requests
  OBVIOUS
<1>3. CASE exitSeen = "code"
  <2>1. bpc' = "returned" /\ UNCHANGED <<step, inp, signals>> /\ result' = res
    BY <1>3 DEF EndCase
  <2>2. TypeOK'
    BY <2>1 DEF IInv, TypeOK, adapterVars
  <2>3. Exited' /\ InFlight' /\ NoOrphan'
    BY <2>1, <1>3 DEF IInv, Exited, InFlight, Asking, NoOrphan, adapterVars
  <2>4. Counted'
    BY <2>1 DEF IInv, Counted, adapterVars
  <2>5. QED
    BY <2>2, <2>3, <2>4 DEF IInv
<1>4. CASE exitSeen # "code"
  <2>1. /\ step' = ShutdownReq /\ bpc' \in {"waiting", "uncaught"}
        /\ inp' = inp \/ inp' = Append(inp, ShutdownReq)
        /\ UNCHANGED signals /\ result' = res
    BY <1>4 DEF EndCase, Send
  <2>2. TypeOK'
    <3>1. inp' \in Seq(Requests)
      <4>1. Append(inp, ShutdownReq) \in Seq(Requests)
        BY <1>1, <1>2, AppendFacts
      <4>2. QED
        BY <2>1, <1>1, <4>1
    <3>2. QED
      BY <2>1, <1>2, <3>1 DEF IInv, TypeOK, adapterVars
  <2>3. Exited' /\ InFlight' /\ NoOrphan'
    BY <2>1 DEF IInv, Exited, InFlight, Asking, NoOrphan, adapterVars
  <2>4. Counted'
    <3>0. begun <= step' /\ \A i \in 1..Len(inp) : inp[i] <= step'
      <4>1. begun \in 0..Turns /\ \A i \in 1..Len(inp) : inp[i] \in Requests
        BY <1>1 DEF IInv, TypeOK
      <4>2. QED
        BY <4>1, <2>1
    <3>1. CASE inp' = inp
      BY <2>1, <3>0, <3>1 DEF IInv, Counted, adapterVars
    <3>2. CASE inp' = Append(inp, ShutdownReq)
      <4>1. /\ Len(inp') = Len(inp) + 1
            /\ \A i \in 1..Len(inp) : inp'[i] = inp[i]
            /\ inp'[Len(inp) + 1] = ShutdownReq
        BY <3>2, <1>1, <1>2, AppendFacts
      <4>2. Len(inp) <= 1 /\ (Len(inp) = 1 => inp[1] < ShutdownReq)
        BY DEF IInv, InFlight, Asking, TypeOK
      <4>3. Len(inp) \in Nat /\ Len(inp) \in {0, 1}
        <5>1. Len(inp) \in Nat
          BY <1>1
        <5>2. QED
          BY <4>2, <5>1
      <4>4. \A i \in 1..Len(inp') : inp'[i] \in 1..Turns =>
               i \in 1..Len(inp) /\ inp'[i] = inp[i]
        BY <4>1, <4>3
      <4>5. \A i, j \in 1..Len(inp') : i < j => inp'[i] < inp'[j]
        <5>1. Len(inp) \in {0, 1} /\ Len(inp') = Len(inp) + 1
          BY <4>1, <4>3
        <5>2. CASE Len(inp) = 0
          <6>1. \A i, j \in 1..1 : ~(i < j)
            OBVIOUS
          <6>2. QED
            BY <5>1, <5>2, <6>1
        <5>3. CASE Len(inp) = 1
          <6>1. \A i, j \in 1..2 : i < j => i = 1 /\ j = 2
            OBVIOUS
          <6>2. 1 \in 1..Len(inp) /\ Len(inp') = 2 /\ Len(inp) + 1 = 2
            BY <5>1, <5>3
          <6>3. inp'[1] < inp'[2]
            BY <4>1, <4>2, <5>3, <6>2
          <6>4. QED
            BY <6>1, <6>2, <6>3
        <5>4. QED
          BY <5>1, <5>2, <5>3
      <4>6. \A i \in 1..Len(inp') : inp'[i] <= step'
        <5>1. ShutdownReq <= step'
          BY <2>1
        <5>2. QED
          BY <4>1, <4>3, <3>0, <5>1
      <4>7. QED
        BY <4>4, <4>5, <4>6, <3>0, <2>1 DEF IInv, Counted, adapterVars
    <3>3. QED
      BY <2>1, <3>1, <3>2
  <2>5. QED
    BY <2>2, <2>3, <2>4 DEF IInv
<1>5. QED
  BY <1>3, <1>4

\* The end of the shutdown request keeps it too.
LEMMA AfterShutdownInv ==
  ASSUME IInv, bpc = "waiting", step = ShutdownReq, AfterShutdown,
         UNCHANGED <<adapterVars, exitSeen>>,
         out' \in Seq(Parts), endSeen' \in BOOLEAN,
         answer' \in [Requests -> Requests \cup {NoId, Unanswered}],
         AnswersMatch'
  PROVE  IInv'
<1> USE RequestFacts
<1>1. /\ (bpc' = "returned" /\ exitSeen = "code") \/ bpc' = "grace"
      /\ signals' \in {signals, signals \cup {"TERM"}}
      /\ UNCHANGED <<step, completed, result, inp>>
  BY DEF AfterShutdown
<1>2. TypeOK'
  BY <1>1 DEF IInv, TypeOK, adapterVars
<1>3. Exited' /\ InFlight' /\ NoOrphan'
  BY <1>1 DEF IInv, Exited, InFlight, Asking, NoOrphan, adapterVars
<1>4. Counted'
  BY <1>1 DEF IInv, Counted, adapterVars
<1>5. QED
  BY <1>2, <1>3, <1>4 DEF IInv

\* A rejection: timeout, end of stdout, or a line that does not parse.
LEMMA RejectInv ==
  ASSUME IInv, bpc = "waiting", Reject,
         UNCHANGED <<answer, adapterVars, exitSeen>>,
         out' \in Seq(Parts), endSeen' \in BOOLEAN
  PROVE  IInv'
<1>1. AnswersMatch'
  BY DEF IInv, AnswersMatch
<1>2. answer' \in [Requests -> Requests \cup {NoId, Unanswered}]
  BY DEF IInv, TypeOK
<1>3. CASE step = ShutdownReq
  BY <1>1, <1>2, <1>3, AfterShutdownInv DEF Reject
<1>4. CASE step # ShutdownReq
  <2>1. Asking
    BY <1>4, RequestFacts DEF Asking, IInv, TypeOK
  <2>2. EndCase("error") /\ UNCHANGED completed
    BY <1>4 DEF Reject
  <2>3. QED
    BY <1>1, <1>2, <2>1, <2>2, EndCaseInv
<1>5. QED
  BY <1>3, <1>4

\* What Deliver accepts while something but shutdown is asked empties the pipe,
\* and answers the request asked, or is the load error of a dead adapter.
LEMMA AcceptedReply ==
  ASSUME IInv, Asking, NEW k \in 1..Len(out), Parses(SubSeq(out, 1, k))
  PROVE  /\ Head(SubSeq(out, 1, k)) = out[1] /\ out[1] \in Parts
         /\ k = Len(out) /\ Len(out) > 0
         /\ \/ out[1].id = step /\ Len(inp) = 0
            \/ out[1].id = NoId /\ out[1].kind = "error" /\ apc = "dead"
         /\ apc \notin {"busy", "loading"}
<1>1. out \in Seq(Parts)
  BY DEF IInv, TypeOK
<1>2. /\ Len(SubSeq(out, 1, k)) = k /\ Len(out) \in Nat
      /\ Head(SubSeq(out, 1, k)) = out[1] /\ out[1] \in Parts
  BY <1>1, RestFacts
<1>3. k \in Nat /\ k > 0 /\ k <= Len(out) /\ 1 \in 1..Len(out)
      /\ (Len(out) = 1 \/ Len(out) > 1)
  BY <1>2
<1>4. k = Len(out)
  <2>1. CASE Len(out) = 1
    BY <2>1, <1>3
  <2>2. CASE Len(out) # 1
    <3>1. Len(out) > 1
      BY <2>2, <1>3
    <3>2. Len(out) = 2 /\ out[1].part = "head"
      BY <3>1 DEF IInv, InFlight
    <3>3. k > 1
      BY <3>2, <1>2 DEF Parses
    <3>4. QED
      BY <3>2, <3>3, <1>3
  <2>3. QED
    BY <2>1, <2>2
<1>5. \/ out[1].id = step /\ Len(inp) = 0
      \/ out[1].id = NoId /\ out[1].kind = "error" /\ apc = "dead"
  BY <1>3 DEF IInv, InFlight
<1>6. apc \notin {"busy", "loading"}
  BY <1>2, <1>3 DEF IInv, InFlight
<1>7. QED
  BY <1>2, <1>3, <1>4, <1>5, <1>6

\* A good reply sends the bridge on to the next request.
LEMMA GoOnInv ==
  ASSUME IInv, Asking, step < FinalizeReq,
         out # <<>>, out[1].id = step, ~Failed(out[1]), Len(inp) = 0,
         apc \notin {"busy", "loading"},
         completed' = IF step = InitReq THEN completed ELSE completed + 1,
         Send(step + 1), out' = <<>>,
         UNCHANGED <<result, signals, adapterVars, exitSeen, endSeen>>,
         answer' \in [Requests -> Requests \cup {NoId, Unanswered}],
         AnswersMatch'
  PROVE  IInv'
<1> USE RequestFacts
<1>1. /\ step \in 0..Turns /\ inp \in Seq(Requests) /\ out \in Seq(Parts)
      /\ bpc = "waiting" /\ begun \in Int /\ good \in Int
  BY DEF IInv, TypeOK, Asking
<1>2. step' = step + 1 /\ bpc' \in {"waiting", "uncaught"}
  BY DEF Send
<1>3. inp' = inp \/ inp' = Append(inp, step + 1)
  BY DEF Send
<1>4. step + 1 \in Requests
  BY <1>1
<1>5. /\ inp' \in Seq(Requests) /\ Len(inp') \in 0..1
      /\ Len(inp') = 1 => inp'[1] = step + 1
  <2>1. Len(inp) = 0
    OBVIOUS
  <2>2. CASE inp' = inp
    BY <1>1, <2>1, <2>2
  <2>3. CASE inp' = Append(inp, step + 1)
    <3>1. /\ Append(inp, step + 1) \in Seq(Requests)
          /\ Len(Append(inp, step + 1)) = Len(inp) + 1
          /\ Append(inp, step + 1)[Len(inp) + 1] = step + 1
      BY <1>1, <1>4, AppendFacts
    <3>2. Len(inp) + 1 = 1
      BY <2>1
    <3>3. QED
      BY <2>3, <3>1, <3>2
  <2>4. QED
    BY <1>3, <2>2, <2>3
<1>6. completed = (IF step = InitReq THEN 0 ELSE step - 1) /\ result = "none"
  BY DEF IInv, InFlight
<1>7. completed' = step
  BY <1>1, <1>6
<1>8. good >= step /\ begun <= step
  <2>1. begun <= step /\ good >= completed
    BY DEF IInv, Counted
  <2>2. CASE step = InitReq
    BY <2>1, <2>2, <1>1, <1>6
  <2>3. CASE step # InitReq
    <3>1. step \in 1..Turns /\ 1 \in 1..Len(out)
      BY <2>3, <1>1
    <3>2. QED
      BY <3>1, <2>1, <1>1 DEF IInv, Counted
  <2>4. QED
    BY <2>2, <2>3
<1>9. TypeOK'
  <2>1. out' \in Seq(Parts)
    OBVIOUS
  <2>2. QED
    BY <1>1, <1>2, <1>4, <1>5, <1>7, <2>1 DEF IInv, TypeOK, adapterVars
<1>10. Exited' /\ NoOrphan'
  BY <1>1, <1>2 DEF IInv, Exited, NoOrphan, adapterVars
<1>11. InFlight'
  <2>1. Len(out') = 0 /\ result' = result /\ apc' \notin {"busy", "loading"}
    BY DEF adapterVars
  <2>2. (1..Len(out')) = {}
    BY <2>1
  <2>3. completed' = IF step' = InitReq THEN 0 ELSE step' - 1
    BY <1>1, <1>2, <1>7
  <2>4. Len(inp') <= 1 /\ (Len(inp') = 1 => inp'[1] = step')
    <3>1. Len(inp') <= 1
      <4>1. CASE inp' = inp
        BY <4>1
      <4>2. CASE inp' = Append(inp, step + 1)
        <5>1. Len(inp') = Len(inp) + 1
          BY <4>2, <1>1, <1>4, AppendFacts
        <5>2. QED
          BY <5>1
      <4>3. QED
        BY <1>3, <4>1, <4>2
    <3>2. Len(inp') = 1 => inp'[1] = step'
      BY <1>2, <1>5
    <3>3. QED
      BY <3>1, <3>2
  <2>5. ~(Len(out') > 1) /\ ~(Len(out') = 1)
    BY <2>1
  <2>6. QED
    BY <1>6, <2>1, <2>2, <2>3, <2>4, <2>5 DEF InFlight
<1>12. Counted'
  <2>1. completed' <= good' /\ good' <= begun' /\ begun' <= completed' + 1
    BY <1>1, <1>7, <1>8 DEF IInv, Counted, adapterVars
  <2>2. /\ begun' <= step'
        /\ \A i \in 1..Len(inp') : inp'[i] = step + 1
    <3>1. begun' <= step'
      BY <1>1, <1>2, <1>8 DEF adapterVars
    <3>2. CASE Len(inp') = 0
      BY <3>1, <3>2
    <3>3. CASE Len(inp') = 1
      <4>1. \A i \in 1..1 : i = 1
        OBVIOUS
      <4>2. QED
        BY <1>5, <3>1, <3>3, <4>1
    <3>4. QED
      BY <1>5, <3>2, <3>3
  <2>3. \A i \in 1..Len(inp') : begun' < inp'[i] /\ inp'[i] <= completed' + 1
                                /\ inp'[i] <= step'
    BY <1>1, <1>2, <1>7, <1>8, <2>2 DEF adapterVars
  <2>4. \A i, j \in 1..Len(inp') : i < j => inp'[i] < inp'[j]
    BY <1>5
  <2>5. QED
    BY <1>6, <2>1, <2>2, <2>3, <2>4 DEF IInv, Counted, adapterVars
<1>13. QED
  BY <1>9, <1>10, <1>11, <1>12 DEF IInv

\* A data event keeps the invariant.
LEMMA DeliverInv ==
  ASSUME IInv, NEW k \in 1..Len(out), Deliver(k)
  PROVE  IInv'
<1> USE RequestFacts
<1>1. /\ out \in Seq(Parts) /\ out' = SubSeq(out, k + 1, Len(out))
      /\ UNCHANGED <<adapterVars, exitSeen, endSeen>>
      /\ endSeen' \in BOOLEAN /\ step \in Requests
  BY DEF IInv, TypeOK, Deliver
<1>2. out' \in Seq(Parts) /\ Len(out') = Len(out) - k
  BY <1>1, RestFacts
<1>3. CASE bpc # "waiting"
  <2>1. UNCHANGED <<bridgeVars, inp>>
    BY <1>3 DEF Deliver
  <2>2. bpc # "start"
    BY DEF Deliver
  <2>3. TypeOK' /\ Exited' /\ InFlight' /\ AnswersMatch' /\ NoOrphan'
    BY <1>1, <1>2, <1>3, <2>1, <2>2
    DEF IInv, TypeOK, Exited, InFlight, Asking, AnswersMatch, NoOrphan,
        bridgeVars, adapterVars
  <2>4. Counted'
    BY <1>1, <1>3, <2>1 DEF IInv, Counted, bridgeVars, adapterVars
  <2>5. QED
    BY <2>3, <2>4 DEF IInv
<1>4. CASE bpc = "waiting" /\ ~Parses(SubSeq(out, 1, k))
  BY <1>1, <1>2, <1>4, RejectInv DEF Deliver
<1>5. CASE bpc = "waiting" /\ Parses(SubSeq(out, 1, k))
  <2> DEFINE reply == Head(SubSeq(out, 1, k))
  <2>1. answer' = [answer EXCEPT ![step] = reply.id] /\ Accept(reply)
    BY <1>5 DEF Deliver
  <2>2. reply \in Parts
    BY <1>1, RestFacts
  <2>3. answer' \in [Requests -> Requests \cup {NoId, Unanswered}]
    <3>1. reply.id \in Requests \cup {NoId}
      BY <2>2 DEF Parts
    <3>2. QED
      BY <2>1, <3>1 DEF IInv, TypeOK
  <2>4. CASE step = ShutdownReq
    <3>1. AnswersMatch'
      BY <2>1, <2>4 DEF IInv, AnswersMatch, TypeOK
    <3>2. AfterShutdown
      BY <2>1, <2>4 DEF Accept, FinalizeAnswered
    <3>3. QED
      BY <1>1, <1>2, <1>5, <2>3, <2>4, <3>1, <3>2, AfterShutdownInv
  <2>5. CASE step # ShutdownReq
    <3>1. Asking
      BY <1>1, <1>5, <2>5 DEF Asking
    <3>2. /\ reply = out[1] /\ k = Len(out) /\ Len(out) > 0
          /\ \/ out[1].id = step /\ Len(inp) = 0
             \/ out[1].id = NoId /\ out[1].kind = "error" /\ apc = "dead"
          /\ apc \notin {"busy", "loading"}
      BY <1>5, <3>1, AcceptedReply
    <3>3. AnswersMatch'
      <4>1. reply.id \in {step, NoId}
        BY <3>2
      <4>2. QED
        BY <2>1, <4>1 DEF IInv, AnswersMatch, TypeOK
    <3>4. CASE FinalizeAnswered
      <4>1. step = FinalizeReq /\ EndCase("ok") /\ UNCHANGED completed
        BY <3>4 DEF FinalizeAnswered
      <4>2. completed = Turns
        BY <3>1, <4>1 DEF IInv, InFlight
      <4>3. QED
        BY <1>1, <1>2, <2>3, <3>1, <3>3, <4>1, <4>2, EndCaseInv
    <3>5. CASE step < FinalizeReq /\ Failed(reply)
      <4>1. EndCase("error") /\ UNCHANGED completed
        BY <2>1, <3>5 DEF Accept, FinalizeAnswered
      <4>2. QED
        BY <1>1, <1>2, <2>3, <3>1, <3>3, <4>1, EndCaseInv
    <3>6. CASE step < FinalizeReq /\ ~Failed(reply)
      <4>1. /\ completed' = IF step = InitReq THEN completed ELSE completed + 1
            /\ Send(step + 1) /\ UNCHANGED <<result, signals>>
        BY <2>1, <3>6 DEF Accept, FinalizeAnswered
      <4>2. out[1].id = step /\ Len(inp) = 0 /\ ~Failed(out[1])
        BY <3>2, <3>6 DEF Failed
      <4>3. out # <<>> /\ out' = <<>>
        BY <1>1, <1>2, <3>2
      <4>4. QED
        BY <1>1, <2>3, <3>1, <3>2, <3>3, <3>6, <4>1, <4>2, <4>3, GoOnInv
    <3>7. QED
      BY <2>1, <2>5, <3>4, <3>5, <3>6 DEF Accept
  <2>6. QED
    BY <2>4, <2>5
<1>6. QED
  BY <1>3, <1>4, <1>5

\* The call begins: the one request under way is init.
LEMMA SpawnInv == IInv /\ Spawn => IInv'
<1> SUFFICES ASSUME IInv, Spawn PROVE IInv'
  OBVIOUS
<1> USE RequestFacts
<1>1. /\ bpc = "start" /\ apc = "off" /\ step = InitReq /\ completed = 0
      /\ result = "none" /\ inp = <<>> /\ out = <<>> /\ sess = "none"
      /\ begun = 0 /\ exitSeen = "no" /\ good = 0
  BY DEF Spawn, IInv, Exited, Counted, TypeOK
<1>2. /\ UNCHANGED <<completed, result, answer, signals, cur, sess, begun, good,
                     exit, exitSeen, endSeen, out>>
      /\ apc' = "loading" /\ step' = InitReq
      /\ bpc' = "waiting" /\ inp' = Append(inp, InitReq)
  BY <1>1 DEF Spawn, Send
<1>3. /\ inp' \in Seq(Requests) /\ Len(inp') = 1 /\ inp'[1] = InitReq
  <2>1. InitReq \in Requests
    OBVIOUS
  <2>2. inp' = <<InitReq>>
    BY <1>1, <1>2
  <2>3. QED
    BY <2>1, <2>2
<1>4. \A i \in 1..Len(inp') : i = 1
  BY <1>3
<1>5. TypeOK'
  BY <1>1, <1>2, <1>3 DEF IInv, TypeOK
<1>6. Exited' /\ AnswersMatch' /\ NoOrphan'
  BY <1>1, <1>2 DEF IInv, Exited, AnswersMatch, NoOrphan
<1>7. InFlight'
  BY <1>1, <1>2, <1>3 DEF InFlight, Asking
<1>8. Counted'
  BY <1>1, <1>2, <1>3, <1>4 DEF IInv, Counted
<1>9. QED
  BY <1>5, <1>6, <1>7, <1>8 DEF IInv

\* The steps of the bridge that touch neither pipe.
LEMMA QuietBridgeInv ==
  ASSUME IInv, SpawnFails \/ GraceEnds \/ HostDies \/ ExitSeen
  PROVE  IInv'
<1>1. /\ UNCHANGED <<step, completed, result, answer, adapterVars, endSeen,
                     inp, out>>
      /\ bpc' # "start" /\ (bpc' = "waiting" => bpc = "waiting")
      /\ bpc' \in {"waiting", "grace", "returned", "uncaught", "killed"}
  BY DEF IInv, TypeOK, Exited, SpawnFails, GraceEnds, HostDies, ExitSeen,
         bridgeVars, HostGone
<1>2. /\ exitSeen' \in {"no", "code", "signal"} /\ signals' \subseteq {"TERM", "KILL"}
      /\ (exitSeen' # "no" => apc = "dead")
      /\ (bpc' = "returned" => apc = "dead" \/ "KILL" \in signals')
  BY DEF IInv, TypeOK, Exited, NoOrphan, SpawnFails, GraceEnds, HostDies,
         ExitSeen, bridgeVars
<1>3. TypeOK'
  BY <1>1, <1>2 DEF IInv, TypeOK, adapterVars
<1>4. Exited' /\ AnswersMatch' /\ NoOrphan'
  BY <1>1, <1>2 DEF IInv, Exited, AnswersMatch, NoOrphan, adapterVars
<1>5. InFlight'
  BY <1>1 DEF IInv, InFlight, Asking, adapterVars
<1>6. Counted'
  BY <1>1 DEF IInv, Counted, adapterVars
<1>7. QED
  BY <1>3, <1>4, <1>5, <1>6 DEF IInv

LEMMA TimeoutInv == IInv /\ Timeout => IInv'
<1> SUFFICES ASSUME IInv, Timeout PROVE IInv'
  OBVIOUS
<1>1. /\ bpc = "waiting" /\ Reject
      /\ UNCHANGED <<answer, adapterVars, exitSeen, endSeen, out>>
  BY DEF Timeout
<1>2. out' \in Seq(Parts) /\ endSeen' \in BOOLEAN
  BY <1>1 DEF IInv, TypeOK
<1>3. QED
  BY <1>1, <1>2, RejectInv

LEMMA StdoutEndInv == IInv /\ StdoutEnd => IInv'
<1> SUFFICES ASSUME IInv, StdoutEnd PROVE IInv'
  OBVIOUS
<1>1. /\ UNCHANGED <<adapterVars, exitSeen, out>> /\ endSeen' = TRUE
      /\ out' \in Seq(Parts)
  BY DEF StdoutEnd, IInv, TypeOK
<1>2. CASE bpc = "waiting"
  BY <1>1, <1>2, RejectInv DEF StdoutEnd
<1>3. CASE bpc # "waiting"
  <2>1. UNCHANGED <<bridgeVars, inp>>
    BY <1>3 DEF StdoutEnd
  <2>2. TypeOK' /\ Exited' /\ AnswersMatch' /\ NoOrphan'
    BY <1>1, <2>1 DEF IInv, TypeOK, Exited, AnswersMatch, NoOrphan,
                      bridgeVars, adapterVars
  <2>3. InFlight' /\ Counted'
    BY <1>1, <1>3, <2>1 DEF IInv, InFlight, Asking, Counted, bridgeVars, adapterVars
  <2>4. QED
    BY <2>2, <2>3 DEF IInv
<1>4. QED
  BY <1>2, <1>3

-----------------------------------------------------------------------------
(* The steps of the adapter *)

\* A reply that goes into an empty pipe is whole, or its head comes first.
LEMMA EmitFacts ==
  ASSUME out \in Seq(Parts), NEW id \in Requests \cup {NoId},
         NEW kind \in {"ack", "error", "turnError"}, Emit(id, kind)
  PROVE  /\ out' \in Seq(Parts)
         /\ Len(out) = 0 =>
              /\ Len(out') = 1 => out'[1].part = "whole"
              /\ Len(out') > 1 => Len(out') = 2 /\ out'[1].part = "head"
              /\ \A i \in 1..Len(out') : out'[i].id = id /\ out'[i].kind = kind
<1>1. \A part \in {"whole", "head", "tail"} : Reply(id, kind, part) \in Parts
  BY DEF Reply, Parts
<1>2. CASE out' = Append(out, Reply(id, kind, "whole"))
  <2>1. out' \in Seq(Parts) /\ Len(out') = Len(out) + 1
    BY <1>1, <1>2, AppendFacts
  <2>2. ASSUME Len(out) = 0
        PROVE  out' = <<Reply(id, kind, "whole")>>
    BY <1>2, <2>2
  <2>3. QED
    BY <2>1, <2>2 DEF Reply
<1>3. CASE out' = out \o <<Reply(id, kind, "head"), Reply(id, kind, "tail")>>
  <2>1. out' \in Seq(Parts)
    BY <1>1, <1>3
  <2>2. ASSUME Len(out) = 0
        PROVE  out' = <<Reply(id, kind, "head"), Reply(id, kind, "tail")>>
    BY <1>1, <1>3, <2>2
  <2>3. ASSUME Len(out) = 0
        PROVE  /\ Len(out') = 2
               /\ \A i \in 1..2 : out'[i].id = id /\ out'[i].kind = kind
               /\ out'[1].part = "head"
    BY <2>2, <2>3 DEF Reply
  <2>4. QED
    BY <2>1, <2>3
<1>4. QED
  BY <1>2, <1>3 DEF Emit

\* A handler that ends keeps the invariant: an acknowledged turn is a good one.
LEMMA EndHandlerInv ==
  ASSUME IInv, apc = "busy", NEW kind \in {"ack", "error", "turnError"},
         EndHandler(kind),
         UNCHANGED <<bridgeVars, exitSeen, endSeen, inp, cur, begun, exit>>,
         sess' \in {"none", "open", "closed"},
         good' = good \/ good' = good + 1, good' <= begun,
         kind = "ack" /\ cur \in 1..Turns => good' = good + 1
  PROVE  IInv'
<1> USE RequestFacts
<1>1. /\ out \in Seq(Parts) /\ cur \in Requests /\ step \in Requests
      /\ good \in Nat /\ begun \in 0..Turns /\ completed \in 0..Turns
  BY DEF IInv, TypeOK
<1>2. apc' \in {"reading", "closing"}
  BY DEF EndHandler
<1>3. /\ out' \in Seq(Parts)
      /\ ~HostGone /\ Len(out) = 0 =>
              /\ Len(out') = 1 => out'[1].part = "whole"
              /\ Len(out') > 1 => Len(out') = 2 /\ out'[1].part = "head"
              /\ \A i \in 1..Len(out') : out'[i].id = cur /\ out'[i].kind = kind
  BY <1>1, EmitFacts DEF EndHandler
<1>4. TypeOK'
  <2>1. good' \in 0..Turns
    BY <1>1
  <2>2. QED
    BY <1>2, <1>3, <2>1 DEF IInv, TypeOK, bridgeVars
<1>5. Exited' /\ AnswersMatch' /\ NoOrphan'
  BY <1>2 DEF IInv, Exited, AnswersMatch, NoOrphan, bridgeVars
<1>6. Asking => ~HostGone /\ Len(out) = 0 /\ Len(inp) = 0 /\ cur = step
  BY DEF IInv, InFlight, Asking, HostGone
<1>7. InFlight'
  <2>1. SUFFICES ASSUME Asking PROVE InFlight'
    BY DEF InFlight, Asking, bridgeVars
  <2>2. /\ Len(inp') = 0 /\ apc' \notin {"busy", "loading"}
        /\ Len(out') = 1 => out'[1].part = "whole"
        /\ Len(out') > 1 => Len(out') = 2 /\ out'[1].part = "head"
        /\ \A i \in 1..Len(out') : out'[i].id = step'
    BY <1>2, <1>3, <1>6, <2>1 DEF bridgeVars
  <2>3. /\ result' = "none"
        /\ completed' = IF step' = InitReq THEN 0 ELSE step' - 1
    BY <2>1 DEF IInv, InFlight, bridgeVars
  <2>4. Len(inp') <= 1 /\ ~(Len(inp') = 1)
    BY <2>2
  <2>5. QED
    BY <2>2, <2>3, <2>4 DEF InFlight
<1>8. Counted'
  <2>1. completed' <= good' /\ good' <= begun' /\ begun' <= completed' + 1
    BY <1>1 DEF IInv, Counted, bridgeVars
  <2>2. ASSUME bpc' = "waiting", step' \in 1..Turns
        PROVE  \A i \in 1..Len(out') :
                 out'[i].id = step' /\ ~Failed(out'[i]) => good' >= step'
    <3>1. Asking
      BY <2>2, <1>1 DEF Asking, bridgeVars
    <3>2. \A i \in 1..Len(out') : out'[i].kind = kind
      BY <1>3, <1>6, <3>1
    <3>3. CASE kind = "ack"
      <4>1. cur = step /\ good' = good + 1 /\ completed = step - 1
        BY <1>6, <2>2, <3>1, <3>3 DEF IInv, InFlight, bridgeVars
      <4>2. completed <= good
        BY DEF IInv, Counted
      <4>3. good' >= step'
        BY <1>1, <4>1, <4>2 DEF bridgeVars
      <4>4. QED
        BY <4>3
    <3>4. CASE kind # "ack"
      BY <3>2, <3>4 DEF Failed
    <3>5. QED
      BY <3>3, <3>4
  <2>3. QED
    BY <1>2, <2>1, <2>2 DEF IInv, Counted, bridgeVars
<1>9. QED
  BY <1>4, <1>5, <1>7, <1>8 DEF IInv

\* The handlers of the four requests.
LEMMA HandlersInv ==
  ASSUME IInv, HandleInit \/ HandleTurn \/ HandleFinalize \/ HandleShutdown,
         UNCHANGED <<bridgeVars, exitSeen, endSeen, inp>>
  PROVE  IInv'
<1> USE RequestFacts
<1>1. /\ cur \in Requests /\ good \in Nat /\ begun \in Nat /\ good <= begun
      /\ sess \in {"none", "open", "closed"}
  BY DEF IInv, TypeOK, Counted
<1>2. CASE HandleInit
  <2>1. /\ apc = "busy" /\ UNCHANGED <<cur, begun, good, exit>>
        /\ sess' \in {"none", "open", "closed"} /\ ~(cur \in 1..Turns)
        /\ EndHandler("ack") \/ EndHandler("error")
    BY <1>1, <1>2 DEF HandleInit
  <2>2. QED
    BY <1>1, <2>1, EndHandlerInv
<1>3. CASE HandleTurn
  <2>1. /\ apc = "busy" /\ UNCHANGED <<cur, sess, begun, exit>>
        /\ cur \in 1..Turns
    BY <1>3 DEF HandleTurn
  <2>2. CASE sess = "open" /\ good' = good + 1 /\ EndHandler("ack")
    <3>1. good < begun
      BY <2>1, <2>2 DEF IInv, Counted
    <3>2. good' <= begun
      BY <1>1, <2>2, <3>1
    <3>3. QED
      BY <1>1, <2>1, <2>2, <3>2, EndHandlerInv
  <2>3. CASE UNCHANGED good /\ EndHandler("turnError")
    BY <1>1, <2>1, <2>3, EndHandlerInv
  <2>4. QED
    BY <1>3, <2>2, <2>3 DEF HandleTurn
<1>4. CASE HandleFinalize \/ HandleShutdown
  <2>1. /\ apc = "busy" /\ UNCHANGED <<cur, sess, begun, good, exit>>
        /\ ~(cur \in 1..Turns)
        /\ EndHandler("ack") \/ EndHandler("error")
    BY <1>1, <1>4 DEF HandleFinalize, HandleShutdown
  <2>2. QED
    BY <1>1, <2>1, EndHandlerInv
<1>5. QED
  BY <1>2, <1>3, <1>4

\* The steps of the adapter that leave both pipes alone.
LEMMA QuietAdapterInv ==
  ASSUME IInv, LoadOk \/ Eof \/ CloseSessions \/ Dies,
         UNCHANGED <<bridgeVars, exitSeen, endSeen, inp>>
  PROVE  IInv'
<1>1. /\ UNCHANGED <<cur, begun, good, out>>
      /\ apc' \in {"reading", "closing", "dead"}
      /\ apc \in {"loading", "reading", "busy", "closing"}
      /\ sess' \in {"none", "open", "closed"} /\ exit' \in {"no", "code", "signal"}
  BY DEF IInv, TypeOK, LoadOk, Eof, CloseSessions, Dies, Alive
<1>2. TypeOK'
  BY <1>1 DEF IInv, TypeOK, bridgeVars
<1>3. Exited' /\ AnswersMatch' /\ NoOrphan'
  BY <1>1 DEF IInv, Exited, AnswersMatch, NoOrphan, bridgeVars
<1>4. InFlight'
  BY <1>1 DEF IInv, InFlight, Asking, bridgeVars
<1>5. Counted'
  BY <1>1 DEF IInv, Counted, bridgeVars
<1>6. QED
  BY <1>2, <1>3, <1>4, <1>5 DEF IInv

\* The load error is the one reply without an id, of an adapter that exits.
LEMMA LoadFailsInv ==
  ASSUME IInv, LoadFails, UNCHANGED <<bridgeVars, exitSeen, endSeen, inp>>
  PROVE  IInv'
<1> USE RequestFacts
<1>1. /\ UNCHANGED <<cur, sess, begun, good>> /\ exit' = "code"
      /\ apc = "loading" /\ apc' = "dead"
      /\ out \in Seq(Parts) /\ step \in Requests
  BY DEF LoadFails, IInv, TypeOK
<1>2. /\ out' \in Seq(Parts)
      /\ ~HostGone /\ Len(out) = 0 =>
              /\ Len(out') = 1 => out'[1].part = "whole"
              /\ Len(out') > 1 => Len(out') = 2 /\ out'[1].part = "head"
              /\ \A i \in 1..Len(out') : out'[i].id = NoId /\ out'[i].kind = "error"
  BY <1>1, EmitFacts DEF LoadFails
<1>3. TypeOK'
  BY <1>1, <1>2 DEF IInv, TypeOK, bridgeVars
<1>4. Exited' /\ AnswersMatch' /\ NoOrphan'
  BY <1>1 DEF IInv, Exited, AnswersMatch, NoOrphan, bridgeVars
<1>5. Asking => ~HostGone /\ Len(out) = 0
  BY <1>1 DEF IInv, InFlight, Asking, HostGone
<1>6. InFlight'
  BY <1>1, <1>2, <1>5 DEF IInv, InFlight, Asking, bridgeVars
<1>7. Counted'
  <2>1. ASSUME bpc' = "waiting", step' \in 1..Turns
        PROVE  \A i \in 1..Len(out') : ~Failed(out'[i])  => good' >= step'
    <3>1. Asking
      BY <1>1, <2>1 DEF Asking, bridgeVars
    <3>2. QED
      BY <1>2, <1>5, <3>1 DEF Failed
  <2>2. QED
    BY <1>1, <2>1 DEF IInv, Counted, bridgeVars
<1>8. QED
  BY <1>3, <1>4, <1>6, <1>7 DEF IInv

\* A request leaves stdin and its turn begins.
LEMMA ReadInv ==
  ASSUME IInv, Read, UNCHANGED <<bridgeVars, exitSeen, endSeen>>
  PROVE  IInv'
<1> USE RequestFacts
<1>1. /\ inp \in Seq(Requests) /\ inp # <<>> /\ out \in Seq(Parts)
      /\ begun \in 0..Turns /\ good \in 0..Turns /\ completed \in 0..Turns
      /\ step \in Requests
  BY DEF Read, IInv, TypeOK
<1>2. /\ Head(inp) = inp[1] /\ inp[1] \in Requests
      /\ Tail(inp) \in Seq(Requests) /\ Len(Tail(inp)) = Len(inp) - 1
      /\ \A i \in 1..Len(Tail(inp)) : Tail(inp)[i] = inp[i + 1]
  BY <1>1, TailFacts
<1>3. /\ apc = "reading" /\ apc' = "busy" /\ cur' = inp[1] /\ inp' = Tail(inp)
      /\ begun' = IF Runs(inp[1]) THEN begun + 1 ELSE begun
      /\ UNCHANGED <<sess, good, exit, out>>
  BY <1>2 DEF Read
<1>4. Len(inp) \in Nat /\ Len(inp) > 0 /\ 1 \in 1..Len(inp)
  BY <1>1
<1>5. Runs(inp[1]) => begun < inp[1] /\ inp[1] <= completed + 1
                      /\ inp[1] <= step /\ inp[1] \in 1..Turns
  BY <1>4 DEF Runs, IInv, Counted
<1>6. begun' \in 0..Turns
  BY <1>1, <1>3, <1>5
<1>7. TypeOK'
  BY <1>2, <1>3, <1>6 DEF IInv, TypeOK, bridgeVars
<1>8. Exited' /\ AnswersMatch' /\ NoOrphan'
  BY <1>3 DEF IInv, Exited, AnswersMatch, NoOrphan, bridgeVars
<1>9. InFlight'
  <2>1. SUFFICES ASSUME Asking PROVE InFlight'
    BY DEF InFlight, Asking, bridgeVars
  <2>2. Len(inp) = 1 /\ inp[1] = step
    <3>1. Len(inp) <= 1 /\ (Len(inp) = 1 => inp[1] = step)
      BY <2>1 DEF IInv, InFlight
    <3>2. Len(inp) = 1
      <4>1. \A n \in Nat : n > 0 /\ n <= 1 => n = 1
        OBVIOUS
      <4>2. QED
        BY <1>4, <3>1, <4>1
    <3>3. QED
      BY <3>1, <3>2
  <2>3. Len(out) = 0
    <3>1. \A i \in 1..Len(out) : FALSE
      BY <1>3, <2>1, <2>2 DEF IInv, InFlight
    <3>2. QED
      BY <1>1, <3>1
  <2>4. Len(inp') = 0 /\ Len(out') = 0 /\ cur' = step'
    BY <1>2, <1>3, <2>2, <2>3 DEF bridgeVars
  <2>5. /\ result' = "none"
        /\ completed' = IF step' = InitReq THEN 0 ELSE step' - 1
    BY <2>1 DEF IInv, InFlight, bridgeVars
  <2>6. Len(inp') <= 1 /\ ~(Len(inp') = 1) /\ ~(Len(out') > 1)
        /\ ~(Len(out') = 1) /\ (1..Len(out')) = {}
    BY <2>4
  <2>7. QED
    BY <1>3, <2>4, <2>5, <2>6 DEF InFlight
<1>10. Counted'
  <2>1. /\ completed' <= good' /\ good' <= begun' /\ begun' <= completed' + 1
        /\ begun' <= step' /\ (Runs(inp[1]) => good < begun')
    BY <1>1, <1>3, <1>5 DEF IInv, Counted, bridgeVars
  <2>2. ASSUME NEW i \in 1..Len(inp')
        PROVE  /\ i + 1 \in 1..Len(inp) /\ inp'[i] = inp[i + 1]
               /\ inp[1] < inp[i + 1]
    <3>1. i + 1 \in 1..Len(inp) /\ 1 < i + 1
      BY <1>2, <1>3, <1>4, <2>2
    <3>2. inp'[i] = inp[i + 1]
      BY <1>2, <1>3, <2>2
    <3>3. inp[1] < inp[i + 1]
      BY <1>4, <3>1 DEF IInv, Counted
    <3>4. QED
      BY <3>1, <3>2, <3>3
  <2>3. \A i \in 1..Len(inp') : inp'[i] <= step'
    BY <2>2 DEF IInv, Counted, bridgeVars
  <2>4. ASSUME NEW i \in 1..Len(inp'), inp'[i] \in 1..Turns
        PROVE  begun' < inp'[i] /\ inp'[i] <= completed' + 1
    <3>1. begun < inp[i + 1] /\ inp[i + 1] <= completed + 1
      BY <2>2, <2>4 DEF IInv, Counted
    <3>2. CASE Runs(inp[1])
      <4>1. begun' = begun + 1 /\ begun < inp[1] /\ inp[1] \in 1..Turns
        BY <1>3, <1>5, <3>2
      <4>2. inp[1] < inp'[i] /\ inp'[i] \in 1..Turns
        BY <2>2, <2>4
      <4>3. begun' < inp'[i]
        BY <1>1, <4>1, <4>2
      <4>4. QED
        BY <2>2, <3>1, <4>3 DEF bridgeVars
    <3>3. CASE ~Runs(inp[1])
      BY <1>3, <2>2, <3>1, <3>3 DEF bridgeVars
    <3>4. QED
      BY <3>2, <3>3
  <2>5. \A i, j \in 1..Len(inp') : i < j => inp'[i] < inp'[j]
    <3>1. SUFFICES ASSUME NEW i \in 1..Len(inp'), NEW j \in 1..Len(inp'), i < j
                   PROVE  inp'[i] < inp'[j]
      OBVIOUS
    <3>2. i + 1 < j + 1
      BY <1>2, <1>3, <1>4, <3>1
    <3>3. inp[i + 1] < inp[j + 1]
      BY <2>2, <3>2 DEF IInv, Counted
    <3>4. QED
      BY <2>2, <3>3
  <2>6. cur' \in 1..Turns /\ sess' = "open" => good' < begun'
    BY <1>3, <2>1 DEF Runs
  <2>7. bpc' = "waiting" /\ step' \in 1..Turns =>
          \A i \in 1..Len(out') : out'[i].id = step' /\ ~Failed(out'[i]) => good' >= step'
    BY <1>3 DEF IInv, Counted, bridgeVars
  <2>8. result' = "ok" => completed' = Turns
    BY DEF IInv, Counted, bridgeVars
  <2>9. QED
    BY <2>1, <2>3, <2>4, <2>5, <2>6, <2>7, <2>8 DEF Counted
<1>11. QED
  BY <1>7, <1>8, <1>9, <1>10 DEF IInv

-----------------------------------------------------------------------------

LEMMA StepInv == IInv /\ [Next]_vars => IInv'
<1> SUFFICES ASSUME IInv, [Next]_vars PROVE IInv'
  OBVIOUS
<1>1. CASE BridgeStep
  BY <1>1, SpawnInv, QuietBridgeInv, TimeoutInv, StdoutEndInv, DeliverInv
  DEF BridgeStep
<1>2. CASE AdapterStep
  <2>1. UNCHANGED <<bridgeVars, exitSeen, endSeen>>
    BY <1>2 DEF AdapterStep, AdapterRuns
  <2>2. CASE Read
    BY <2>1, <2>2, ReadInv
  <2>3. CASE ~Read
    <3>1. UNCHANGED inp
      BY <1>2, <2>3 DEF AdapterStep, AdapterRuns
    <3>2. \/ LoadOk \/ Eof \/ CloseSessions \/ Dies
          \/ LoadFails
          \/ HandleInit \/ HandleTurn \/ HandleFinalize \/ HandleShutdown
      BY <1>2, <2>3 DEF AdapterStep, AdapterRuns, Crash, Terminate
    <3>3. QED
      BY <2>1, <3>1, <3>2, HandlersInv, QuietAdapterInv, LoadFailsInv
  <2>4. QED
    BY <2>2, <2>3
<1>3. CASE UNCHANGED vars
  <2>1. TypeOK' /\ Exited' /\ AnswersMatch' /\ NoOrphan'
    BY <1>3 DEF IInv, TypeOK, Exited, AnswersMatch, NoOrphan, vars, bridgeVars,
                adapterVars
  <2>2. InFlight' /\ Counted'
    BY <1>3 DEF IInv, InFlight, Asking, Counted, vars, bridgeVars, adapterVars
  <2>3. QED
    BY <2>1, <2>2 DEF IInv
<1>4. QED
  BY <1>1, <1>2, <1>3 DEF Next, Over

LEMMA Invariance == Spec => []IInv
  BY InitInv, StepInv, PTL DEF Spec

\* The variables keep their types (_node_bridge.js:311-464 with
\* _python_adapter.py:193-376).
THEOREM TypeCorrect == Spec => []TypeOK
<1>1. IInv => TypeOK
  BY DEF IInv
<1>2. QED
  BY <1>1, Invariance, PTL

\* Whatever the faults, the call returns only when the adapter is dead or the
\* process the bridge spawned has been sent SIGKILL (_node_bridge.js:396-417).
THEOREM NoOrphanLeft == Spec => []NoOrphan
<1>1. IInv => NoOrphan
  BY DEF IInv
<1>2. QED
  BY <1>1, Invariance, PTL

\* In a conversation of any length no reply is ever taken for the reply to
\* another request than its own, up to the shutdown (_node_bridge.js:212-254).
THEOREM RepliesMatch == Spec => []AnswersMatch
<1>1. IInv => AnswersMatch
  BY DEF IInv
<1>2. QED
  BY <1>1, Invariance, PTL

-----------------------------------------------------------------------------
(* The contract *)

\* What a step of the call may do to the count and the outcome.
LEMMA OutcomeSteps ==
  ASSUME IInv, IInv', BridgeStep
  PROVE  /\ UNCHANGED <<begun, good>>
         /\ completed' \in {completed, completed + 1}
         /\ completed' # completed => Outcome = "none"
         /\ Contract!Decide
<1> USE RequestFacts
<1>1. UNCHANGED <<begun, good>>
  BY DEF BridgeStep, Spawn, SpawnFails, Timeout, GraceEnds, HostDies, Deliver,
         StdoutEnd, ExitSeen, adapterVars
<1>2. completed \in Nat /\ step \in Requests /\ ~HostGone
  BY DEF IInv, TypeOK, BridgeStep, Spawn, SpawnFails, Timeout, GraceEnds,
         HostDies, Deliver, StdoutEnd, ExitSeen, HostGone
<1>3. result' = "ok" => completed' = Turns
  BY DEF IInv, Counted
<1>4. \/ UNCHANGED <<completed, result>>
      \/ /\ Asking /\ UNCHANGED completed /\ result' \in {"ok", "error"}
      \/ /\ Asking /\ completed' = completed + 1 /\ UNCHANGED result
  <2>1. CASE Spawn \/ SpawnFails \/ GraceEnds \/ HostDies \/ ExitSeen
    BY <2>1 DEF Spawn, SpawnFails, GraceEnds, HostDies, ExitSeen, bridgeVars
  <2>2. bpc = "waiting" /\ Reject =>
          \/ UNCHANGED <<completed, result>>
          \/ Asking /\ UNCHANGED completed /\ result' \in {"ok", "error"}
    BY <1>2 DEF Reject, AfterShutdown, EndCase, Asking
  <2>3. CASE Timeout \/ StdoutEnd
    BY <2>2, <2>3 DEF Timeout, StdoutEnd, bridgeVars
  <2>4. ASSUME NEW reply, bpc = "waiting", Accept(reply)
        PROVE  \/ UNCHANGED <<completed, result>>
               \/ Asking /\ UNCHANGED completed /\ result' \in {"ok", "error"}
               \/ Asking /\ completed' = completed + 1 /\ UNCHANGED result
    BY <1>2, <2>4 DEF Accept, FinalizeAnswered, AfterShutdown, EndCase, Asking
  <2>5. ASSUME NEW k \in 1..Len(out), Deliver(k)
        PROVE  \/ UNCHANGED <<completed, result>>
               \/ Asking /\ UNCHANGED completed /\ result' \in {"ok", "error"}
               \/ Asking /\ completed' = completed + 1 /\ UNCHANGED result
    BY <2>2, <2>4, <2>5 DEF Deliver, bridgeVars
  <2>6. QED
    BY <2>1, <2>3, <2>5 DEF BridgeStep
<1>5. Asking => result = "none"
  BY DEF IInv, InFlight
<1>6. Outcome = result /\ Outcome' \in {result', "lost"}
  BY <1>2 DEF Outcome
<1>7. Contract!Decide
  BY <1>3, <1>4, <1>5, <1>6 DEF Contract!Decide
<1>8. QED
  BY <1>1, <1>4, <1>5, <1>6, <1>7

\* What a step of the adapter may do to its turns.
LEMMA TurnSteps ==
  ASSUME IInv, AdapterStep
  PROVE  /\ begun' \in {begun, begun + 1} /\ good' \in {good, good + 1}
         /\ UNCHANGED <<completed, Outcome>>
<1>1. UNCHANGED <<bridgeVars>>
  BY DEF AdapterStep, AdapterRuns
<1>2. begun' \in {begun, begun + 1} /\ good' \in {good, good + 1}
  BY DEF AdapterStep, AdapterRuns, LoadOk, LoadFails, HandleInit, HandleTurn, HandleFinalize,
         HandleShutdown, Eof, CloseSessions, Crash, Terminate, Dies, Read
<1>3. QED
  BY <1>1, <1>2 DEF bridgeVars, Outcome, HostGone

\* Every step of the call and of the adapter is one the contract allows.
LEMMA StepRefines ==
  IInv /\ IInv' /\ [Next]_vars => [Contract!Next]_(Contract!vars)
<1> SUFFICES ASSUME IInv, IInv', [Next]_vars
             PROVE  [Contract!Next]_(Contract!vars)
  OBVIOUS
<1>1. begun' <= Turns /\ Contract!InOrder'
  BY RequestFacts DEF IInv, TypeOK, Counted, Contract!InOrder
<1>2. CASE BridgeStep
  <2>1. Contract!Advance
    BY <1>1, <1>2, OutcomeSteps DEF Contract!Advance
  <2>2. QED
    BY <1>2, <2>1, OutcomeSteps DEF Contract!Next
<1>3. CASE AdapterStep
  <2>1. Contract!Advance /\ Contract!Decide
    BY <1>1, <1>3, TurnSteps DEF Contract!Advance, Contract!Decide
  <2>2. QED
    BY <2>1 DEF Contract!Next
<1>4. CASE UNCHANGED vars
  BY <1>4 DEF vars, bridgeVars, adapterVars, Contract!vars, Outcome, HostGone
<1>5. QED
  BY <1>2, <1>3, <1>4 DEF Next, Over

\* The case keeps the contract of CaseContract for every length of the
\* conversation and every combination of faults (_node_bridge.js:358-464).
THEOREM KeepsContract == Spec => ImplementsCaseContract
<1>1. Init => Contract!Init
  BY DEF Init, Contract!Init, Outcome, HostGone
<1>2. QED
  BY <1>1, StepRefines, Invariance, PTL
  DEF Spec, ImplementsCaseContract, Contract!Spec

\* The contract alone keeps the count honest, whoever implements it.
LEMMA ContractIsHonest == Contract!Spec => []Contract!Honest
<1> DEFINE Inv == /\ begun \in Nat /\ good \in Nat /\ completed \in Nat
                  /\ Contract!Honest
<1>1. Contract!Init => Inv
  BY TurnsType DEF Contract!Init, Contract!Honest, Contract!InOrder
<1>2. Inv /\ [Contract!Next]_(Contract!vars) => Inv'
  <2> SUFFICES ASSUME Inv, [Contract!Next]_(Contract!vars) PROVE Inv'
    OBVIOUS
  <2>1. CASE UNCHANGED Contract!vars
    BY <2>1 DEF Contract!vars, Contract!Honest, Contract!InOrder
  <2>2. CASE Contract!Next
    <3>1. begun' \in Nat /\ good' \in Nat /\ completed' \in Nat
      BY <2>2 DEF Contract!Next, Contract!Advance
    <3>2. Contract!InOrder' /\ begun' <= Turns
      BY <2>2 DEF Contract!Next, Contract!Advance
    <3>3. Outcome' = "ok" => completed' = Turns
      BY <2>2 DEF Contract!Next, Contract!Advance, Contract!Decide, Contract!Honest
    <3> QED  BY <3>1, <3>2, <3>3 DEF Contract!Honest
  <2> QED  BY <2>1, <2>2
<1> QED  BY <1>1, <1>2, PTL DEF Contract!Spec

\* turns_completed and the outcome of a case (_node_bridge.js:736-772): a turn
\* is counted only if the adapter answered it, and "ok" means every turn.
THEOREM CountsHonestly == Spec => []Contract!Honest
  BY KeepsContract, ContractIsHonest DEF ImplementsCaseContract
=============================================================================
