----------------------- MODULE AgentConversationProofs -----------------------
(***************************************************************************)
(* For any number of attempts and events: the output of a call is one      *)
(* whole answer, errors surface, no wake-up is lost and sockets close.     *)
(***************************************************************************)
EXTENDS AgentConversation, FiniteSetTheorems, SequenceTheorems, TLAPS

-----------------------------------------------------------------------------
(* How many texts are queued *)

TextsIn(q) == {i \in 1..Len(q) : q[i] = "text"}
Count(q)   == Cardinality(TextsIn(q))

\* Queues are finite, so their texts can be counted.
LEMMA CountNat ==
  \A q \in Seq(Kinds) : IsFiniteSet(TextsIn(q)) /\ Count(q) \in Nat
<1> TAKE q \in Seq(Kinds)
<1>1. Len(q) \in Nat
  OBVIOUS
<1>2. IsFiniteSet(1..Len(q))
  BY <1>1, FS_Interval
<1>3. TextsIn(q) \subseteq 1..Len(q)
  BY DEF TextsIn
<1>4. IsFiniteSet(TextsIn(q))
  BY <1>2, <1>3, FS_Subset
<1>5. QED
  BY <1>4, FS_CardinalityType DEF Count

\* Nothing received, nothing counted.
LEMMA CountEmpty == Count(<<>>) = 0
<1>1. TextsIn(<<>>) = {}
  BY DEF TextsIn
<1>2. QED
  BY <1>1, FS_EmptySet DEF Count

LEMMA AppendedTo ==
  ASSUME NEW T, NEW q \in Seq(T), NEW k \in T
  PROVE  Append(q, k) \in Seq(T) /\ Append(q, k) # <<>>
<1>1. Append(q, k) \in Seq(T) /\ Len(Append(q, k)) = Len(q) + 1
  OBVIOUS
<1>2. Len(q) \in Nat /\ Len(<<>>) = 0
  OBVIOUS
<1>3. QED
  BY <1>1, <1>2

\* An event received counts if it is a text.
LEMMA CountAppend ==
  \A q \in Seq(Kinds), k \in Kinds :
    Count(Append(q, k)) = IF k = "text" THEN Count(q) + 1 ELSE Count(q)
<1> TAKE q \in Seq(Kinds), k \in Kinds
<1>1. CASE k = "text"
  <2>1. TextsIn(Append(q, k)) = TextsIn(q) \cup {Len(q) + 1}
    BY <1>1 DEF TextsIn
  <2>2. Len(q) + 1 \notin TextsIn(q)
    BY DEF TextsIn
  <2>3. QED
    BY <1>1, <2>1, <2>2, CountNat, FS_AddElement DEF Count
<1>2. CASE k # "text"
  <2>1. TextsIn(Append(q, k)) = TextsIn(q)
    BY <1>2 DEF TextsIn
  <2>2. QED
    BY <1>2, <2>1 DEF Count
<1>3. QED
  BY <1>1, <1>2

\* The queue after its only event.
LEMMA TailOfOne == \A q \in Seq(Kinds) : Len(q) = 1 => Tail(q) = <<>>
<1> TAKE q \in Seq(Kinds)
<1> HAVE Len(q) = 1
<1>1. q # <<>> /\ Len(Tail(q)) = 0 /\ Tail(q) \in Seq(Kinds)
  OBVIOUS
<1>2. QED
  BY <1>1, EmptySeq

\* An event looked at no longer counts.
LEMMA CountTail ==
  \A q \in Seq(Kinds) : q # <<>> =>
    Count(q) = IF Head(q) = "text" THEN Count(Tail(q)) + 1 ELSE Count(Tail(q))
<1> TAKE q \in Seq(Kinds)
<1> HAVE q # <<>>
<1> DEFINE t == Tail(q)
           Later == TextsIn(q) \ {1}
           f == [i \in TextsIn(t) |-> i + 1]
<1>1. t \in Seq(Kinds) /\ Len(t) = Len(q) - 1 /\ \A i \in 1..Len(t) : t[i] = q[i + 1]
  OBVIOUS
<1>2. Len(q) \in Nat \ {0} /\ Head(q) = q[1]
  OBVIOUS
<1>3. f \in Bijection(TextsIn(t), Later)
  <2>1. \A i \in TextsIn(t) : i \in Nat /\ i + 1 \in Later
    BY <1>1, <1>2 DEF TextsIn
  <2>2. \A j \in Later : j - 1 \in TextsIn(t) /\ (j - 1) + 1 = j
    BY <1>1, <1>2 DEF TextsIn
  <2>3. f \in [TextsIn(t) -> Later]
    BY <2>1
  <2>4. \A i, j \in TextsIn(t) : f[i] = f[j] => i = j
    BY <2>1
  <2>5. \A j \in Later : \E i \in TextsIn(t) : f[i] = j
    BY <2>2
  <2>6. QED
    BY <2>3, <2>4, <2>5, Zenon DEF Bijection, Injection, Surjection, IsInjective
<1>4. Count(t) = Cardinality(Later)
  <2>1. IsFiniteSet(TextsIn(t))
    BY <1>1, CountNat
  <2>2. ExistsBijection(TextsIn(t), Later)
    BY <1>3, Zenon DEF ExistsBijection
  <2>3. QED
    BY <2>1, <2>2, FS_Bijection DEF Count
<1>5. IsFiniteSet(TextsIn(q)) /\ Count(q) \in Nat
  BY CountNat
<1>6. CASE Head(q) = "text"
  <2>1. 1 \in TextsIn(q)
    BY <1>2, <1>6 DEF TextsIn
  <2>2. Cardinality(Later) = Count(q) - 1
    BY <1>5, <2>1, FS_RemoveElement DEF Count
  <2>3. QED
    BY <1>4, <1>5, <1>6, <2>2
<1>7. CASE Head(q) # "text"
  <2>1. Later = TextsIn(q)
    BY <1>2, <1>7 DEF TextsIn
  <2>2. QED
    BY <1>4, <1>7, <2>1 DEF Count
<1>8. QED
  BY <1>6, <1>7

-----------------------------------------------------------------------------
(* The inductive invariant *)

\* The socket, queue, texts and end of an attempt not begun.
Fresh(a) ==
  /\ socket[a] = "none" /\ queue[a] = <<>> /\ ~reader[a]
  /\ texts[a] = 0 /\ events[a] = 0 /\ ended[a] = "none"

\* Where the call is, and what it has returned.
PlaceOK ==
  /\ \A a \in Attempts : a > attempt => Fresh(a) /\ conv[a] = "none"
  /\ pc \in {"start", "posting"} => Fresh(attempt) /\ parts = <<>>
  /\ pc = "reading" => socket[attempt] # "none" /\ ended[attempt] = "none"
  /\ pc = "returned" <=> result # "none"
  /\ result = "output" => parts # <<>>

\* Every text sent is in the output or in the queue.
TextsCounted ==
  /\ Len(parts) + Count(queue[attempt]) = texts[attempt]
  /\ \A i \in 1..Len(parts) : parts[i] = <<attempt, i>>
  /\ \A a \in Attempts : texts[a] <= events[a]

\* What ends a conversation is the last event it sends.
LastIsTerminal ==
  \A a \in Attempts :
    /\ \A i \in 1..Len(queue[a]) :
         queue[a][i] \in Terminal => i = Len(queue[a]) /\ conv[a] = "over"
    /\ ended[a] \in Terminal => queue[a] = <<>>

IInv ==
  /\ TypeOK /\ NoLostWakeup /\ SocketsClosed /\ ErrorReported
  /\ PlaceOK /\ TextsCounted /\ LastIsTerminal

-----------------------------------------------------------------------------
(* Its proof *)

\* Attempts are ordered.
LEMMA LaterAttempt == \A a, b \in Attempts : a > b => a # b
  BY MaxAttemptsType DEF Attempts

\* A call that has not started.
LEMMA InitInv == Init => IInv
<1> SUFFICES ASSUME Init PROVE IInv
  OBVIOUS
<1> USE MaxAttemptsType, MaxEventsType DEF Init
<1>1. TypeOK
  BY DEF TypeOK, Attempts
<1>2. NoLostWakeup /\ SocketsClosed /\ ErrorReported
  BY DEF NoLostWakeup, SocketsClosed, ErrorReported
<1>3. PlaceOK
  BY DEF PlaceOK, Fresh, Attempts
<1>4. TextsCounted
  BY CountEmpty DEF TextsCounted, Attempts
<1>5. LastIsTerminal
  BY DEF LastIsTerminal, Terminal
<1>6. QED
  BY <1>1, <1>2, <1>3, <1>4, <1>5 DEF IInv

\* A step that does not touch the conversations, their sockets and their texts.
LEMMA RefuseInv == IInv /\ Refuse => IInv'
<1> SUFFICES ASSUME IInv, Refuse PROVE IInv'
  OBVIOUS
<1> USE DEF IInv, Refuse, Return, server
<1>1. TypeOK'
  BY DEF TypeOK
<1>2. (NoLostWakeup /\ SocketsClosed /\ ErrorReported)'
  BY DEF NoLostWakeup, SocketsClosed, ErrorReported, PlaceOK, Fresh, TypeOK
<1>3. PlaceOK'
  BY DEF PlaceOK, Fresh
<1>4. (TextsCounted /\ LastIsTerminal)'
  BY DEF TextsCounted, LastIsTerminal
<1>5. QED
  BY <1>1, <1>2, <1>3, <1>4

\* callApi prepares the workspace (:321-344).
LEMMA StartInv == IInv /\ Start => IInv'
<1> SUFFICES ASSUME IInv, Start PROVE IInv'
  OBVIOUS
<1> USE DEF IInv, Start, server
<1>1. TypeOK'
  BY DEF TypeOK
<1>2. (NoLostWakeup /\ SocketsClosed /\ ErrorReported)'
  BY DEF NoLostWakeup, SocketsClosed, ErrorReported, PlaceOK, Fresh, TypeOK
<1>3. PlaceOK'
  BY DEF PlaceOK, Fresh
<1>4. (TextsCounted /\ LastIsTerminal)'
  BY DEF TextsCounted, LastIsTerminal
<1>5. QED
  BY <1>1, <1>2, <1>3, <1>4

\* The attempt is no longer fresh: it has a conversation and a reader.
LEMMA CreatedInv == IInv /\ Created => IInv'
<1> SUFFICES ASSUME IInv, Created PROVE IInv'
  OBVIOUS
<1> USE DEF IInv, Created
<1>1. TypeOK'
  BY DEF TypeOK
<1>2. (NoLostWakeup /\ SocketsClosed /\ ErrorReported)'
  BY DEF NoLostWakeup, SocketsClosed, ErrorReported, PlaceOK, Fresh, TypeOK
<1>3. PlaceOK'
  BY DEF PlaceOK, Fresh, TypeOK, Attempts
<1>4. (TextsCounted /\ LastIsTerminal)'
  BY DEF TextsCounted, LastIsTerminal, PlaceOK, Fresh, TypeOK
<1>5. QED
  BY <1>1, <1>2, <1>3, <1>4

\* The attempt stays fresh, whatever the server has done.
LEMMA PostFailsInv == IInv /\ PostFails => IInv'
<1> SUFFICES ASSUME IInv, PostFails PROVE IInv'
  OBVIOUS
<1> USE DEF IInv, PostFails, Return
<1>1. TypeOK'
  BY DEF TypeOK
<1>2. (NoLostWakeup /\ SocketsClosed /\ ErrorReported)'
  BY DEF NoLostWakeup, SocketsClosed, ErrorReported, PlaceOK, Fresh, TypeOK
<1>3. PlaceOK'
  <2>1. \A a \in Attempts : a > attempt => conv'[a] = conv[a]
    <3>1. \A a \in Attempts : a > attempt => a # attempt
      BY LaterAttempt DEF TypeOK
    <3>2. QED
      BY <3>1 DEF TypeOK
  <2>2. \A a \in Attempts : Fresh(a)' <=> Fresh(a)
    BY DEF Fresh
  <2>3. QED
    BY <2>1, <2>2 DEF PlaceOK
<1>4. (TextsCounted /\ LastIsTerminal)'
  BY DEF TextsCounted, LastIsTerminal, PlaceOK, Fresh, TypeOK
<1>5. QED
  BY <1>1, <1>2, <1>3, <1>4

\* on('message'): the event joins the queue, the reader wakes.
LEMMA MessageInv ==
  ASSUME NEW b \in Attempts, NEW k \in Kinds, IInv, Message(b, k)
  PROVE  IInv'
<1> USE DEF IInv, Message, Wake
<1> DEFINE q == queue[b]
<1>1. /\ pc = "reading" /\ b = attempt /\ q \in Seq(Kinds) /\ events[b] \in Nat
      /\ texts[b] \in Nat /\ texts[b] <= events[b] /\ events[b] + 1 <= MaxEvents
  BY MaxEventsType DEF SocketsClosed, TypeOK, TextsCounted
<1>2. /\ queue' = [queue EXCEPT ![b] = Append(q, k)] /\ queue'[b] = Append(q, k)
      /\ Append(q, k) \in Seq(Kinds) /\ Append(q, k) # <<>>
      /\ \A a \in Attempts : a # b => queue'[a] = queue[a]
  <2>1. DOMAIN queue = Attempts
    BY DEF TypeOK
  <2>2. queue' = [queue EXCEPT ![b] = Append(q, k)]
    OBVIOUS
  <2>3. queue'[b] = Append(q, k) /\ \A a \in Attempts : a # b => queue'[a] = queue[a]
    BY <2>1, <2>2
  <2>4. Append(q, k) \in Seq(Kinds) /\ Append(q, k) # <<>>
    BY <1>1, AppendedTo
  <2>5. QED
    BY <2>2, <2>3, <2>4
<1>3. TypeOK'
  <2>1. events' \in [Attempts -> 0..MaxEvents] /\ texts' \in [Attempts -> 0..MaxEvents]
    BY <1>1, MaxEventsType DEF TypeOK
  <2>2. conv' \in [Attempts -> {"none", "running", "over"}]
    BY DEF TypeOK
  <2>3. QED
    BY <1>2, <2>1, <2>2 DEF TypeOK
<1>4. (NoLostWakeup /\ SocketsClosed /\ ErrorReported)'
  BY <1>2 DEF NoLostWakeup, SocketsClosed, ErrorReported, TypeOK
<1>5. PlaceOK'
  <2>1. \A a \in Attempts : a > attempt =>
          /\ socket'[a] = socket[a] /\ queue'[a] = queue[a] /\ reader'[a] = reader[a]
          /\ texts'[a] = texts[a] /\ events'[a] = events[a] /\ conv'[a] = conv[a]
    BY <1>1, <1>2, LaterAttempt DEF TypeOK
  <2>2. QED
    BY <1>1, <2>1 DEF PlaceOK, Fresh
<1>6. TextsCounted'
  <2>1. Count(Append(q, k)) = IF k = "text" THEN Count(q) + 1 ELSE Count(q)
    BY <1>1, CountAppend
  <2>2. Count(q) \in Nat
    BY <1>1, CountNat
  <2>3. texts'[b] = IF k = "text" THEN texts[b] + 1 ELSE texts[b]
    <3>1. k = "text" => texts' = [texts EXCEPT ![b] = texts[b] + 1]
      OBVIOUS
    <3>2. k # "text" => texts' = texts
      OBVIOUS
    <3>3. QED
      BY <3>1, <3>2 DEF TypeOK
  <2>4. Len(parts) \in Nat
    BY DEF TypeOK
  <2>5. Len(parts) + Count(queue'[b]) = texts'[b]
    <3>1. Len(parts) + Count(q) = texts[b]
      BY <1>1 DEF TextsCounted
    <3>2. Count(queue'[b]) = Count(Append(q, k))
      BY <1>2
    <3>3. QED
      BY <1>1, <2>1, <2>2, <2>3, <2>4, <3>1, <3>2
  <2>6. \A a \in Attempts : texts'[a] <= events'[a]
    BY <1>1, <2>3 DEF TextsCounted, TypeOK
  <2>7. QED
    BY <1>1, <2>5, <2>6 DEF TextsCounted
<1>7. LastIsTerminal'
  <2>1. \A i \in 1..Len(q) : q[i] \notin Terminal
    BY DEF LastIsTerminal
  <2>2. ASSUME NEW a \in Attempts, NEW i \in 1..Len(queue'[a]), queue'[a][i] \in Terminal
        PROVE  i = Len(queue'[a]) /\ conv'[a] = "over"
    <3>1. CASE a = b
      <4>1. Len(Append(q, k)) = Len(q) + 1 /\ i \in 1..(Len(q) + 1)
        BY <1>1, <1>2, <2>2, <3>1
      <4>2. i = Len(q) + 1
        BY <1>1, <1>2, <2>1, <2>2, <3>1, <4>1
      <4>3. k \in Terminal
        BY <1>1, <1>2, <2>2, <3>1, <4>2
      <4>4. QED
        BY <1>2, <3>1, <4>1, <4>2, <4>3 DEF TypeOK
    <3>2. CASE a # b
      <4>1. queue'[a] = queue[a] /\ conv'[a] = conv[a]
        BY <1>2, <3>2 DEF TypeOK
      <4>2. QED
        BY <2>2, <4>1 DEF LastIsTerminal
    <3>3. QED
      BY <3>1, <3>2
  <2>3. ended[b] = "none"
    BY <1>1 DEF PlaceOK
  <2>4. \A a \in Attempts : ended'[a] \in Terminal => queue'[a] = <<>>
    BY <1>2, <2>3 DEF LastIsTerminal, Terminal
  <2>5. QED
    BY <2>2, <2>4 DEF LastIsTerminal
<1>8. QED
  BY <1>3, <1>4, <1>5, <1>6, <1>7

\* on('close'), on('error'): the reader wakes.
LEMMA ClosedInv ==
  ASSUME NEW b \in Attempts, IInv, socket[b] \in {"open", "closing"}, Closed(b)
  PROVE  IInv'
<1> USE DEF IInv, Closed, Wake, server
<1>1. TypeOK'
  BY DEF TypeOK
<1>2. (NoLostWakeup /\ SocketsClosed /\ ErrorReported)'
  BY DEF NoLostWakeup, SocketsClosed, ErrorReported, TypeOK
<1>3. PlaceOK'
  <2>1. \A a \in Attempts : Fresh(a) => a # b
    BY DEF Fresh
  <2>2. \A a \in Attempts : a # b => (Fresh(a)' <=> Fresh(a))
    BY DEF Fresh, TypeOK
  <2>3. attempt \in Attempts /\ (socket'[attempt] = "none" => socket[attempt] = "none")
    BY DEF TypeOK
  <2>4. QED
    BY <2>1, <2>2, <2>3 DEF PlaceOK
<1>4. (TextsCounted /\ LastIsTerminal)'
  BY DEF TextsCounted, LastIsTerminal
<1>5. QED
  BY <1>1, <1>2, <1>3, <1>4

\* The attempt ends with why and the texts in out, whatever the queue becomes.
LEMMA EndAttemptInv ==
  ASSUME NEW why \in Kinds \cup {"idle", "closed"},
         NEW out \in Seq(Attempts \X (1..MaxEvents)),
         IInv, pc = "reading", EndAttempt(why, out),
         queue' \in [Attempts -> Seq(Kinds)],
         \A a \in Attempts : a # attempt => queue'[a] = queue[a],
         reader[attempt] => queue'[attempt] = <<>>,
         why \in Terminal => queue'[attempt] = <<>>,
         \A i \in 1..Len(queue'[attempt]) : queue'[attempt][i] \in Terminal =>
           i = Len(queue'[attempt]) /\ conv[attempt] = "over",
         Len(out) + Count(queue'[attempt]) = texts[attempt],
         \A i \in 1..Len(out) : out[i] = <<attempt, i>>
  PROVE  IInv'
<1> USE DEF IInv
<1>0. attempt \in Attempts /\ UNCHANGED <<server, reader>>
  BY DEF TypeOK, EndAttempt
<1>1. /\ socket' = [socket EXCEPT ![attempt] = IF @ = "open" THEN "closing" ELSE @]
      /\ ended' = [ended EXCEPT ![attempt] = why]
  BY DEF EndAttempt, CloseWs
<1>2. /\ socket' \in [Attempts -> {"none", "open", "closing", "closed"}]
      /\ ended' \in [Attempts -> Kinds \cup {"none", "idle", "closed"}]
      /\ socket'[attempt] # "open"
      /\ \A a \in Attempts : a # attempt => socket'[a] = socket[a] /\ ended'[a] = ended[a]
      /\ ended'[attempt] = why
  BY <1>0, <1>1 DEF TypeOK
<1>3. \/ /\ pc' = "returned" /\ result' = "error" /\ parts' = out /\ attempt' = attempt
      \/ /\ why # "error" /\ out # <<>>
         /\ pc' = "returned" /\ result' = "output" /\ parts' = out /\ attempt' = attempt
      \/ /\ why # "error" /\ attempt < MaxAttempts
         /\ pc' = "posting" /\ attempt' = attempt + 1 /\ parts' = <<>> /\ result' = result
  BY DEF EndAttempt, Return, Failed, MayRetry
<1>4. attempt' \in Attempts /\ \A a \in Attempts : a > attempt' => a > attempt
  <2>1. attempt' = attempt \/ (attempt < MaxAttempts /\ attempt' = attempt + 1)
    BY <1>3
  <2>2. QED
    BY <1>0, <2>1, MaxAttemptsType DEF Attempts
<1>5. attempt' # attempt => /\ attempt' > attempt /\ Fresh(attempt')
                            /\ conv[attempt'] = "none"
  <2>1. attempt' # attempt => attempt' > attempt
    BY <1>0, <1>3, MaxAttemptsType DEF Attempts
  <2>2. \A a \in Attempts : a > attempt => Fresh(a) /\ conv[a] = "none"
    BY DEF PlaceOK
  <2>3. QED
    BY <1>4, <2>1, <2>2
<1>6. TypeOK'
  <2>1. parts' \in Seq(Attempts \X (1..MaxEvents))
    <3>1. parts' = out \/ parts' = <<>>
      BY <1>3, Zenon
    <3>2. <<>> \in Seq(Attempts \X (1..MaxEvents))
      OBVIOUS
    <3>3. QED
      BY <3>1, <3>2, Zenon
  <2>2. pc' \in {"start", "posting", "reading", "returned"}
        /\ result' \in {"none", "output", "error"}
    <3>1. result \in {"none", "output", "error"}
      BY DEF TypeOK
    <3>2. pc' \in {"returned", "posting"} /\ result' \in {"error", "output", result}
      BY <1>3, Zenon
    <3>3. QED
      BY <3>1, <3>2
  <2>3. UNCHANGED <<conv, reader, events, texts>>
    BY <1>0 DEF server
  <2>4. QED
    BY <1>2, <1>4, <2>1, <2>2, <2>3 DEF TypeOK
<1>7. NoLostWakeup'
  <2>1. ASSUME NEW a \in Attempts, reader'[a]
        PROVE  queue'[a] = <<>> /\ socket'[a] \in {"open", "closing"}
    <3>1. reader[a]
      BY <1>0, <2>1
    <3>2. queue[a] = <<>> /\ socket[a] \in {"open", "closing"}
      BY <3>1 DEF NoLostWakeup
    <3>3. CASE a = attempt
      BY <1>0, <1>1, <3>1, <3>2, <3>3 DEF TypeOK
    <3>4. CASE a # attempt
      BY <1>2, <3>2, <3>4
    <3>5. QED
      BY <3>3, <3>4
  <2>2. QED
    BY <2>1 DEF NoLostWakeup
<1>8. SocketsClosed'
  BY <1>2 DEF SocketsClosed
<1>9. ErrorReported'
  BY <1>2, <1>3 DEF ErrorReported
<1>10. PlaceOK'
  <2>1. \A a \in Attempts : a > attempt =>
          (Fresh(a) /\ conv[a] = "none" => Fresh(a)' /\ conv'[a] = "none")
    BY <1>0, <1>2, LaterAttempt DEF Fresh, server
  <2>2. \A a \in Attempts : a > attempt' => Fresh(a)' /\ conv'[a] = "none"
    BY <1>4, <2>1 DEF PlaceOK
  <2>3. pc' = "posting" => Fresh(attempt)' /\ parts' = <<>>
    <3>1. SUFFICES ASSUME pc' = "posting" PROVE Fresh(attempt)' /\ parts' = <<>>
      OBVIOUS
    <3>2. attempt' = attempt + 1 /\ parts' = <<>> /\ attempt' # attempt
      BY <1>0, <1>3, <3>1, MaxAttemptsType DEF Attempts
    <3>3. /\ socket'[attempt'] = socket[attempt'] /\ ended'[attempt'] = ended[attempt']
          /\ queue'[attempt'] = queue[attempt']
      BY <1>2, <1>4, <3>2
    <3>4. QED
      BY <1>0, <1>5, <3>2, <3>3 DEF Fresh, server
  <2>4. QED
    BY <1>3, <2>2, <2>3 DEF PlaceOK
<1>11. TextsCounted'
  <2>1. CASE attempt' = attempt
    BY <1>0, <1>3, <2>1, MaxAttemptsType DEF TextsCounted, server, Attempts
  <2>2. CASE attempt' # attempt
    <3>1. parts' = <<>>
      BY <1>3, <2>2
    <3>2. queue'[attempt'] = <<>> /\ texts'[attempt'] = 0
      BY <1>0, <1>4, <1>5, <2>2 DEF Fresh, server
    <3>3. Len(parts') + Count(queue'[attempt']) = texts'[attempt']
      BY <3>1, <3>2, CountEmpty
    <3>4. \A a \in Attempts : texts'[a] <= events'[a]
      BY <1>0 DEF TextsCounted, server
    <3>5. QED
      BY <3>1, <3>3, <3>4 DEF TextsCounted
  <2>3. QED
    BY <2>1, <2>2
<1>12. LastIsTerminal'
  <2>1. conv' = conv
    BY <1>0 DEF server
  <2>2. ASSUME NEW a \in Attempts, a # attempt
        PROVE  /\ \A i \in 1..Len(queue'[a]) : queue'[a][i] \in Terminal =>
                    i = Len(queue'[a]) /\ conv'[a] = "over"
               /\ ended'[a] \in Terminal => queue'[a] = <<>>
    <3>1. queue'[a] = queue[a] /\ ended'[a] = ended[a]
      BY <1>2, <2>2
    <3>2. QED
      BY <2>1, <3>1 DEF LastIsTerminal
  <2>3. QED
    BY <1>2, <2>1, <2>2 DEF LastIsTerminal
<1>13. QED
  BY <1>6, <1>7, <1>8, <1>9, <1>10, <1>11, <1>12

\* The abandoned reader waits on an empty queue, so no text is missed.
LEMMA IdleInv == IInv /\ IdleTimeout => IInv'
<1> SUFFICES ASSUME IInv, IdleTimeout PROVE IInv'
  OBVIOUS
<1>1. /\ pc = "reading" /\ EndAttempt("idle", parts) /\ queue' = queue
      /\ attempt \in Attempts
  BY DEF IdleTimeout, IInv, TypeOK
<1>2. /\ parts \in Seq(Attempts \X (1..MaxEvents)) /\ queue \in [Attempts -> Seq(Kinds)]
      /\ reader[attempt] => queue[attempt] = <<>>
  BY <1>1 DEF IInv, TypeOK, NoLostWakeup
<1>3. /\ Len(parts) + Count(queue[attempt]) = texts[attempt]
      /\ \A i \in 1..Len(parts) : parts[i] = <<attempt, i>>
      /\ \A i \in 1..Len(queue[attempt]) : queue[attempt][i] \in Terminal =>
           i = Len(queue[attempt]) /\ conv[attempt] = "over"
  BY <1>1 DEF IInv, TextsCounted, LastIsTerminal
<1>4. "idle" \notin Terminal
  BY DEF Terminal
<1>5. QED
  BY <1>1, <1>2, <1>3, <1>4, EndAttemptInv

\* The generator returned: nothing is queued.
LEMMA StreamEndsInv == IInv /\ StreamEnds => IInv'
<1> SUFFICES ASSUME IInv, StreamEnds PROVE IInv'
  OBVIOUS
<1>1. /\ pc = "reading" /\ EndAttempt("closed", parts) /\ queue' = queue
      /\ attempt \in Attempts /\ queue[attempt] = <<>>
  BY DEF StreamEnds, IInv, TypeOK
<1>2. parts \in Seq(Attempts \X (1..MaxEvents)) /\ queue \in [Attempts -> Seq(Kinds)]
  BY DEF IInv, TypeOK
<1>3. /\ Len(parts) + Count(queue[attempt]) = texts[attempt]
      /\ \A i \in 1..Len(parts) : parts[i] = <<attempt, i>>
      /\ \A i \in 1..Len(queue[attempt]) : queue[attempt][i] \in Terminal =>
           i = Len(queue[attempt]) /\ conv[attempt] = "over"
  BY <1>1 DEF IInv, TextsCounted, LastIsTerminal
<1>4. QED
  BY <1>1, <1>2, <1>3, EndAttemptInv

\* The head of the queue moves to the output, or ends the attempt.
LEMMA LookInv == IInv /\ Look => IInv'
<1> SUFFICES ASSUME IInv, Look PROVE IInv'
  OBVIOUS
<1> DEFINE q == queue[attempt]
           k == Head(q)
           out == IF k = "text" THEN Append(parts, <<attempt, Len(parts) + 1>>)
                                ELSE parts
<1>1. /\ pc = "reading" /\ ~reader[attempt] /\ q # <<>>
      /\ queue' = [queue EXCEPT ![attempt] = Tail(q)]
  BY DEF Look
<1>2. \/ k \in Terminal \cup {"result"} /\ EndAttempt(k, out)
      \/ /\ k \in {"text", "other"} /\ parts' = out
         /\ reader' = [reader EXCEPT ![attempt] = Len(q) = 1 /\ socket[attempt] = "open"]
         /\ UNCHANGED <<pc, attempt, server, socket, result, ended>>
  BY DEF Look, NextEvent
<1>3. /\ attempt \in Attempts /\ queue \in [Attempts -> Seq(Kinds)] /\ q \in Seq(Kinds)
      /\ k \in Kinds /\ Tail(q) \in Seq(Kinds)
      /\ parts \in Seq(Attempts \X (1..MaxEvents))
  BY <1>1 DEF IInv, TypeOK
<1>4. /\ queue' \in [Attempts -> Seq(Kinds)] /\ queue'[attempt] = Tail(q)
      /\ \A a \in Attempts : a # attempt => queue'[a] = queue[a]
  BY <1>1, <1>3
<1>5. /\ Count(q) = IF k = "text" THEN Count(Tail(q)) + 1 ELSE Count(Tail(q))
      /\ Count(Tail(q)) \in Nat
  BY <1>1, <1>3, CountTail, CountNat
<1>6. Len(parts) + Count(q) = texts[attempt] /\ \A i \in 1..Len(parts) : parts[i] = <<attempt, i>>
  BY DEF IInv, TextsCounted
<1>7. Len(parts) \in Nat /\ texts[attempt] <= MaxEvents
  <2>1. texts[attempt] \in 0..MaxEvents
    BY <1>3 DEF IInv, TypeOK
  <2>2. QED
    BY <1>3, <2>1, MaxEventsType
<1>8. /\ out \in Seq(Attempts \X (1..MaxEvents))
      /\ Len(out) + Count(Tail(q)) = texts[attempt]
      /\ \A i \in 1..Len(out) : out[i] = <<attempt, i>>
  <2>1. CASE k = "text"
    <3>1. Len(parts) + 1 \in 1..MaxEvents
      BY <1>5, <1>6, <1>7, <2>1, MaxEventsType
    <3>2. <<attempt, Len(parts) + 1>> \in Attempts \X (1..MaxEvents)
      BY <1>3, <3>1
    <3>3. out = Append(parts, <<attempt, Len(parts) + 1>>)
      BY <2>1
    <3>4. /\ out \in Seq(Attempts \X (1..MaxEvents)) /\ Len(out) = Len(parts) + 1
          /\ out[Len(parts) + 1] = <<attempt, Len(parts) + 1>>
          /\ \A i \in 1..Len(parts) : out[i] = parts[i]
      BY <1>3, <3>2, <3>3
    <3>5. Len(out) + Count(Tail(q)) = texts[attempt]
      BY <1>5, <1>6, <1>7, <2>1, <3>4
    <3>6. \A i \in 1..Len(out) : out[i] = <<attempt, i>>
      BY <1>6, <1>7, <3>4
    <3>7. QED
      BY <3>4, <3>5, <3>6
  <2>2. CASE k # "text"
    BY <1>3, <1>5, <1>6, <2>2
  <2>3. QED
    BY <2>1, <2>2
<1>9. \A i \in 1..Len(Tail(q)) : Tail(q)[i] \in Terminal =>
        i = Len(Tail(q)) /\ conv[attempt] = "over"
  <2>1. \A i \in 1..Len(q) : q[i] \in Terminal => i = Len(q) /\ conv[attempt] = "over"
    BY <1>3 DEF IInv, LastIsTerminal
  <2>2. Len(Tail(q)) = Len(q) - 1 /\ \A i \in 1..Len(Tail(q)) : Tail(q)[i] = q[i + 1]
    BY <1>1, <1>3
  <2>3. Len(q) \in Nat
    BY <1>3
  <2>4. QED
    BY <2>1, <2>2, <2>3
<1>10. k \in Terminal => Tail(q) = <<>>
  <2>1. Len(q) \in Nat \ {0} /\ k = q[1]
    BY <1>1, <1>3
  <2>2. 1 \in 1..Len(q)
    BY <2>1
  <2>3. q[1] \in Terminal => 1 = Len(q)
    BY <1>3, <2>2 DEF IInv, LastIsTerminal
  <2>4. Len(q) = 1 => Tail(q) = <<>>
    BY <1>3, TailOfOne
  <2>5. QED
    BY <2>1, <2>3, <2>4
<1>11. CASE k \in Terminal \cup {"result"} /\ EndAttempt(k, out)
  <2> HIDE DEF out, k, q
  <2>1. QED
    BY <1>1, <1>3, <1>4, <1>8, <1>9, <1>10, <1>11, EndAttemptInv
<1>12. CASE /\ k \in {"text", "other"} /\ parts' = out
            /\ reader' = [reader EXCEPT ![attempt] = Len(q) = 1 /\ socket[attempt] = "open"]
            /\ UNCHANGED <<pc, attempt, server, socket, result, ended>>
  <2> HIDE DEF out
  <2>1. UNCHANGED <<pc, attempt, conv, events, texts, socket, result, ended>>
    BY <1>12 DEF server
  <2>2. TypeOK'
    <3>1. reader' \in [Attempts -> BOOLEAN]
      BY <1>12 DEF IInv, TypeOK
    <3>2. parts' \in Seq(Attempts \X (1..MaxEvents))
      BY <1>8, <1>12
    <3>3. QED
      BY <1>4, <2>1, <3>1, <3>2 DEF IInv, TypeOK
  <2>3. NoLostWakeup'
    <3>1. ASSUME NEW a \in Attempts, reader'[a]
          PROVE  queue'[a] = <<>> /\ socket'[a] \in {"open", "closing"}
      <4>1. CASE a = attempt
        <5>1. Len(q) = 1 /\ socket[attempt] = "open"
          BY <1>3, <1>12, <3>1, <4>1 DEF IInv, TypeOK
        <5>2. Tail(q) = <<>>
          BY <1>3, <5>1, TailOfOne
        <5>3. QED
          BY <1>4, <2>1, <4>1, <5>1, <5>2
      <4>2. CASE a # attempt
        <5>1. reader[a]
          BY <1>12, <3>1, <4>2 DEF IInv, TypeOK
        <5>2. QED
          BY <1>4, <2>1, <4>2, <5>1 DEF IInv, NoLostWakeup
      <4>3. QED
        BY <4>1, <4>2
    <3>2. QED
      BY <3>1 DEF NoLostWakeup
  <2>4. (SocketsClosed /\ ErrorReported)'
    BY <2>1 DEF IInv, SocketsClosed, ErrorReported
  <2>5. PlaceOK'
    <3>1. \A a \in Attempts : a # attempt => reader'[a] = reader[a]
      BY <1>12 DEF IInv, TypeOK
    <3>2. \A a \in Attempts : a > attempt => (Fresh(a) => Fresh(a)')
      BY <1>3, <1>4, <2>1, <3>1, LaterAttempt DEF Fresh
    <3>3. result # "output"
      BY <1>1 DEF IInv, PlaceOK
    <3>4. QED
      BY <1>1, <2>1, <3>2, <3>3 DEF IInv, PlaceOK
  <2>6. TextsCounted'
    BY <1>4, <1>8, <1>12, <2>1 DEF IInv, TextsCounted
  <2>7. LastIsTerminal'
    <3>1. ended[attempt] = "none"
      BY <1>1 DEF IInv, PlaceOK
    <3>2. ASSUME NEW a \in Attempts
          PROVE  /\ \A i \in 1..Len(queue'[a]) : queue'[a][i] \in Terminal =>
                      i = Len(queue'[a]) /\ conv'[a] = "over"
                 /\ ended'[a] \in Terminal => queue'[a] = <<>>
      <4>1. CASE a = attempt
        BY <1>4, <1>9, <2>1, <3>1, <4>1 DEF Terminal
      <4>2. CASE a # attempt
        BY <1>4, <2>1, <4>2 DEF IInv, LastIsTerminal
      <4>3. QED
        BY <4>1, <4>2
    <3>3. QED
      BY <3>2 DEF LastIsTerminal
  <2>8. QED
    BY <2>2, <2>3, <2>4, <2>5, <2>6, <2>7 DEF IInv
<1>13. QED
  BY <1>2, <1>11, <1>12

\* Every step of the call, the server and the socket.
LEMMA StepInv == IInv /\ [Next]_vars => IInv'
<1> SUFFICES ASSUME IInv, [Next]_vars PROVE IInv'
  OBVIOUS
<1>1. ASSUME NEW a \in Attempts, Breaks(a) PROVE IInv'
  BY <1>1, ClosedInv DEF Breaks
<1>2. ASSUME NEW a \in Attempts, CloseEvent(a) PROVE IInv'
  BY <1>2, ClosedInv DEF CloseEvent
<1>3. ASSUME NEW a \in Attempts, NEW k \in Kinds, Message(a, k) PROVE IInv'
  BY <1>3, MessageInv
<1>4. CASE UNCHANGED vars
  BY <1>4 DEF vars, IInv, TypeOK, NoLostWakeup, SocketsClosed, ErrorReported,
              PlaceOK, Fresh, TextsCounted, LastIsTerminal
<1>5. QED
  BY <1>1, <1>2, <1>3, <1>4, RefuseInv, StartInv, CreatedInv, PostFailsInv,
     LookInv, StreamEndsInv, IdleInv DEF Next, Over

\* The inductive invariant holds in every reachable state.
LEMMA Invariance == Spec => []IInv
  BY InitInv, StepInv, PTL DEF Spec

-----------------------------------------------------------------------------
(* What a call promises *)

\* Types, the sockets that may be open and the wake-ups of
\* openhands-agent-server-provider.js:124-155, for every number of attempts
\* and events.
THEOREM ConversationSafety == Spec => [](TypeOK /\ NoLostWakeup /\ SocketsClosed)
<1>1. IInv => TypeOK /\ NoLostWakeup /\ SocketsClosed
  BY DEF IInv
<1>2. QED
  BY Invariance, <1>1, PTL

\* The output of callApi (:308-319) is one whole answer.
THEOREM OneAnswer == Spec => []OutputIsOneAnswer
<1>1. ASSUME IInv PROVE OutputIsOneAnswer
  <2>1. /\ attempt \in Attempts /\ queue[attempt] \in Seq(Kinds)
        /\ Len(parts) \in Nat /\ texts[attempt] \in Nat
        /\ Len(parts) + Count(queue[attempt]) = texts[attempt]
        /\ \A i \in 1..Len(parts) : parts[i] = <<attempt, i>>
    <3>1. attempt \in Attempts /\ queue \in [Attempts -> Seq(Kinds)]
      BY <1>1 DEF IInv, TypeOK
    <3>2. texts \in [Attempts -> 0..MaxEvents] /\ MaxEvents \in Nat
      BY <1>1, MaxEventsType DEF IInv, TypeOK
    <3>3. Len(parts) \in Nat
      BY <1>1 DEF IInv, TypeOK
    <3>4. texts[attempt] \in Nat
      BY <3>1, <3>2
    <3>5. /\ Len(parts) + Count(queue[attempt]) = texts[attempt]
          /\ \A i \in 1..Len(parts) : parts[i] = <<attempt, i>>
      BY <1>1 DEF IInv, TextsCounted
    <3>. QED  BY <3>1, <3>3, <3>4, <3>5
  <2>2. Count(queue[attempt]) \in Nat
    BY <2>1, CountNat
  <2>3. result = "output" => Len(parts) # 0
    BY <1>1 DEF IInv, TypeOK, PlaceOK
  <2>4. ended[attempt] = "finished" => queue[attempt] = <<>>
    BY <1>1, <2>1 DEF IInv, LastIsTerminal, Terminal
  <2>5. ended[attempt] = "finished" => Len(parts) = texts[attempt]
    BY <2>1, <2>4, CountEmpty
  <2>6. result = "output" => Len(parts) \in 1..texts[attempt]
    BY <2>1, <2>2, <2>3
  <2>7. QED
    BY <2>1, <2>5, <2>6 DEF OutputIsOneAnswer
<1>2. QED
  BY Invariance, <1>1, PTL

\* An error of the conversation (:430-442) is the result of callApi.
THEOREM ErrorsSurface == Spec => []ErrorReported
<1>1. IInv => ErrorReported
  BY DEF IInv
<1>2. QED
  BY Invariance, <1>1, PTL
=============================================================================
