-------------------------- MODULE AgentConversation --------------------------
(***************************************************************************)
(* One callApi of the openhands-agent-server provider                      *)
(* (openhands-agent-server-provider.js): attempts until an output is not   *)
(* empty, each a POST that creates a conversation, a WebSocket with its    *)
(* events, and an idle watchdog.                                           *)
(*                                                                         *)
(* An attempt's socket has a queue of received events and at most one      *)
(* reader, the iterator.next() of the loop.  A handler that resolves the   *)
(* reader is followed by microtasks only, so the event handed to it is the *)
(* head of the queue, and no timer fires before it is looked at.           *)
(***************************************************************************)
EXTENDS Naturals, Sequences

CONSTANTS
  MaxAttempts,  \* 1 + empty_output_retries
  MaxEvents     \* bound: events of a conversation (max_iterations)

ASSUME MaxAttemptsType == MaxAttempts \in Nat \ {0}
ASSUME MaxEventsType   == MaxEvents \in Nat

Attempts == 1..MaxAttempts

\* Events: an agent's text, one without text, the conversation's end (finished
\* or paused), its failure, and the last event of a stream that says so.
Terminal == {"finished", "error"}
Kinds    == {"text", "other", "result"} \cup Terminal

VARIABLES
  pc,      \* "start", "posting", "reading", "returned"
  attempt, \* the attempt under way
  conv,    \* each conversation on the server: "none", "running", "over"
  socket,  \* each attempt's: "none", "open", "closing", "closed"
  queue,   \* each socket's events received and not looked at
  reader,  \* does a next() wait on the socket?
  parts,   \* textParts: which text of which attempt
  result,  \* "none", "output", "error"
  events,  \* history: number of events sent by each conversation
  texts,   \* history: number of texts among them
  ended    \* history: what ended the attempts: "none" or a kind of event,
           \* "idle", "closed"

server == <<conv, events, texts>>
vars   == <<pc, attempt, conv, socket, queue, reader, parts, result, events,
            texts, ended>>

Init ==
  /\ pc = "start" /\ attempt = 1 /\ parts = <<>> /\ result = "none"
  /\ conv = [a \in Attempts |-> "none"] /\ socket = conv /\ ended = conv
  /\ queue = [a \in Attempts |-> <<>>]
  /\ reader = [a \in Attempts |-> FALSE]
  /\ events = [a \in Attempts |-> 0] /\ texts = events

Return(res) == pc' = "returned" /\ result' = res

-----------------------------------------------------------------------------
(* An attempt: the POST *)

\* No agent, or no readable configuration.
Refuse ==
  /\ pc = "start" /\ Return("error")
  /\ UNCHANGED <<attempt, server, socket, queue, reader, parts, ended>>

Start ==
  /\ pc = "start" /\ pc' = "posting"
  /\ UNCHANGED <<attempt, server, socket, queue, reader, parts, result, ended>>

\* A status 2xx with an id: connect, and wait for the first event.
Created ==
  /\ pc = "posting" /\ pc' = "reading"
  /\ conv' = [conv EXCEPT ![attempt] = "running"]
  /\ socket' = [socket EXCEPT ![attempt] = "open"]
  /\ reader' = [reader EXCEPT ![attempt] = TRUE]
  /\ UNCHANGED <<attempt, queue, parts, result, events, texts, ended>>

\* The request fails, before or after the server acted on it; or the workspace
\* cannot be prepared.
PostFails ==
  /\ pc = "posting" /\ Return("error")
  /\ \/ conv' = [conv EXCEPT ![attempt] = "running"]
     \/ UNCHANGED conv
  /\ UNCHANGED <<attempt, socket, queue, reader, parts, events, texts, ended>>

-----------------------------------------------------------------------------
(* The socket *)

\* Mutant: the event is queued and the reader is not woken.
WakesNobody(a) == UNCHANGED reader

Wake(a) == reader' = [reader EXCEPT ![a] = FALSE]

\* on('message')
Message(a, k) ==
  /\ socket[a] = "open" /\ conv[a] = "running" /\ events[a] < MaxEvents
  /\ events' = [events EXCEPT ![a] = @ + 1]
  /\ texts' = IF k = "text" THEN [texts EXCEPT ![a] = @ + 1] ELSE texts
  /\ conv' = IF k \in Terminal THEN [conv EXCEPT ![a] = "over"] ELSE conv
  /\ queue' = [queue EXCEPT ![a] = Append(@, k)]
  /\ Wake(a)
  /\ UNCHANGED <<pc, attempt, socket, parts, result, ended>>

Closed(a) ==
  /\ socket' = [socket EXCEPT ![a] = "closed"]
  /\ Wake(a)
  /\ UNCHANGED <<pc, attempt, server, queue, parts, result, ended>>

\* on('close'), on('error'): the server, or the connection, is gone.
Breaks(a) == socket[a] = "open" /\ Closed(a)

\* on('close') after close() and terminate().
CloseEvent(a) == socket[a] = "closing" /\ Closed(a)

-----------------------------------------------------------------------------
(* The end of an attempt *)

\* closeWs, in the finally block.
CloseWs(why) ==
  socket' = [socket EXCEPT ![attempt] = IF @ = "open" THEN "closing" ELSE @]

\* Mutant: a text counts more than an error.
FailedWithoutText(why, out) == why = "error" /\ out = <<>>

Failed(why, out) == why = "error"

MayRetry == attempt < MaxAttempts

\* The loop is left with the texts in out; the trajectory may fail to be
\* written.  An error ends the call, an empty output the attempt.
EndAttempt(why, out) ==
  /\ CloseWs(why)
  /\ ended' = [ended EXCEPT ![attempt] = why]
  /\ \/ Return("error") /\ parts' = out /\ UNCHANGED attempt
     \/ /\ ~Failed(why, out) /\ out # <<>>
        /\ Return("output") /\ parts' = out /\ UNCHANGED attempt
     \/ /\ ~Failed(why, out) /\ out = <<>> /\ MayRetry
        /\ pc' = "posting" /\ attempt' = attempt + 1 /\ parts' = <<>>
        /\ UNCHANGED result
  /\ UNCHANGED <<server, reader>>

\* Mutant: the next event is the last one received.
LastReceived(q) == q[Len(q)]

NextEvent(q) == Head(q)

\* The loop looks at the next event.
Look ==
  LET q == queue[attempt]
      k == NextEvent(q)
      out == IF k = "text" THEN Append(parts, <<attempt, Len(parts) + 1>>)
                           ELSE parts IN
  /\ pc = "reading" /\ ~reader[attempt] /\ q # <<>>
  /\ queue' = [queue EXCEPT ![attempt] = Tail(@)]
  /\ \/ /\ k \in Terminal \cup {"result"}
        /\ EndAttempt(k, out)
     \/ /\ k \in {"text", "other"}
        /\ parts' = out
        /\ reader' = [reader EXCEPT ![attempt] =
                        Len(q) = 1 /\ socket[attempt] = "open"]
        /\ UNCHANGED <<pc, attempt, server, socket, result, ended>>

\* The generator returns: nothing is queued and the socket is closed.
StreamEnds ==
  /\ pc = "reading" /\ ~reader[attempt] /\ queue[attempt] = <<>>
  /\ EndAttempt("closed", parts)
  /\ UNCHANGED queue

\* Mutant: the timer is armed when an event comes.
WatchedFromFirstEvent(a) == events[a] > 0

\* Each wait for an event is raced with the timer.
Watched(a) == TRUE

\* The watchdog: idleTimeoutMs without an event.  The next() that waits is
\* abandoned.
IdleTimeout ==
  /\ pc = "reading" /\ reader[attempt] /\ Watched(attempt)
  /\ EndAttempt("idle", parts)
  /\ UNCHANGED queue

Over ==
  /\ pc = "returned" /\ \A a \in Attempts : socket[a] \in {"none", "closed"}
  /\ UNCHANGED vars

Next ==
  \/ Refuse \/ Start \/ Created \/ PostFails
  \/ \E a \in Attempts, k \in Kinds : Message(a, k)
  \/ \E a \in Attempts : Breaks(a) \/ CloseEvent(a)
  \/ Look \/ StreamEnds \/ IdleTimeout \/ Over

Spec == Init /\ [][Next]_vars

\* Promises resume, the watchdog's timer fires, a terminated socket says so.
LoopFairness ==
  /\ WF_vars(Start \/ Refuse) /\ WF_vars(Look) /\ WF_vars(StreamEnds)
  /\ WF_vars(IdleTimeout)
  /\ \A a \in Attempts : WF_vars(CloseEvent(a))

\* The server answers the POST, or the connection fails.
PostFairness == WF_vars(Created \/ PostFails)

LoopSpec == Spec /\ LoopFairness

-----------------------------------------------------------------------------
(* Properties *)

TypeOK ==
  /\ pc \in {"start", "posting", "reading", "returned"}
  /\ attempt \in Attempts
  /\ conv \in [Attempts -> {"none", "running", "over"}]
  /\ socket \in [Attempts -> {"none", "open", "closing", "closed"}]
  /\ queue \in [Attempts -> Seq(Kinds)]
  /\ reader \in [Attempts -> BOOLEAN]
  /\ parts \in Seq(Attempts \X (1..MaxEvents))
  /\ result \in {"none", "output", "error"}
  /\ events \in [Attempts -> 0..MaxEvents] /\ texts \in [Attempts -> 0..MaxEvents]
  /\ ended \in [Attempts -> Kinds \cup {"none", "idle", "closed"}]

\* No wake-up is lost: a reader waits only where there is nothing to read, on
\* a socket that can still bring something or is being closed (:124-150).
NoLostWakeup ==
  \A a \in Attempts :
    reader[a] => queue[a] = <<>> /\ socket[a] \in {"open", "closing"}

\* The only socket that is open is that of the attempt being read: a live one
\* would keep the promptfoo process alive (:445-450).
SocketsClosed ==
  \A a \in Attempts : socket[a] = "open" => pc = "reading" /\ a = attempt

\* What is returned is the text of one conversation, the last, in order and
\* without a gap, and all of it when the conversation said that it was over
\* (:308-319, 418-429).
OutputIsOneAnswer ==
  result = "output" =>
    /\ \A i \in 1..Len(parts) : parts[i] = <<attempt, i>>
    /\ Len(parts) \in 1..texts[attempt]
    /\ ended[attempt] = "finished" => Len(parts) = texts[attempt]

\* A conversation that reported an error never yields an output, whatever text
\* it produced before, and is not tried again (:430-442, 469).
ErrorReported ==
  \A a \in Attempts : ended[a] = "error" => a = attempt /\ result = "error"

\* callApi returns if its POSTs are answered, however silent the conversations
\* are and whatever becomes of their sockets (:393-413).
CallReturns == PostFairness => <>(pc = "returned")
=============================================================================
