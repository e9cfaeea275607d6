------------------------- MODULE SubprocessDispatch -------------------------
(***************************************************************************)
(* One case of a subprocess-backed SDK kind: PromptfooBridge._dispatch     *)
(* (_node_bridge.js), the adapter process it spawns                        *)
(* (providers/_python_adapter.py), and the two pipes between them.         *)
(*                                                                         *)
(* Requests are numbered: 0 is init, 1..Turns are the turns, Turns+1 is    *)
(* finalize and Turns+2 is shutdown; the adapter echoes the number as the  *)
(* id of its reply.  The bridge never looks at that id (_ipcSend): it      *)
(* takes the first line of the next stdout chunk.  A reply larger than a   *)
(* pipe chunk reaches it in two parts.                                     *)
(***************************************************************************)
EXTENDS Integers, Sequences

CONSTANTS
  Turns,          \* length of the conversation
  LargeReply,     \* may a turn's reply exceed one chunk of the pipe?
  SpawnMayFail,   \* may the uv executable be missing?
  CrashMayHappen, \* may the adapter die at any moment (native crash, OOM)?
  HostMayDie      \* may the harness process be killed?

ASSUME TurnsType == Turns \in Nat \ {0}
ASSUME FaultTypes == {LargeReply, SpawnMayFail, CrashMayHappen, HostMayDie}
                       \subseteq BOOLEAN

InitReq     == 0
FinalizeReq == Turns + 1
ShutdownReq == Turns + 2
NoId        == -1        \* the id "" of the adapter's load error
Requests    == InitReq..ShutdownReq
Unanswered  == -2

VARIABLES
  bpc,       \* the call: "start", "waiting", "grace", "returned"; or its
             \* process is gone: "uncaught" exception, "killed"
  step,      \* the request the bridge waits for
  completed, \* turnOutputs.length
  result,    \* the value callApi will return: "none", "ok" or "error"
  answer,    \* history: the id of the reply accepted for each request
  exitSeen,  \* the child's exit event: "no", "code" or "signal"
  endSeen,   \* stdout's end event has fired
  inp,       \* child.stdin: the requests in the pipe
  out,       \* child.stdout: the replies in the pipe
  apc,       \* the adapter: "off", "loading", "reading", "busy", "closing",
             \* "dead"
  cur,       \* the request the adapter handles
  sess,      \* the provider session: "none", "open", "closed"
  begun,     \* turns the provider began
  good,      \* turns the provider completed without an error
  exit,      \* how the process ended
  signals    \* the signals the bridge sent: a subset of {"TERM", "KILL"}

bridgeVars  == <<bpc, step, completed, result, answer, signals>>
adapterVars == <<apc, cur, sess, begun, good, exit>>
vars == <<bridgeVars, adapterVars, exitSeen, endSeen, inp, out>>

Init ==
  /\ bpc = "start" /\ step = InitReq /\ completed = 0 /\ result = "none"
  /\ answer = [r \in Requests |-> Unanswered]
  /\ exitSeen = "no" /\ endSeen = FALSE /\ inp = <<>> /\ out = <<>>
  /\ apc = "off" /\ cur = InitReq /\ sess = "none" /\ begun = 0 /\ good = 0
  /\ exit = "no" /\ signals = {}

HostGone    == bpc \in {"uncaught", "killed"}
Alive       == apc \notin {"off", "dead"}
\* The host's end of the adapter's stdin: closed by the host's death, or by
\* Node when the process it spawned, the uv wrapper, has exited.
StdinClosed == HostGone \/ "KILL" \in signals

-----------------------------------------------------------------------------
(* The bridge *)

\* _ipcSend(child, r): write the request and listen for one line.  Once Node
\* has seen the exit, stdin is destroyed and the write is silently dropped; a
\* write to a dead child not yet seen to exit raises EPIPE on child.stdin,
\* where nobody listens for 'error'.
Send(r) ==
  /\ step' = r
  /\ \/ exitSeen # "no" /\ bpc' = "waiting" /\ UNCHANGED inp
     \/ exitSeen = "no" /\ apc = "dead" /\ bpc' = "uncaught" /\ UNCHANGED inp
     \/ exitSeen = "no" /\ apc # "dead" /\ bpc' = "waiting"
                        /\ inp' = Append(inp, r)

\* Leave the try block with the value res: the finally block's
\* _shutdownChild sends shutdown unless the child has an exit code.
EndCase(res) ==
  /\ result' = res
  /\ IF exitSeen = "code" THEN bpc' = "returned" /\ UNCHANGED <<step, inp>>
                          ELSE Send(ShutdownReq)
  /\ UNCHANGED signals

\* The shutdown request settled, one way or the other.
AfterShutdown ==
  /\ IF exitSeen = "code"
       THEN bpc' = "returned" /\ UNCHANGED signals
       ELSE bpc' = "grace" /\ signals' = signals \cup {"TERM"}
  /\ UNCHANGED <<step, completed, result, inp>>

\* Mutant: a request that timed out is given up and the next one is sent.
RejectGoesOn ==
  IF step = ShutdownReq THEN AfterShutdown
  ELSE /\ Send(step + 1)
       /\ UNCHANGED <<completed, result, signals>>

\* The pending _ipcSend rejects (timeout, end of stdout, malformed line).
Reject ==
  IF step = ShutdownReq THEN AfterShutdown
                        ELSE EndCase("error") /\ UNCHANGED completed

\* Mutant: the error field of a turn_ack is not looked at.
FailedIgnoresTurnError(reply) == reply.kind = "error"

Failed(reply) == reply.kind \in {"error", "turnError"}

\* Finalize is answered by a line that parses, whatever its type.
FinalizeAnswered ==
  /\ step = FinalizeReq
  /\ EndCase("ok") /\ UNCHANGED completed

\* The pending _ipcSend resolves with a parsed line.
Accept(reply) ==
  \/ step = ShutdownReq /\ AfterShutdown
  \/ FinalizeAnswered
  \/ /\ step < FinalizeReq /\ Failed(reply)
     /\ EndCase("error") /\ UNCHANGED completed
  \/ /\ step < FinalizeReq /\ ~Failed(reply)
     /\ completed' = IF step = InitReq THEN completed ELSE completed + 1
     /\ Send(step + 1)
     /\ UNCHANGED <<result, signals>>

\* spawn(), and the init request in the same turn of the event loop.
Spawn ==
  /\ bpc = "start"
  /\ apc' = "loading"
  /\ Send(InitReq)
  /\ UNCHANGED <<completed, result, answer, signals, cur, sess, begun, good,
                 exit, exitSeen, endSeen, out>>

\* The executable is missing: the ChildProcess emits 'error' and nobody
\* listens.
SpawnFails ==
  /\ SpawnMayFail /\ bpc = "start"
  /\ bpc' = "uncaught"
  /\ UNCHANGED <<step, completed, result, answer, signals, adapterVars,
                 exitSeen, endSeen, inp, out>>

\* The first line of a chunk, if the chunk holds all of it.
Parses(chunk) == \/ Head(chunk).part = "whole"
                 \/ Head(chunk).part = "head" /\ Len(chunk) > 1

\* A data event carries the first k parts in the pipe.  A pending _ipcSend
\* takes its first line and drops the rest; with none pending all is lost.
Deliver(k) ==
  /\ ~HostGone /\ bpc # "start"
  /\ out' = SubSeq(out, k + 1, Len(out))
  /\ IF bpc # "waiting" THEN UNCHANGED <<bridgeVars, inp>>
     ELSE LET chunk == SubSeq(out, 1, k) IN
       IF Parses(chunk)
         THEN /\ answer' = [answer EXCEPT ![step] = Head(chunk).id]
              /\ Accept(Head(chunk))
         ELSE Reject /\ UNCHANGED answer
  /\ UNCHANGED <<adapterVars, exitSeen, endSeen>>

StdoutEnd ==
  /\ ~HostGone /\ apc = "dead" /\ out = <<>> /\ ~endSeen
  /\ endSeen' = TRUE
  /\ IF bpc = "waiting" THEN Reject /\ UNCHANGED answer
                        ELSE UNCHANGED <<bridgeVars, inp>>
  /\ UNCHANGED <<adapterVars, exitSeen, out>>

ExitSeen ==
  /\ ~HostGone /\ apc = "dead" /\ exitSeen = "no"
  /\ exitSeen' = exit
  /\ UNCHANGED <<bridgeVars, adapterVars, endSeen, inp, out>>

\* Mutant: the shutdown request is sent without a timeout.
TimeoutNotAtShutdown ==
  /\ bpc = "waiting" /\ step # ShutdownReq
  /\ Reject
  /\ UNCHANGED <<answer, adapterVars, exitSeen, endSeen, out>>

\* The timer of the pending _ipcSend.
Timeout ==
  /\ bpc = "waiting"
  /\ Reject
  /\ UNCHANGED <<answer, adapterVars, exitSeen, endSeen, out>>

\* Mutant: no SIGKILL after the grace period.
GraceEndsWithoutKill ==
  /\ bpc = "grace"
  /\ bpc' = "returned"
  /\ UNCHANGED <<step, completed, result, answer, signals, adapterVars,
                 exitSeen, endSeen, inp, out>>

\* The polling loop after SIGTERM ends: the exit code was seen, or 5 s passed
\* and the process it spawned gets a SIGKILL.  A child ended by a signal has
\* no exit code and takes the second way.
GraceEnds ==
  /\ bpc = "grace"
  /\ bpc' = "returned"
  /\ signals' = IF exitSeen = "code" THEN signals ELSE signals \cup {"KILL"}
  /\ UNCHANGED <<step, completed, result, answer, adapterVars, exitSeen,
                 endSeen, inp, out>>

HostDies ==
  /\ HostMayDie /\ bpc \in {"waiting", "grace"}
  /\ bpc' = "killed"
  /\ UNCHANGED <<step, completed, result, answer, signals, adapterVars,
                 exitSeen, endSeen, inp, out>>
-----------------------------------------------------------------------------
(* The adapter *)

Reply(id, kind, part) == [id |-> id, kind |-> kind, part |-> part]

\* _emit: the line goes into the pipe, in one part or in two.
Emit(id, kind) ==
  \/ out' = Append(out, Reply(id, kind, "whole"))
  \/ /\ LargeReply /\ id \in 1..Turns
     /\ out' = out \o <<Reply(id, kind, "head"), Reply(id, kind, "tail")>>

\* A handler ends with its reply; if nobody reads stdout any more the write
\* raises, out of the handler and out of the loop.
EndHandler(kind) ==
  \/ /\ ~HostGone
     /\ Emit(cur, kind)
     /\ apc' = IF cur = ShutdownReq THEN "closing" ELSE "reading"
  \/ /\ HostGone
     /\ apc' = "closing"
     /\ UNCHANGED out

LoadOk ==
  /\ apc = "loading"
  /\ apc' = "reading"
  /\ UNCHANGED <<cur, sess, begun, good, exit, out>>

\* _load_provider raises: an error without an id, and exit code 1.
LoadFails ==
  /\ apc = "loading"
  /\ apc' = "dead" /\ exit' = "code"
  /\ IF HostGone THEN UNCHANGED out ELSE Emit(NoId, "error")
  /\ UNCHANGED <<cur, sess, begun, good>>

Runs(r) == r \in 1..Turns /\ sess = "open"

\* readline: the next request; a turn of an open session begins.
Read ==
  /\ apc = "reading" /\ inp # <<>>
  /\ apc' = "busy" /\ cur' = Head(inp) /\ inp' = Tail(inp)
  /\ begun' = IF Runs(Head(inp)) THEN begun + 1 ELSE begun
  /\ UNCHANGED <<sess, good, exit, out>>

HandleInit ==
  /\ apc = "busy" /\ cur = InitReq
  /\ \/ sess' = "open" /\ EndHandler("ack")
     \/ UNCHANGED sess /\ EndHandler("error")
  /\ UNCHANGED <<cur, begun, good, exit>>

HandleTurn ==
  /\ apc = "busy" /\ cur \in 1..Turns
  /\ \/ sess = "open" /\ good' = good + 1 /\ EndHandler("ack")
     \/ UNCHANGED good /\ EndHandler("turnError")
  /\ UNCHANGED <<cur, sess, begun, exit>>

HandleFinalize ==
  /\ apc = "busy" /\ cur = FinalizeReq
  /\ \/ sess = "open" /\ EndHandler("ack")
     \/ EndHandler("error")
  /\ UNCHANGED <<cur, sess, begun, good, exit>>

\* The bridge sends session_id '': no session is looked up or closed here.
HandleShutdown ==
  /\ apc = "busy" /\ cur = ShutdownReq
  /\ EndHandler("ack")
  /\ UNCHANGED <<cur, sess, begun, good, exit>>

\* Mutant: an empty line, which is how EOF reads, is skipped.
EofSkipped ==
  /\ apc = "reading" /\ inp = <<>> /\ StdinClosed
  /\ UNCHANGED <<apc, cur, sess, begun, good, exit, out>>

Eof ==
  /\ apc = "reading" /\ inp = <<>> /\ StdinClosed
  /\ apc' = "closing"
  /\ UNCHANGED <<cur, sess, begun, good, exit, out>>

\* The finally block of main() closes the sessions still open; then the
\* process exits.
CloseSessions ==
  /\ apc = "closing"
  /\ sess' = IF sess = "open" THEN "closed" ELSE sess
  /\ apc' = "dead" /\ exit' = "code"
  /\ UNCHANGED <<cur, begun, good, out>>

\* The process ends without running any handler.  The wrapper reports a
\* signal as a signal or as an exit code above 128.
Dies ==
  /\ Alive
  /\ apc' = "dead" /\ exit' \in {"code", "signal"}
  /\ UNCHANGED <<cur, sess, begun, good, out>>

Crash     == CrashMayHappen /\ Dies
Terminate == "TERM" \in signals /\ Dies

\* What the adapter does of itself.
AdapterRuns ==
  \/ /\ \/ LoadOk \/ LoadFails
        \/ HandleInit \/ HandleTurn \/ HandleFinalize \/ HandleShutdown
        \/ Eof \/ CloseSessions
     /\ UNCHANGED inp
  \/ Read

AdapterStep ==
  /\ AdapterRuns \/ ((Crash \/ Terminate) /\ UNCHANGED inp)
  /\ UNCHANGED <<bridgeVars, exitSeen, endSeen>>

BridgeStep ==
  \/ Spawn \/ SpawnFails \/ Timeout \/ GraceEnds \/ HostDies
  \/ \E k \in 1..Len(out) : Deliver(k)
  \/ StdoutEnd \/ ExitSeen

\* The call is over, its process is gone, and so is the adapter's.
Over ==
  /\ bpc \in {"returned", "uncaught", "killed"} /\ ~Alive
  /\ UNCHANGED vars

Next == BridgeStep \/ AdapterStep \/ Over

Spec == Init /\ [][Next]_vars

\* The bridge's own timers fire; nothing is assumed of the adapter.
TimerFairness == WF_vars(Timeout) /\ WF_vars(GraceEnds)

\* A provider call that ends, a loop that reads: what an adapter that is not
\* stuck does.  That it crashes is not assumed.
AdapterFairness ==
  WF_vars(AdapterRuns /\ UNCHANGED <<bridgeVars, exitSeen, endSeen>>)

TimerSpec == Spec /\ TimerFairness

-----------------------------------------------------------------------------
(* Properties *)

Parts == [id : Requests \cup {NoId}, kind : {"ack", "error", "turnError"},
          part : {"whole", "head", "tail"}]

TypeOK ==
  /\ bpc \in {"start", "waiting", "grace", "returned", "uncaught", "killed"}
  /\ step \in Requests
  /\ completed \in 0..Turns
  /\ result \in {"none", "ok", "error"}
  /\ answer \in [Requests -> Requests \cup {NoId, Unanswered}]
  /\ exitSeen \in {"no", "code", "signal"}
  /\ endSeen \in BOOLEAN
  /\ inp \in Seq(Requests)
  /\ out \in Seq(Parts)
  /\ apc \in {"off", "loading", "reading", "busy", "closing", "dead"}
  /\ cur \in Requests
  /\ sess \in {"none", "open", "closed"}
  /\ begun \in 0..Turns /\ good \in 0..Turns
  /\ exit \in {"no", "code", "signal"}
  /\ signals \subseteq {"TERM", "KILL"}

\* When callApi has returned, the adapter has exited, or the process the
\* bridge spawned got the SIGKILL at the end of the escalation and the
\* adapter's stdin is closed (_node_bridge.js:396-417).
NoOrphan == bpc = "returned" => apc = "dead" \/ "KILL" \in signals

\* Although the bridge never compares ids, what it takes for the reply to
\* init, a turn or finalize is that reply, or the adapter's load error
\* (_node_bridge.js:365-375): no request follows one that failed.
AnswersMatch ==
  \A r \in InitReq..FinalizeReq : answer[r] \in {r, Unanswered, NoId}

\* callApi settles or its process is gone, whatever the adapter does
\* (_node_bridge.js:358-362, 405-415).
CallReturns == bpc = "waiting" ~> bpc \in {"returned", "uncaught", "killed"}

\* An adapter that is not stuck exits once the call is over, also when the
\* harness itself was killed or crashed (_python_adapter.py:203-206).
AdapterStops ==
  AdapterFairness => (bpc \in {"returned", "uncaught", "killed"} ~> ~Alive)

Outcome == IF HostGone THEN "lost" ELSE result
Contract == INSTANCE CaseContract WITH reported <- completed, outcome <- Outcome
ImplementsCaseContract == Contract!Spec

(* The inductive invariant behind these. *)

\* An exit that was seen is the exit of a dead adapter.
Exited ==
  /\ exitSeen # "no" => apc = "dead"
  /\ bpc = "start" => apc = "off" /\ step = InitReq /\ completed = 0
                       /\ result = "none" /\ inp = <<>> /\ out = <<>>
  /\ apc \in {"off", "loading"} => sess = "none" /\ begun = 0

Asking == bpc = "waiting" /\ step <= FinalizeReq

\* While the bridge waits for anything but shutdown, there is one request
\* under way: unread in stdin, with the adapter, or answered in stdout; it
\* is the one the bridge waits for.
InFlight ==
  Asking =>
    /\ result = "none"
    /\ completed = IF step = InitReq THEN 0 ELSE step - 1
    /\ Len(inp) <= 1 /\ (Len(inp) = 1 => inp[1] = step)
    /\ Len(out) = 1 => out[1].part = "whole"
    /\ Len(out) > 1 => Len(out) = 2 /\ out[1].part = "head"
    /\ \A i \in 1..Len(out) :
         \/ out[i].id = step /\ Len(inp) = 0
         \/ out[i].id = NoId /\ out[i].kind = "error" /\ apc = "dead"
    /\ apc = "busy" => cur = step /\ Len(inp) = 0 /\ Len(out) = 0
    /\ apc = "loading" => Len(out) = 0

\* Turns begin in order and are counted only when they are good.
Counted ==
  /\ completed <= good /\ good <= begun /\ begun <= completed + 1
  /\ begun <= step /\ \A i \in 1..Len(inp) : inp[i] <= step
  /\ \A i \in 1..Len(inp) : inp[i] \in 1..Turns =>
        begun < inp[i] /\ inp[i] <= completed + 1
  /\ \A i, j \in 1..Len(inp) : i < j => inp[i] < inp[j]
  /\ apc = "busy" /\ cur \in 1..Turns /\ sess = "open" => good < begun
  /\ bpc = "waiting" /\ step \in 1..Turns =>
       \A i \in 1..Len(out) : out[i].id = step /\ ~Failed(out[i]) => good >= step
  /\ result = "ok" => completed = Turns

IInv == TypeOK /\ Exited /\ InFlight /\ Counted /\ AnswersMatch /\ NoOrphan

\* docs/provider-contract.md:132: a subprocess that is gone is reported as
\* SUBPROCESS_CRASH; the harness process does not go with it.
CrashIsReported == bpc # "uncaught"

\* docs/provider-contract.md:86,132: SUBPROCESS_CRASH means a line that does
\* not parse, and each reply the adapter emits is one complete JSON object: a
\* turn is not failed by the arrival of its good reply.
ValidReplyAccepted ==
  [][/\ bpc = "waiting" /\ step \in 1..Turns /\ Len(out') < Len(out)
     /\ Head(out).kind = "ack"
     => result' # "error"]_vars
=============================================================================
