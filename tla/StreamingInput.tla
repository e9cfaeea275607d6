--------------------------- MODULE StreamingInput ---------------------------
(***************************************************************************)
(* One callApi of the Node claude-agent-sdk provider                       *)
(* (claude-agent-sdk-provider.js): the attempts of callWithRetries, and in *)
(* each the streaming-input controller of runAgent between three parties:  *)
(* the input generator that the SDK pulls user messages from, the loop     *)
(* over the SDK's messages, which answers a finished turn with an          *)
(* auto-reply or ends the input, and the caller's abort signal.            *)
(*                                                                         *)
(* The SDK is external.  It answers each user message it has taken with    *)
(* one result, after any number of assistant blocks, and its message       *)
(* stream may end or throw at any time.  A message counts as sent when the *)
(* loop reads it.  The wait for a slot is ConcurrencyGate's.               *)
(***************************************************************************)
EXTENDS Integers

CONSTANTS
  Retries,        \* empty_output_retries, as Math.max(0, ...) leaves it
  MaxAutoReplies, \* max_auto_replies: any integer
  IdleTurnStop    \* idle_turn_stop: any integer

ASSUME RetriesType == Retries \in Nat
ASSUME LimitTypes  == MaxAutoReplies \in Int /\ IdleTurnStop \in Int

VARIABLES
  pc,         \* "idle", "loading" the SDK, in the message "loop", "returned"
  attempt,    \* runAgent calls begun
  aborted,    \* the caller's abort signal has fired
  controller, \* the attempt's AbortController is aborted
  queue,      \* messages in inputQueue
  gen,        \* inputStream: "ready" to be pulled, "waiting" in its promise,
              \* "woken" as the promise is resolved, "done"
  ended,      \* inputEnded
  taken,      \* user messages the SDK has taken in this attempt
  answered,   \* results the loop has read in this attempt
  replies,    \* autoReplyCount
  idle,       \* consecutiveIdleTurns
  tool,       \* currentTurnHasTool
  texts,      \* is there text in textParts?
  success,    \* lastSuccessResult: "null", "blank", "text"
  error,      \* runError
  outcome     \* what callApi returns: "none" yet, "output", "error"

input == <<queue, gen, ended, taken>>
turn  == <<answered, replies, idle, tool, texts, success, error>>
vars  == <<pc, attempt, aborted, controller, input, turn, outcome>>

Init ==
  /\ pc = "idle" /\ attempt = 0 /\ outcome = "none"
  /\ aborted = FALSE /\ controller = FALSE
  /\ queue = 0 /\ gen = "done" /\ ended = TRUE /\ taken = 0
  /\ answered = 0 /\ replies = 0 /\ idle = 0
  /\ tool = FALSE /\ texts = FALSE /\ success = "null" /\ error = FALSE

-----------------------------------------------------------------------------
(* The streaming-input controller *)

\* Mutant: the flag is set, and the waiting generator is not told.
EndSilently == ended' = TRUE /\ UNCHANGED gen

\* resolveNextInput(), if the generator waits for it.
Wake == gen' = IF gen = "waiting" THEN "woken" ELSE gen

EndInput == ended' = TRUE /\ Wake

\* Mutant: the message is queued for the next pull only.
PushSilently == queue' = queue + 1 /\ UNCHANGED gen

PushAutoReply == queue' = queue + 1 /\ Wake

\* The generator runs, pulled or woken: first what is queued, then the end,
\* then it waits.
NextInput ==
  /\ pc = "loop" /\ gen \in {"ready", "woken"}
  /\ \/ /\ queue > 0
        /\ queue' = queue - 1 /\ taken' = taken + 1 /\ gen' = "ready"
     \/ /\ queue = 0
        /\ gen' = IF ended THEN "done" ELSE "waiting"
        /\ UNCHANGED <<queue, taken>>
  /\ UNCHANGED <<pc, attempt, aborted, controller, ended, turn, outcome>>

-----------------------------------------------------------------------------
(* callApi, callWithRetries, and the start of runAgent *)

\* The slot is there: the first attempt awaits the import of the SDK.
Begin ==
  /\ pc = "idle" /\ pc' = "loading" /\ attempt' = 1
  /\ UNCHANGED <<aborted, controller, input, turn, outcome>>

Return(res) == pc' = "returned" /\ outcome' = res

\* The SDK is not installed, or the metadata cannot be written.
LoadFails ==
  /\ pc = "loading" /\ Return("error")
  /\ UNCHANGED <<attempt, aborted, controller, input, turn>>

\* Mutant: only a listener, which never fires for a signal that has fired.
NotAborted == FALSE

\* A signal that has fired aborts the new AbortController at once; the two
\* listeners, for it and for endInput, only hear a signal that fires later.
AlreadyAborted == aborted

\* The controller with the prompt queued, and query().
Open ==
  /\ pc = "loading" /\ pc' = "loop"
  /\ controller' = AlreadyAborted
  /\ queue' = 1 /\ gen' = "ready" /\ ended' = FALSE /\ taken' = 0
  /\ answered' = 0 /\ replies' = 0 /\ idle' = 0
  /\ tool' = FALSE /\ texts' = FALSE /\ success' = "null" /\ error' = FALSE
  /\ UNCHANGED <<attempt, aborted, outcome>>

Abort ==
  /\ ~aborted /\ pc # "returned"
  /\ aborted' = TRUE
  /\ IF pc = "loop" THEN controller' = TRUE /\ EndInput
                    ELSE UNCHANGED <<controller, ended, gen>>
  /\ UNCHANGED <<pc, attempt, queue, taken, turn, outcome>>

-----------------------------------------------------------------------------
(* The loop over the SDK's messages *)

InTurn == pc = "loop" /\ answered < taken

\* An assistant block: text, or a tool; AskUserQuestion is a tool as well, so
\* that lastAskUserQuestion never decides alone whether a turn was idle.
Assistant ==
  /\ InTurn
  /\ \/ texts' = TRUE /\ UNCHANGED tool
     \/ tool' = TRUE /\ UNCHANGED texts
  /\ UNCHANGED <<pc, attempt, aborted, controller, input, answered, replies,
                 idle, success, error, outcome>>

\* Mutant: one reply more.
CapReachedLate == replies > MaxAutoReplies

CapReached == replies >= MaxAutoReplies

IdleStops(n) == n >= IdleTurnStop

\* A success: idle stop, cap, or the next auto-reply.
Success(r) ==
  LET n == IF tool THEN 0 ELSE idle + 1
  IN /\ success' = IF r = "null" THEN success ELSE r
     /\ idle' = n
     /\ UNCHANGED <<taken, texts, error>>
     /\ IF IdleStops(n) \/ CapReached
          THEN EndInput /\ UNCHANGED <<queue, replies, tool>>
          ELSE /\ replies' = replies + 1 /\ tool' = FALSE
               /\ PushAutoReply /\ UNCHANGED ended

\* Mutant: `continue` is missing, and an error with subtype success is answered.
ErrorGoesOn ==
  /\ error' = TRUE /\ ended' = TRUE
  /\ replies' = replies + 1 /\ PushAutoReply
  /\ UNCHANGED <<taken, idle, tool, texts, success>>

\* is_error: the run has failed.
ErrorResult ==
  /\ error' = TRUE /\ EndInput
  /\ UNCHANGED <<queue, taken, replies, idle, tool, texts, success>>

\* Any other subtype, such as error_max_turns without is_error.
OtherResult ==
  /\ EndInput
  /\ UNCHANGED <<queue, taken, replies, idle, tool, texts, success, error>>

Result ==
  /\ InTurn /\ answered' = answered + 1
  /\ \/ ErrorResult
     \/ \E r \in {"null", "blank", "text"} : Success(r)
     \/ OtherResult
  /\ UNCHANGED <<pc, attempt, aborted, controller, outcome>>

-----------------------------------------------------------------------------
(* The end of an attempt *)

\* q.close() and endInput(): the SDK takes nothing any more.
Finally == EndInput

\* lastSuccessResult ?? textParts: a blank result hides the texts.
HasOutput == success = "text" \/ (success = "null" /\ texts)

\* runAgent throws runError or returns its output, and callWithRetries
\* returns what is not blank, tries again, or gives up.
Settle ==
  IF error THEN Return("error") /\ UNCHANGED attempt
  ELSE IF HasOutput THEN Return("output") /\ UNCHANGED attempt
  ELSE IF attempt <= Retries
    THEN pc' = "loading" /\ attempt' = attempt + 1 /\ UNCHANGED outcome
  ELSE Return("error") /\ UNCHANGED attempt

StreamEnds ==
  /\ pc = "loop" /\ Finally /\ Settle
  /\ UNCHANGED <<aborted, controller, queue, taken, turn>>

StreamThrows ==
  /\ pc = "loop" /\ Finally /\ Return("error")
  /\ UNCHANGED <<attempt, aborted, controller, queue, taken, turn>>

Over == pc = "returned" /\ UNCHANGED vars

Next ==
  \/ Begin \/ LoadFails \/ Open \/ Abort \/ NextInput
  \/ Assistant \/ Result \/ StreamEnds \/ StreamThrows \/ Over

\* The import and the wait for the slot settle.
LoopFairness == WF_vars(Begin) /\ WF_vars(Open \/ LoadFails)

\* An SDK that pulls its input, answers what it took, and ends its stream
\* once the input is over and answered.
Finishes    == gen = "done" /\ answered = taken /\ StreamEnds
SdkFairness == WF_vars(NextInput) /\ WF_vars(Result) /\ WF_vars(Finishes)

\* An SDK that stops, in either way, when its AbortController is aborted.
Stops         == controller /\ (StreamEnds \/ StreamThrows)
AbortFairness == WF_vars(Stops)

Spec     == Init /\ [][Next]_vars
FairSpec == Spec /\ LoopFairness

-----------------------------------------------------------------------------
(* Properties *)

\* Messages the agent may get beside its prompt.
Cap == IF MaxAutoReplies > 0 THEN MaxAutoReplies ELSE 0

TypeOK ==
  /\ pc \in {"idle", "loading", "loop", "returned"}
  /\ attempt \in 0..(Retries + 1)
  /\ aborted \in BOOLEAN /\ controller \in BOOLEAN /\ ended \in BOOLEAN
  /\ tool \in BOOLEAN /\ texts \in BOOLEAN /\ error \in BOOLEAN
  /\ queue \in Nat /\ taken \in Nat
  /\ answered \in Nat /\ replies \in Nat /\ idle \in Nat
  /\ gen \in {"ready", "waiting", "woken", "done"}
  /\ success \in {"null", "blank", "text"}
  /\ outcome \in {"none", "output", "error"}

\* claude-agent-sdk-provider.js:205-231: a generator that waits has nothing to
\* deliver and its input has not ended, so neither a reply nor the end of the
\* input is ever lost; after the attempt nobody waits.
NoLostWakeup == gen = "waiting" => pc = "loop" /\ queue = 0 /\ ~ended

\* :22-26 and 303-319: the agent gets the prompt once and one message for each
\* auto-reply that was logged, never more than the cap, and never a reply to a
\* turn it has not finished.
InputAccounted ==
  pc = "loop" => /\ queue + taken = 1 + replies
                 /\ replies <= Cap
                 /\ replies <= answered /\ answered <= taken

\* :285-306, 321: once the loop has ended the input, on an error, an idle
\* stop, the cap or an unknown result, the agent gets no message and no reply is
\* added.  An abort is the exception: a result read after it is still answered.
EndIsFinal ==
  [][ended /\ ~aborted /\ pc = "loop" /\ pc' = "loop"
     => UNCHANGED <<queue, taken, replies>>]_vars

\* :334, 338-343: an error result decides the call, whatever success came
\* before it, and is not retried.
ErrorDecides == [][error /\ pc = "loop" => attempt' = attempt /\ outcome' # "output"]_vars

(* The inductive invariant behind these four. *)

\* Before the input ends each result gets its reply, so that at most one
\* message is on its way: when the loop ends the input nothing is.
NothingAfterEnd ==
  pc = "loop" /\ ended /\ ~aborted => queue = 0 /\ taken = answered

\* The call has an outcome when it has returned.
OutcomeAtEnd == outcome # "none" => pc = "returned"

IInv == TypeOK /\ NoLostWakeup /\ InputAccounted /\ NothingAfterEnd /\ OutcomeAtEnd

\* With an SDK that answers and stops when its input is over, the call returns.
CallReturns == SdkFairness => <>(pc = "returned")

\* :42-44, 192-196: with an SDK that only heeds its AbortController, an abort
\* at any time ends the call, also between two attempts or before the first.
AbortStopsCall == AbortFairness => (aborted ~> pc = "returned")
=============================================================================
