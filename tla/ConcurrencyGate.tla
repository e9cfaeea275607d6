--------------------------- MODULE ConcurrencyGate ---------------------------
(***************************************************************************)
(* The hierarchical concurrency gate of scripts/framework/concurrency.js:  *)
(* every callApi takes a slot of the INNER (global) p-limit, and a call    *)
(* through acquire(kind) then takes a slot of the per-kind p-limit, if the *)
(* [concurrency] table of eval-tiers.toml caps that kind.  The bridge      *)
(* (_node_bridge.js:471) takes the global slot only; the plugin-glue       *)
(* providers call acquire(kind) and release in a finally block.            *)
(*                                                                         *)
(* p-limit 3.1 is modelled with its own bookkeeping, because its           *)
(* correctness is a matter of microtask order: submitting a task appends   *)
(* it to the queue and schedules a "kick"; a kick starts the head of the   *)
(* queue if activeCount < cap; a settled task decrements activeCount in a  *)
(* later microtask, which starts the head of the queue unconditionally.    *)
(***************************************************************************)
EXTENDS Naturals, Sequences, FiniteSets

CONSTANTS
  Callers,      \* callApi invocations (an identity is reused once it left)
  Kinds,        \* provider kinds passed to acquire()
  NoKind,       \* the kind of a caller that takes the global gate only
  Global,       \* the name of the INNER gate
  KindOf,       \* [Callers -> Kinds \cup {NoKind}]
  Cap,          \* [Kinds \cup {Global} -> Nat], 0: no valid entry in the table
  ReadMayFail,  \* whether reading eval-tiers.toml may fail (EACCES, EISDIR...)
  MaxKicks      \* bound: no new call while so many microtasks are pending

Gates == Kinds \cup {Global}

ASSUME CallersFinite == IsFiniteSet(Callers)
ASSUME NamesDistinct == Global \notin Kinds /\ NoKind \notin Gates
ASSUME KindOfType    == KindOf \in [Callers -> Kinds \cup {NoKind}]
ASSUME CapType       == Cap \in [Gates -> Nat] /\ Cap[Global] > 0
ASSUME ReadType      == ReadMayFail \in BOOLEAN
ASSUME MaxKicksType  == MaxKicks \in Nat \ {0}

VARIABLES
  pc,       \* where each caller is
  queue,    \* p-limit: tasks submitted and not started, per gate
  kicks,    \* p-limit: scheduled microtasks of submit, per gate
  active,   \* p-limit: activeCount, per gate
  held,     \* tasks started whose next() has not run, per gate
  settled,  \* those of them whose held promise is resolved
  config    \* _tierConcurrencyCache: "unread" or "cached"

vars == <<pc, queue, kicks, active, held, settled, config>>

Init ==
  /\ pc      = [c \in Callers |-> "idle"]
  /\ queue   = [g \in Gates |-> <<>>]
  /\ kicks   = [g \in Gates |-> 0]
  /\ active  = [g \in Gates |-> 0]
  /\ held    = [g \in Gates |-> {}]
  /\ settled = [g \in Gates |-> {}]
  /\ config  = "unread"

-----------------------------------------------------------------------------
(* p-limit *)

\* Mutant: the microtask is scheduled only for the first task in the queue.
SubmitKickOnce(g, c) ==
  /\ queue' = [queue EXCEPT ![g] = Append(@, c)]
  /\ kicks' = [kicks EXCEPT ![g] = IF queue[g] = <<>> THEN @ + 1 ELSE @]

\* limit(fn): the task is queued and one microtask will look at the queue.
Submit(g, c) ==
  /\ queue' = [queue EXCEPT ![g] = Append(@, c)]
  /\ kicks' = [kicks EXCEPT ![g] = @ + 1]

\* run(): the task at the head starts; its body hands the caller the slot.
StartHead(g) ==
  LET c == Head(queue[g]) IN
  /\ queue' = [queue EXCEPT ![g] = Tail(@)]
  /\ pc' = [pc EXCEPT ![c] = IF g = Global THEN "admitted" ELSE "working"]

\* Mutant: off by one at the cap.
KickStartsAtCap(g) == active[g] <= Cap[g] /\ queue[g] # <<>>

\* The microtask scheduled by Submit.
KickStarts(g) == active[g] < Cap[g] /\ queue[g] # <<>>

Kick(g) ==
  /\ kicks[g] > 0
  /\ kicks' = [kicks EXCEPT ![g] = @ - 1]
  /\ IF KickStarts(g)
       THEN /\ StartHead(g)
            /\ active' = [active EXCEPT ![g] = @ + 1]
            /\ held' = [held EXCEPT ![g] = @ \cup {Head(queue[g])}]
       ELSE UNCHANGED <<queue, pc, active, held>>
  /\ UNCHANGED <<settled, config>>

\* Mutant: next() decrements but does not look at the queue.
TaskEndedNoDequeue(g, c) ==
  /\ c \in settled[g]
  /\ settled' = [settled EXCEPT ![g] = @ \ {c}]
  /\ active' = [active EXCEPT ![g] = @ - 1]
  /\ held' = [held EXCEPT ![g] = @ \ {c}]
  /\ UNCHANGED <<queue, pc, kicks, config>>

\* next(): the microtask that follows the settlement of a task.
TaskEnded(g, c) ==
  /\ c \in settled[g]
  /\ settled' = [settled EXCEPT ![g] = @ \ {c}]
  /\ IF queue[g] # <<>>
       THEN /\ StartHead(g)
            /\ held' = [held EXCEPT ![g] = (@ \ {c}) \cup {Head(queue[g])}]
            /\ UNCHANGED active
       ELSE /\ active' = [active EXCEPT ![g] = @ - 1]
            /\ held' = [held EXCEPT ![g] = @ \ {c}]
            /\ UNCHANGED <<queue, pc>>
  /\ UNCHANGED <<kicks, config>>

-----------------------------------------------------------------------------
(* acquire(kind), the work, and release() *)

CallApi(c) ==
  /\ pc[c] = "idle"
  /\ \A g \in Gates : c \notin held[g] /\ kicks[g] < MaxKicks
  /\ pc' = [pc EXCEPT ![c] = "askGlobal"]
  /\ Submit(Global, c)
  /\ UNCHANGED <<active, held, settled, config>>

\* The caller holds the global slot and needs no other: no kind was given,
\* or the table has no valid cap for it.
EnterDirectly(c) ==
  /\ pc[c] = "admitted"
  /\ \/ KindOf[c] = NoKind /\ UNCHANGED config
     \/ KindOf[c] \in Kinds /\ Cap[KindOf[c]] = 0 /\ config' = "cached"
  /\ pc' = [pc EXCEPT ![c] = "working"]
  /\ UNCHANGED <<queue, kicks, active, held, settled>>

\* The kind is capped: keep the global slot and queue at the kind's gate.
AskKind(c) ==
  /\ pc[c] = "admitted"
  /\ KindOf[c] \in Kinds
  /\ Cap[KindOf[c]] > 0
  /\ config' = "cached"
  /\ pc' = [pc EXCEPT ![c] = "askKind"]
  /\ Submit(KindOf[c], c)
  /\ UNCHANGED <<active, held, settled>>

\* _loadTierConcurrencyConfig throws (any read error but ENOENT): acquire()
\* rejects, and no release function reaches anyone.
ReadFails(c) ==
  /\ ReadMayFail
  /\ pc[c] = "admitted"
  /\ KindOf[c] \in Kinds
  /\ config = "unread"
  /\ pc' = [pc EXCEPT ![c] = "failed"]
  /\ UNCHANGED <<queue, kicks, active, held, settled, config>>

\* release(), or the end of _dispatch: every promise the caller's slots wait
\* on is resolved, per-kind first.
Release(c) ==
  /\ pc[c] = "working"
  /\ pc' = [pc EXCEPT ![c] = "idle"]
  /\ settled' = [g \in Gates |-> IF c \in held[g] THEN settled[g] \cup {c}
                                                  ELSE settled[g]]
  /\ UNCHANGED <<queue, kicks, active, held, config>>

\* Calls may wait for ever for the slots that failed reads have lost.
SlotLost == \E c \in Callers : pc[c] = "failed"
Starved  == SlotLost /\ UNCHANGED vars

Next ==
  \/ \E c \in Callers : \/ CallApi(c) \/ EnterDirectly(c) \/ AskKind(c)
                        \/ ReadFails(c) \/ Release(c)
  \/ \E g \in Gates : Kick(g) \/ \E c \in Callers : TaskEnded(g, c)
  \/ Starved

Spec == Init /\ [][Next]_vars

-----------------------------------------------------------------------------
(* Properties *)

TypeOK ==
  /\ pc \in [Callers -> {"idle", "askGlobal", "admitted", "askKind",
                         "working", "failed"}]
  /\ queue \in [Gates -> Seq(Callers)]
  /\ kicks \in [Gates -> Nat]
  /\ active \in [Gates -> Nat]
  /\ held \in [Gates -> SUBSET Callers]
  /\ settled \in [Gates -> SUBSET Callers]
  /\ config \in {"unread", "cached"}

Working == {c \in Callers : pc[c] = "working"}
WorkingOf(k) == {c \in Working : KindOf[c] = k}

\* No more calls execute than AD_EVALS_MAX_CONCURRENCY allows, nor more of a
\* capped kind than its own cap (concurrency.js:127).
CapsRespected ==
  /\ Cardinality(Working) <= Cap[Global]
  /\ \A k \in Kinds : Cap[k] > 0 => Cardinality(WorkingOf(k)) <= Cap[k]

\* A task waits only if the gate is full or a microtask that will start it is
\* already scheduled: p-limit's activeCount and queue never leave a waiter
\* behind that nobody will wake.
NoStrandedWaiter ==
  \A g \in Gates :
    Cap[g] > 0 => active[g] = Cap[g] \/ Len(queue[g]) <= kicks[g]

\* A slot of the global gate that is not being given back belongs to a caller
\* that will give it back, being on its way to execute or executing
\* (concurrency.js:278), or to one whose read of the tier file failed: that
\* is the one way to lose a slot (concurrency.js:254-258).
SlotHasOwner ==
  \A c \in held[Global] \ settled[Global] :
    pc[c] \in {"admitted", "askKind", "working", "failed"}

\* A per-kind slot is only ever held on top of a global slot
\* (concurrency.js:122-125): the hierarchy is never entered from the side.
KindInsideGlobal ==
  \A k \in Kinds : \A c \in held[k] \ settled[k] :
    c \in held[Global] \ settled[Global]

\* The nested gates cannot lock each other out: calls that wait for their kind
\* keep their global slot (concurrency.js:254-261), and still, while anybody
\* waits, somebody can move who waits for nobody, or a slot is lost.
NobodyStuck ==
  (\E c \in Callers : pc[c] \in {"askGlobal", "askKind"}) =>
    \/ \E g \in Gates : kicks[g] > 0 \/ settled[g] # {}
    \/ \E c \in Callers : pc[c] \in {"admitted", "working"}
    \/ SlotLost

(* The inductive invariant behind the safety properties. *)

\* activeCount is exact, and never above the cap.
Counted ==
  \A g \in Gates : active[g] = Cardinality(held[g]) /\ active[g] <= Cap[g]

\* A queued task belongs to a caller that waits at that gate, once.
QueueOK ==
  \A g \in Gates :
    /\ \A i \in 1..Len(queue[g]) :
         IF g = Global THEN pc[queue[g][i]] = "askGlobal"
                       ELSE pc[queue[g][i]] = "askKind" /\ KindOf[queue[g][i]] = g
    /\ \A i, j \in 1..Len(queue[g]) : queue[g][i] = queue[g][j] => i = j

\* Only started tasks settle, and a kind's slots go to its own callers.
HeldOK ==
  /\ \A g \in Gates : settled[g] \subseteq held[g]
  /\ \A k \in Kinds : \A c \in held[k] : KindOf[c] = k

\* Which slots a caller has, by where it is.
CallerOK ==
  \A c \in Callers :
    /\ pc[c] = "idle" => \A g \in Gates : c \in held[g] => c \in settled[g]
    /\ pc[c] = "askGlobal" => \A g \in Gates : c \notin held[g]
    /\ pc[c] \in {"admitted", "askKind", "working"} =>
         c \in held[Global] /\ c \notin settled[Global]
    /\ pc[c] \in {"admitted", "askKind", "failed"} =>
         \A k \in Kinds : c \notin held[k]
    /\ pc[c] = "askKind" => KindOf[c] \in Kinds /\ Cap[KindOf[c]] > 0
    /\ (pc[c] = "working" /\ KindOf[c] \in Kinds /\ Cap[KindOf[c]] > 0) =>
         c \in held[KindOf[c]] /\ c \notin settled[KindOf[c]]
    /\ pc[c] = "failed" => ReadMayFail

\* Who waits is in the queue of the gate it waits at.
Queued(g, c)  == \E i \in 1..Len(queue[g]) : queue[g][i] = c
WaitersQueued ==
  \A c \in Callers : /\ pc[c] = "askGlobal" => Queued(Global, c)
                     /\ pc[c] = "askKind" => Queued(KindOf[c], c)

IInv == TypeOK /\ Counted /\ QueueOK /\ HeldOK /\ CallerOK /\ NoStrandedWaiter

\* The gate implements a plain bounded set of executing callers.
Slots == INSTANCE BoundedSlots
           WITH Users <- Callers, Cap <- Cap[Global], inside <- Working
ImplementsBoundedSlots == Slots!Spec
=============================================================================
