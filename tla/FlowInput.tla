------------------------------ MODULE FlowInput ------------------------------
(***************************************************************************)
(* The asynchronous inputs of one flow (flow.cc, Model::ASYNCCOMMON): the  *)
(* threads of the upstream flows call Flow::SendInput, the thread of the   *)
(* flow's coroutine runs FlowCoroutine::WhileRun, and the thread that      *)
(* drops the last reference to the flow runs Flow::StopAllThread and joins *)
(* the coroutine.  Each input slot has a queue cached_buffers protected by *)
(* a ConditionLockMutex cond_mtx.                                          *)
(*                                                                         *)
(* A step is what happens between two accesses to shared memory that       *)
(* another thread can interleave with: acquiring cond_mtx is a step, and a *)
(* critical section up to its unlock (or wait) is one step.  The code that *)
(* runs without the lock (the tests of enable and quit, and the size() of  *)
(* ASyncFullBlockingBehavior) has steps of its own.                        *)
(*                                                                         *)
(* A buffer is <<p, n>>: the n-th buffer that producer p sends.            *)
(***************************************************************************)
EXTENDS Integers, Sequences, FiniteSets

CONSTANTS
    Producers,      \* the upstream threads
    NumSlots,       \* the number of in_slots of the coroutine
    Target,         \* [Producers -> Slots]: the slot a producer sends to
    MaxCacheNum,    \* [Slots -> Nat]: Input::max_cache_num, 0 is unlimited
    Mode,           \* [Slots -> Modes]: Input::mode_when_full
    FetchBlock,     \* [Slots -> BOOLEAN]: Input::fetch_block
    MaxSends,       \* bound: SendInput calls per producer
    Spurious,       \* condition variables may wake up for no reason
    TornSizeRead    \* an unlocked deque::size() that races with another
                    \* thread's update may return anything

Slots == 1 .. NumSlots

Modes == {"BLOCKING", "DROPFRONT", "DROPCURRENT"}

ASSUME ProducersAssumption == IsFiniteSet(Producers) /\ Producers # {}
ASSUME NumSlotsAssumption == NumSlots \in Nat \ {0}
ASSUME TargetAssumption == Target \in [Producers -> Slots]
ASSUME MaxCacheNumAssumption == MaxCacheNum \in [Slots -> Nat]
ASSUME ModeAssumption == Mode \in [Slots -> Modes]
ASSUME FetchBlockAssumption == FetchBlock \in [Slots -> BOOLEAN]
ASSUME MaxSendsAssumption == MaxSends \in Nat
ASSUME BuildAssumption == Spurious \in BOOLEAN /\ TornSizeRead \in BOOLEAN
ASSUME ThreadsAssumption == Producers \cap {"worker", "stopper", "nobody"} = {}

Worker == "worker"
Stopper == "stopper"
Nobody == "nobody"
Buffer == Producers \X (1 .. MaxSends)
Null == << >>       \* an empty shared_ptr<MediaBuffer>

VARIABLES
    enable,         \* Flow::enable
    quit,           \* Flow::quit
    cached_buffers, \* [Slots -> Seq(Buffer)]: Input::cached_buffers
    owner,          \* [Slots -> thread]: who holds Input::cond_mtx
    attached,       \* producers that hold a reference to this flow
    ppc,            \* where each producer is in SendInput
    sent,           \* the number of SendInput calls of each producer
    wpc,            \* where the coroutine's thread is in WhileRun
    cur,            \* the slot ASyncFetchInputCommon is at
    in_vector,      \* [Slots -> Buffer or Null]: FlowCoroutine::in_vector
    spc,            \* where the destroying thread is
    scur,           \* the slot StopAllThread is at
    accepted,       \* history: the highest number pushed per producer
    delivered       \* history: the highest number processed per producer

queueVars == <<cached_buffers, owner>>
producerVars == <<attached, ppc, sent>>
workerVars == <<wpc, cur, in_vector>>
stopperVars == <<spc, scur>>
history == <<accepted, delivered>>
vars == <<enable, quit, queueVars, producerVars, workerVars, stopperVars,
          history>>

NoInput == [s \in Slots |-> Null]

Init ==
    /\ enable = TRUE
    /\ quit = FALSE
    /\ cached_buffers = [s \in Slots |-> << >>]
    /\ owner = [s \in Slots |-> Nobody]
    /\ attached = Producers
    /\ ppc = [p \in Producers |-> "idle"]
    /\ sent = [p \in Producers |-> 0]
    /\ wpc = "while"
    /\ cur = 1
    /\ in_vector = NoInput
    /\ spc = "alive"
    /\ scur = 1
    /\ accepted = [p \in Producers |-> 0]
    /\ delivered = [p \in Producers |-> 0]

-----------------------------------------------------------------------------
(* ConditionLockMutex.  The coroutine's thread is the only one that waits. *)

\* Mutant of Acquire: the lock does not lock.
AcquireUnlocked(s, t) == owner' = [owner EXCEPT ![s] = t]

Acquire(s, t) == /\ owner[s] = Nobody
                 /\ owner' = [owner EXCEPT ![s] = t]

Release(s) == owner' = [owner EXCEPT ![s] = Nobody]

\* Mutant of Notified: the notify is forgotten.
NotifiedNever(s) == wpc

\* cond.notify_all(): the woken thread still has to take the mutex.
Notified(s) == IF wpc = "waiting" /\ cur = s THEN "woken" ELSE wpc

-----------------------------------------------------------------------------
(* An upstream thread: Flow::SendInput.                                    *)

\* Mutant of Full: one buffer too many.
FullOffByOne(s) == MaxCacheNum[s] > 0 /\ MaxCacheNum[s] < Len(cached_buffers[s])

Full(s) == MaxCacheNum[s] > 0 /\ MaxCacheNum[s] <= Len(cached_buffers[s])

Goto(p, label) == ppc' = [ppc EXCEPT ![p] = label]

\* The unlocked test of enable.
SendInput(p) ==
    /\ ppc[p] = "idle"
    /\ p \in attached
    /\ sent[p] < MaxSends
    /\ sent' = [sent EXCEPT ![p] = @ + 1]
    /\ Goto(p, IF enable THEN "lock" ELSE "idle")
    /\ UNCHANGED <<enable, quit, queueVars, attached, workerVars, stopperVars,
                   history>>

\* ASyncSendInputCommonBehavior and, after its sleep, ASyncFullBlockingBehavior
\* take cond_mtx; each label says where the producer continues.
AtLock == {"lock", "relock_room", "relock_full"}
AfterLock(label) == IF label = "lock" THEN "body"
                    ELSE IF label = "relock_room" THEN "room" ELSE "full"

ProducerLock(p) ==
    /\ ppc[p] \in AtLock
    /\ Acquire(Target[p], p)
    /\ Goto(p, AfterLock(ppc[p]))
    /\ UNCHANGED <<enable, quit, cached_buffers, attached, sent, workerVars,
                   stopperVars, history>>

\* Mutant of PushBack: push_front.
PushFront(p, queue) == LET s == Target[p] IN
    /\ cached_buffers' = [cached_buffers EXCEPT ![s] = <<<<p, sent[p]>>>> \o queue]
    /\ accepted' = [accepted EXCEPT ![p] = sent[p]]
    /\ wpc' = Notified(s)
    /\ Release(s)
    /\ Goto(p, "idle")
    /\ UNCHANGED <<enable, quit, attached, sent, cur, in_vector, stopperVars,
                   delivered>>

\* push_back(input) on what is left of the queue, notify, unlock.
PushBack(p, queue) == LET s == Target[p] IN
    /\ cached_buffers' =
         [cached_buffers EXCEPT ![s] = Append(queue, <<p, sent[p]>>)]
    /\ accepted' = [accepted EXCEPT ![p] = sent[p]]
    /\ wpc' = Notified(s)
    /\ Release(s)
    /\ Goto(p, "idle")
    /\ UNCHANGED <<enable, quit, attached, sent, cur, in_vector, stopperVars,
                   delivered>>

\* Return without pushing.
Drop(p) ==
    /\ Release(Target[p])
    /\ Goto(p, "idle")
    /\ UNCHANGED <<enable, quit, cached_buffers, attached, sent, workerVars,
                   stopperVars, history>>

\* Mutant of SleepAndUnlock: notify, so that the coroutine makes room.
NotifySleepAndUnlock(p) ==
    /\ wpc' = Notified(Target[p])
    /\ Release(Target[p])
    /\ Goto(p, "peek")
    /\ UNCHANGED <<enable, quit, cached_buffers, attached, sent, cur, in_vector,
                   stopperVars, history>>

\* msleep(5) with the lock held, then unlock.
SleepAndUnlock(p) ==
    /\ Release(Target[p])
    /\ Goto(p, "peek")
    /\ UNCHANGED <<enable, quit, cached_buffers, attached, sent, workerVars,
                   stopperVars, history>>

Push(p) ==
    /\ ppc[p] = "body"
    /\ ~Full(Target[p])
    /\ PushBack(p, cached_buffers[Target[p]])

\* Mutant of PushDropFront: the newest buffer makes room.
PushDropBack(p) == LET queue == cached_buffers[Target[p]] IN
    /\ ppc[p] = "body"
    /\ Full(Target[p])
    /\ Mode[Target[p]] = "DROPFRONT"
    /\ PushBack(p, SubSeq(queue, 1, Len(queue) - 1))

PushDropFront(p) ==
    /\ ppc[p] = "body"
    /\ Full(Target[p])
    /\ Mode[Target[p]] = "DROPFRONT"
    /\ PushBack(p, Tail(cached_buffers[Target[p]]))

DropCurrent(p) ==
    /\ ppc[p] = "body"
    /\ Full(Target[p])
    /\ Mode[Target[p]] = "DROPCURRENT"
    /\ Drop(p)

Block(p) ==
    /\ ppc[p] = "body"
    /\ Full(Target[p])
    /\ Mode[Target[p]] = "BLOCKING"
    /\ SleepAndUnlock(p)

\* cached_buffers.size() without the lock: a data race when another thread is
\* inside a critical section that changes the queue.
Peek(p) == LET s == Target[p] IN
    /\ ppc[p] = "peek"
    /\ \E room \in BOOLEAN :
         /\ \/ room = ~Full(s)
            \/ TornSizeRead /\ owner[s] # Nobody
         /\ Goto(p, IF room THEN "relock_room" ELSE "relock_full")
    /\ UNCHANGED <<enable, quit, queueVars, attached, sent, workerVars,
                   stopperVars, history>>

\* break out of the loop, return pred: push only when still enabled.
PushAfterRoom(p) ==
    /\ ppc[p] = "room"
    /\ enable
    /\ PushBack(p, cached_buffers[Target[p]])

\* Mutant of BlockAgain: an if instead of the while.
BlockOnce(p) ==
    /\ ppc[p] = "full"
    /\ enable
    /\ Drop(p)

\* while (pred): the loop goes on.
BlockAgain(p) ==
    /\ ppc[p] = "full"
    /\ enable
    /\ SleepAndUnlock(p)

\* Mutant of GiveUp: the loop does not look at enable again.
NeverGiveUp(p) ==
    /\ ppc[p] \in {"room", "full"}
    /\ ~enable
    /\ SleepAndUnlock(p)

\* pred has become false: both exits of the loop return false.
GiveUp(p) ==
    /\ ppc[p] \in {"room", "full"}
    /\ ~enable
    /\ Drop(p)

\* RemoveDownFlow by the application: the upstream flow forgets this one.
\* RunOnce sends through a copy of the list of references, so a producer in
\* SendInput keeps the flow alive.
Detach(p) ==
    /\ ppc[p] = "idle"
    /\ p \in attached
    /\ attached' = attached \ {p}
    /\ UNCHANGED <<enable, quit, queueVars, ppc, sent, workerVars, stopperVars,
                   history>>

\* What a producer that is inside SendInput does between taking the mutex.
ProducerBody(p) ==
    \/ Push(p) \/ PushDropFront(p) \/ DropCurrent(p) \/ Block(p)
    \/ Peek(p)
    \/ PushAfterRoom(p) \/ BlockAgain(p) \/ GiveUp(p)

-----------------------------------------------------------------------------
(* The coroutine's thread: WhileRun, RunOnce, ASyncFetchInputCommon.       *)

\* Mutant of While: while (true).
WhileTrue ==
    /\ wpc = "while"
    /\ wpc' = "lock"
    /\ cur' = 1
    /\ UNCHANGED <<enable, quit, queueVars, producerVars, in_vector,
                   stopperVars, history>>

\* while (!flow->quit), without a lock.
While ==
    /\ wpc = "while"
    /\ wpc' = IF quit THEN "exit" ELSE "lock"
    /\ cur' = 1
    /\ UNCHANGED <<enable, quit, queueVars, producerVars, in_vector,
                   stopperVars, history>>

\* Take cond_mtx of the current slot, at first or when wait() returns.
WorkerLock ==
    /\ wpc \in {"lock", "woken"}
    /\ Acquire(cur, Worker)
    /\ wpc' = IF wpc = "lock" THEN "fetch" ELSE "resumed"
    /\ UNCHANGED <<enable, quit, cached_buffers, producerVars, cur, in_vector,
                   stopperVars, history>>

\* Mutant of NextSlot: one slot too many.
NextSlotOffByOne(input) ==
    /\ Release(cur)
    /\ in_vector' = [in_vector EXCEPT ![cur] = input]
    /\ IF cur > NumSlots
       THEN wpc' = "process" /\ UNCHANGED cur
       ELSE wpc' = "lock" /\ cur' = cur + 1

\* Unlock and go on with the next slot, or leave the loop over the slots.
NextSlot(input) ==
    /\ Release(cur)
    /\ in_vector' = [in_vector EXCEPT ![cur] = input]
    /\ IF cur = NumSlots
       THEN wpc' = "process" /\ UNCHANGED cur
       ELSE wpc' = "lock" /\ cur' = cur + 1

\* Nothing there and the slot does not block: an empty input.
FetchNothing ==
    /\ wpc = "fetch"
    /\ cached_buffers[cur] = << >>
    /\ ~FetchBlock[cur]
    /\ NextSlot(Null)
    /\ UNCHANGED <<enable, quit, cached_buffers, producerVars, stopperVars,
                   history>>

\* cond_mtx.wait(), whatever enable and quit say.
Wait ==
    /\ wpc = "fetch"
    /\ cached_buffers[cur] = << >>
    /\ FetchBlock[cur]
    /\ Release(cur)
    /\ wpc' = "waiting"
    /\ UNCHANGED <<enable, quit, cached_buffers, producerVars, cur, in_vector,
                   stopperVars, history>>

SpuriousWakeup ==
    /\ Spurious
    /\ wpc = "waiting"
    /\ wpc' = "woken"
    /\ UNCHANGED <<enable, quit, queueVars, producerVars, cur, in_vector,
                   stopperVars, history>>

\* Past the wait: there was a buffer, or wait() has returned.
PastWait == \/ wpc = "fetch" /\ cached_buffers[cur] # << >>
            \/ wpc = "resumed"

\* Mutant of FetchDisabled: the slots fetched before stay in in_vector.
FetchDisabledKeeps ==
    /\ PastWait
    /\ ~enable
    /\ Release(cur)
    /\ wpc' = "process"
    /\ UNCHANGED <<enable, quit, cached_buffers, producerVars, cur, in_vector,
                   stopperVars, history>>

\* Disabled: forget the slots fetched before, leave the queues alone.
FetchDisabled ==
    /\ PastWait
    /\ ~enable
    /\ in_vector' = NoInput
    /\ Release(cur)
    /\ wpc' = "process"
    /\ UNCHANGED <<enable, quit, cached_buffers, producerVars, cur,
                   stopperVars, history>>

\* Mutant of Fetch: enable is not tested after the wait.
FetchAnyway ==
    /\ PastWait
    /\ cached_buffers[cur] # << >>
    /\ cached_buffers' = [cached_buffers EXCEPT ![cur] = Tail(@)]
    /\ NextSlot(Head(cached_buffers[cur]))
    /\ UNCHANGED <<enable, quit, producerVars, stopperVars, history>>

Fetch ==
    /\ PastWait
    /\ enable
    /\ cached_buffers[cur] # << >>
    /\ cached_buffers' = [cached_buffers EXCEPT ![cur] = Tail(@)]
    /\ NextSlot(Head(cached_buffers[cur]))
    /\ UNCHANGED <<enable, quit, producerVars, stopperVars, history>>

\* assert(!v.empty()) fails: the process aborts here.
FetchAborts ==
    /\ PastWait
    /\ enable
    /\ cached_buffers[cur] = << >>
    /\ wpc' = "abort"
    /\ UNCHANGED <<enable, quit, queueVars, producerVars, cur, in_vector,
                   stopperVars, history>>

\* th_run, sending its results down, and the reset of in_vector.
Process ==
    /\ wpc = "process"
    /\ delivered' = [p \in Producers |->
         LET b == in_vector[Target[p]]
         IN  IF b # Null /\ b[1] = p THEN b[2] ELSE delivered[p]]
    /\ in_vector' = NoInput
    /\ wpc' = "while"
    /\ UNCHANGED <<enable, quit, queueVars, producerVars, cur, stopperVars,
                   accepted>>

WorkerBody == \/ While \/ FetchNothing \/ Wait
              \/ FetchDisabled \/ Fetch \/ FetchAborts \/ Process

-----------------------------------------------------------------------------
(* The thread that destroys the flow: ~Flow, StopAllThread, the join.      *)

StopStart ==
    /\ spc = "alive"
    /\ attached = {}
    /\ spc' = "lock"
    /\ scur' = 1
    /\ UNCHANGED <<enable, quit, queueVars, producerVars, workerVars, history>>

StopLock ==
    /\ spc = "lock"
    /\ Acquire(scur, Stopper)
    /\ spc' = "body"
    /\ UNCHANGED <<enable, quit, cached_buffers, producerVars, workerVars,
                   scur, history>>

StopSlot ==
    /\ spc = "body"
    /\ enable' = FALSE
    /\ quit' = TRUE
    /\ wpc' = Notified(scur)
    /\ Release(scur)
    /\ IF scur = NumSlots
       THEN spc' = "join" /\ UNCHANGED scur
       ELSE spc' = "lock" /\ scur' = scur + 1
    /\ UNCHANGED <<cached_buffers, producerVars, cur, in_vector, history>>

\* Mutant of StopJoin: the thread is not joined.
StopWithoutJoin ==
    /\ spc = "join"
    /\ spc' = "done"
    /\ UNCHANGED <<enable, quit, queueVars, producerVars, workerVars, scur,
                   history>>

StopJoin ==
    /\ spc = "join"
    /\ wpc = "exit"
    /\ spc' = "done"
    /\ UNCHANGED <<enable, quit, queueVars, producerVars, workerVars, scur,
                   history>>

\* SetDisable(), public: no lock, nobody is notified.
SetDisable ==
    /\ spc = "alive"
    /\ enable' = FALSE
    /\ UNCHANGED <<quit, queueVars, producerVars, workerVars, stopperVars,
                   history>>

-----------------------------------------------------------------------------

Next == \/ \E p \in Producers :
             SendInput(p) \/ ProducerLock(p) \/ ProducerBody(p) \/ Detach(p)
        \/ WorkerLock \/ WorkerBody
        \/ SpuriousWakeup
        \/ StopStart \/ StopLock \/ StopSlot \/ StopJoin
        \/ SetDisable

Spec == Init /\ [][Next]_vars

\* Threads that can run do run, process() returns, and a thread that keeps
\* trying to lock a mutex that is free again and again gets it in the end.
\* Nobody has to send, to detach, to disable or to destroy the flow.
Fairness == /\ \A p \in Producers : /\ WF_vars(ProducerBody(p))
                                    /\ SF_vars(ProducerLock(p))
            /\ WF_vars(WorkerBody)
            /\ SF_vars(WorkerLock)
            /\ SF_vars(StopLock)
            /\ WF_vars(StopSlot \/ StopJoin)

FairSpec == Spec /\ Fairness

-----------------------------------------------------------------------------
(* Properties.                                                             *)

\* The type of the state, and that a label that owns cond_mtx says so.
TypeOK ==
    /\ enable \in BOOLEAN
    /\ quit \in BOOLEAN
    /\ cached_buffers \in [Slots -> Seq(Buffer)]
    /\ owner \in [Slots -> Producers \cup {Worker, Stopper, Nobody}]
    /\ attached \in SUBSET Producers
    /\ ppc \in [Producers -> {"idle", "lock", "body", "peek", "relock_room",
                              "relock_full", "room", "full"}]
    /\ sent \in [Producers -> 0 .. MaxSends]
    /\ wpc \in {"while", "lock", "fetch", "waiting", "woken", "resumed",
                "process", "exit", "abort"}
    /\ cur \in Slots
    /\ in_vector \in [Slots -> Buffer \cup {Null}]
    /\ spc \in {"alive", "lock", "body", "join", "done"}
    /\ scur \in Slots
    /\ accepted \in [Producers -> 0 .. MaxSends]
    /\ delivered \in [Producers -> 0 .. MaxSends]

ProducersOf(s) == {p \in Producers : Target[p] = s}

\* How long a bounded queue can get.  In BLOCKING mode every producer of the
\* slot may have seen, without the lock, the same free place.
QueueLimit(s) == IF Mode[s] = "BLOCKING"
               THEN MaxCacheNum[s] + Cardinality(ProducersOf(s)) - 1
               ELSE MaxCacheNum[s]

\* A bounded queue stays within QueueLimit: max_cache_num is exceeded only by
\* producers that passed the unlocked test of ASyncFullBlockingBehavior
\* together, never by more than the number of producers less one.
QueueBound ==
    \A s \in Slots : /\ MaxCacheNum[s] > 0
                     /\ TornSizeRead => Mode[s] # "BLOCKING"
                     => Len(cached_buffers[s]) <= QueueLimit(s)

\* With one producer per slot max_cache_num is exact, even when the unlocked
\* size() may return anything while the coroutine pops.
OneProducerBound ==
    \A s \in Slots : MaxCacheNum[s] > 0 /\ Cardinality(ProducersOf(s)) <= 1
                     => Len(cached_buffers[s]) <= MaxCacheNum[s]

\* assert(!v.empty()) in ASyncFetchInputCommon holds: wait() is not in a loop,
\* and still only returns with a buffer in the queue or the flow disabled.
FetchAssert == wpc # "abort"

\* The last buffer of p that left the queue.
Taken(p) == LET b == in_vector[Target[p]]
            IN  IF b # Null /\ b[1] = p THEN b[2] ELSE delivered[p]

Queued(p) == LET q == cached_buffers[Target[p]]
             IN  {q[i][2] : i \in {k \in DOMAIN q : q[k][1] = p}}

\* Buffers of one producer are processed in the order they were sent in: what
\* is queued is newer than what was taken, and the queue is sorted.
InOrder ==
    /\ \A s \in Slots : \A i, j \in DOMAIN cached_buffers[s] :
         LET q == cached_buffers[s]
         IN  i < j /\ q[i][1] = q[j][1] => q[i][2] < q[j][2]
    /\ \A p \in Producers : /\ delivered[p] <= Taken(p)
                            /\ Taken(p) <= accepted[p]
                            /\ \A n \in Queued(p) : n \in Taken(p)+1 .. accepted[p]

\* While the flow is enabled a BLOCKING (or unlimited) slot loses nothing:
\* all that was accepted and not yet taken is queued, and a producer that has
\* returned from SendInput has had its buffer accepted.
Lossless ==
    enable => \A p \in Producers :
      Mode[Target[p]] = "BLOCKING" \/ MaxCacheNum[Target[p]] = 0 =>
        /\ Queued(p) = Taken(p)+1 .. accepted[p]
        /\ ppc[p] = "idle" => accepted[p] = sent[p]

\* A DROPFRONT slot gives up its oldest buffers only: what is queued of one
\* producer is an unbroken run that ends with its last buffer.
NewestKept ==
    \A p \in Producers : Mode[Target[p]] = "DROPFRONT" =>
        /\ \E oldest \in 0 .. accepted[p] : Queued(p) = oldest+1 .. accepted[p]
        /\ enable /\ ppc[p] = "idle" => accepted[p] = sent[p]

\* When every slot blocks, process() gets an input from every slot, or from
\* none (the flow was disabled in the middle of the fetch).
WholeInputs ==
    wpc = "process" /\ (\A s \in Slots : FetchBlock[s]) =>
      \/ in_vector = NoInput
      \/ \A s \in Slots : in_vector[s] # Null

\* When the join has returned and the members are destroyed, nobody is left
\* who uses them: no producer in SendInput, no coroutine, no locked mutex.
SafeToDestroy ==
    spc = "done" => /\ wpc = "exit"
                    /\ \A p \in Producers : ppc[p] = "idle"
                    /\ \A s \in Slots : owner[s] = Nobody

\* The queues are bounded FIFOs with the promises of Channel: in order, without
\* a gap when BLOCKING, with evictions only in DROPFRONT mode and only of the
\* head of a full queue, and nothing is taken once the flow is disabled.
Abstract == INSTANCE Channel WITH
    Numbers <- 1 .. MaxSends,
    Bounded <- {s \in Slots : MaxCacheNum[s] > 0},
    Capacity <- [s \in Slots |-> QueueLimit(s)],
    Evicting <- {s \in Slots : Mode[s] = "DROPFRONT"},
    Lossless <- {s \in Slots : Mode[s] = "BLOCKING"},
    chan <- cached_buffers,
    open <- enable
Implements == Abstract!Spec

\* StopAllThread ends: the coroutine leaves WhileRun and is joined.
StopEnds == spc = "lock" ~> spc = "done"

\* What was accepted is processed, unless the flow is disabled, and provided
\* no other slot makes the coroutine wait for ever.
Processed ==
    \A p \in {r \in Producers : \A s \in Slots \ {Target[r]} : ~FetchBlock[s]} :
      \A n \in 1 .. MaxSends :
        accepted[p] = n ~> delivered[p] >= n \/ ~enable

\* SendInput returns: a producer blocked by a full queue goes on when the
\* coroutine has made room, or gives up when the flow is disabled.
SendReturns == \A p \in Producers : ppc[p] # "idle" ~> ppc[p] = "idle"
=============================================================================
