--------------------------- MODULE FlowInputProofs ---------------------------
(***************************************************************************)
(* What holds of FlowInput for every number of producers, slots and sends: *)
(* one inductive invariant, IInv, the safety properties it implies, and    *)
(* the proof that every step is a step of Channel or a stutter.            *)
(***************************************************************************)
EXTENDS FlowInput, FiniteSetTheorems, TLAPS

\* A thread holds cond_mtx exactly in its critical sections.
LockInv ==
    \A s \in Slots :
      /\ \A p \in Producers :
           owner[s] = p <=> Target[p] = s /\ ppc[p] \in {"body", "room", "full"}
      /\ owner[s] = Worker <=> cur = s /\ wpc \in {"fetch", "resumed", "abort"}
      /\ owner[s] = Stopper <=> scur = s /\ spc = "body"

\* Only BLOCKING sleeps.
ModeInv ==
    \A p \in Producers : Mode[Target[p]] # "BLOCKING" =>
        ppc[p] \in {"idle", "lock", "body"}

\* A wait() that was ended by a notify finds a buffer, or the flow disabled.
WakeInv == ~Spurious => /\ wpc \in {"woken", "resumed"} =>
                             cached_buffers[cur] # << >> \/ ~enable
                        /\ wpc # "abort"

\* A producer that saw, without the lock, that there is room.
Passed(s) == {p \in ProducersOf(s) : ppc[p] \in {"relock_room", "room"}}

\* Every producer that passed the test counts as an element of the queue.
BoundInv ==
    ~TornSizeRead => \A s \in Slots : MaxCacheNum[s] > 0 =>
        Len(cached_buffers[s]) + Cardinality(Passed(s)) <= QueueLimit(s)

\* The buffer a producer is sending is newer than all that was accepted.
SendInv ==
    \A p \in Producers :
      /\ accepted[p] <= sent[p]
      /\ ppc[p] # "idle" => accepted[p] < sent[p]
      /\ Mode[Target[p]] = "BLOCKING" =>
           /\ ppc[p] # "idle" => sent[p] = accepted[p] + 1
           /\ enable /\ ppc[p] = "idle" => sent[p] = accepted[p]

\* The order of tear down: references, then enable and quit, then the join.
StopInv ==
    /\ spc # "alive" => attached = {}
    /\ \A p \in Producers : ppc[p] # "idle" => p \in attached
    /\ quit => spc # "alive" /\ ~enable
    /\ spc \in {"join", "done"} => quit
    /\ wpc = "exit" => quit
    /\ spc = "done" => wpc = "exit"

IInv == TypeOK /\ LockInv /\ ModeInv /\ WakeInv /\ BoundInv /\ SendInv /\ StopInv

-----------------------------------------------------------------------------
(* Types.                                                                  *)

USE ProducersAssumption, NumSlotsAssumption, TargetAssumption,
    MaxCacheNumAssumption, ModeAssumption, FetchBlockAssumption,
    MaxSendsAssumption, BuildAssumption, ThreadsAssumption

\* A stuttering step changes nothing that the invariant looks at.
LEMMA Stutter == ASSUME IInv, UNCHANGED vars PROVE IInv'
<1> USE DEF vars, queueVars, producerVars, workerVars, stopperVars, history
<1>1. TypeOK' /\ LockInv' /\ ModeInv' /\ WakeInv'
  BY DEF IInv, TypeOK, LockInv, ModeInv, WakeInv
<1>2. BoundInv'
  <2>1. \A s \in Slots : Passed(s)' = Passed(s) /\ QueueLimit(s)' = QueueLimit(s)
    BY DEF Passed, QueueLimit, ProducersOf
  <2> QED BY <2>1 DEF IInv, BoundInv
<1>3. SendInv' /\ StopInv'
  BY DEF IInv, SendInv, StopInv
<1> QED BY <1>1, <1>2, <1>3 DEF IInv

\* Every action keeps the types of the variables.
LEMMA TypeStep == ASSUME IInv, Next PROVE TypeOK'
<1> USE DEF TypeOK, Slots, Worker, Stopper, Nobody, Null, queueVars,
            producerVars, workerVars, stopperVars, history, Release, Goto,
            Acquire
<1> TypeOK /\ SendInv
  BY DEF IInv
<1>1. ASSUME NEW p \in Producers, SendInput(p) PROVE TypeOK'
  <2>1. ppc' = [ppc EXCEPT ![p] = "lock"] \/ ppc' = [ppc EXCEPT ![p] = "idle"]
    BY <1>1 DEF SendInput
  <2>2. sent' \in [Producers -> 0 .. MaxSends]
    BY <1>1 DEF SendInput
  <2> QED BY <1>1, <2>1, <2>2 DEF SendInput
<1>2. ASSUME NEW p \in Producers, ProducerLock(p) PROVE TypeOK'
  BY <1>2 DEF ProducerLock, AtLock, AfterLock
<1>3. ASSUME NEW p \in Producers, NEW q \in Seq(Buffer), ppc[p] # "idle",
             PushBack(p, q)
      PROVE  TypeOK'
  <2>1. sent[p] \in 1 .. MaxSends
    BY <1>3 DEF SendInv
  <2>2. Append(q, <<p, sent[p]>>) \in Seq(Buffer)
    BY <2>1 DEF Buffer
  <2> QED BY <1>3, <2>1, <2>2 DEF PushBack, Notified
<1>4. ASSUME NEW p \in Producers, ProducerBody(p) PROVE TypeOK'
  <2>1. cached_buffers[Target[p]] \in Seq(Buffer)
    OBVIOUS
  <2>2. CASE Push(p)
    BY <2>1, <2>2, <1>3 DEF Push
  <2>3. CASE PushDropFront(p)
    <3>1. Tail(cached_buffers[Target[p]]) \in Seq(Buffer)
      BY <2>1, <2>3 DEF PushDropFront, Full
    <3> QED BY <2>3, <3>1, <1>3 DEF PushDropFront
  <2>4. CASE PushAfterRoom(p)
    BY <2>1, <2>4, <1>3 DEF PushAfterRoom
  <2>5. CASE DropCurrent(p) \/ GiveUp(p)
    BY <2>5 DEF DropCurrent, GiveUp, Drop
  <2>6. CASE Block(p) \/ BlockAgain(p)
    BY <2>6 DEF Block, BlockAgain, SleepAndUnlock
  <2>7. CASE Peek(p)
    BY <2>7 DEF Peek
  <2> QED BY <1>4, <2>2, <2>3, <2>4, <2>5, <2>6, <2>7 DEF ProducerBody
<1>5. ASSUME NEW p \in Producers, Detach(p) PROVE TypeOK'
  BY <1>5 DEF Detach
<1>6. CASE WorkerLock
  BY <1>6 DEF WorkerLock
<1>7. ASSUME NEW b \in Buffer \cup {Null}, NextSlot(b)
      PROVE  /\ wpc' \in {"process", "lock"} /\ cur' \in Slots
             /\ in_vector' \in [Slots -> Buffer \cup {Null}]
             /\ owner' \in [Slots -> Producers \cup {Worker, Stopper, Nobody}]
  BY <1>7 DEF NextSlot
<1>8. CASE WorkerBody
  <2>1. CASE While
    BY <2>1 DEF While
  <2>2. CASE FetchNothing
    BY <2>2, <1>7 DEF FetchNothing
  <2>3. CASE Wait
    BY <2>3 DEF Wait
  <2>4. CASE FetchDisabled
    BY <2>4 DEF FetchDisabled, NoInput
  <2>5. CASE Fetch
    <3>1. /\ Head(cached_buffers[cur]) \in Buffer \cup {Null}
          /\ Tail(cached_buffers[cur]) \in Seq(Buffer)
      BY <2>5 DEF Fetch
    <3> QED BY <2>5, <3>1, <1>7 DEF Fetch
  <2>6. CASE FetchAborts
    BY <2>6 DEF FetchAborts
  <2>7. CASE Process
    <3>1. \A p \in Producers : in_vector[Target[p]] # Null =>
            in_vector[Target[p]][2] \in 1 .. MaxSends
      BY DEF Buffer
    <3> QED BY <2>7, <3>1 DEF Process, NoInput
  <2> QED BY <1>8, <2>1, <2>2, <2>3, <2>4, <2>5, <2>6, <2>7 DEF WorkerBody
<1>9. CASE SpuriousWakeup
  BY <1>9 DEF SpuriousWakeup
<1>10. CASE StopStart \/ StopLock \/ StopSlot \/ StopJoin
  <2>1. CASE StopStart
    BY <2>1 DEF StopStart
  <2>3. CASE StopLock
    BY <2>3 DEF StopLock
  <2>4. CASE StopJoin
    BY <2>4 DEF StopJoin
  <2>2. CASE StopSlot
    <3>1. /\ wpc' \in {wpc, "woken"}
          /\ owner' \in [Slots -> Producers \cup {Worker, Stopper, Nobody}]
          /\ spc' \in {"join", "lock"} /\ scur' \in Slots
      BY <2>2 DEF StopSlot, Notified
    <3> QED BY <2>2, <3>1 DEF StopSlot
  <2> QED BY <1>10, <2>1, <2>2, <2>3, <2>4
<1>11. CASE SetDisable
  BY <1>11 DEF SetDisable
<1> QED
  BY <1>1, <1>2, <1>4, <1>5, <1>6, <1>8, <1>9, <1>10, <1>11 DEF Next
-----------------------------------------------------------------------------
(* The mutex.                                                              *)

\* The labels of a producer's critical section.
InBody == {"body", "room", "full"}

\* A producer moves to label l and takes or releases the mutex accordingly:
\* what the other threads hold does not change.
ProducerMove(p, l) ==
  /\ ppc' = [ppc EXCEPT ![p] = l]
  /\ UNCHANGED <<cur, spc, scur>>
  /\ wpc' = wpc \/ (wpc' = "woken" /\ wpc = "waiting")
  /\ \/ /\ l \in InBody /\ ppc[p] \notin InBody /\ owner[Target[p]] = Nobody
        /\ owner' = [owner EXCEPT ![Target[p]] = p]
     \/ /\ l \notin InBody /\ ppc[p] \in InBody
        /\ owner' = [owner EXCEPT ![Target[p]] = Nobody]
     \/ l \notin InBody /\ ppc[p] \notin InBody /\ owner' = owner

LEMMA ProducerLockStep ==
  ASSUME IInv, NEW p \in Producers, NEW l, ProducerMove(p, l)
  PROVE  LockInv'
<1> USE DEF ProducerMove
<1> DEFINE Threads == Producers \cup {Worker, Stopper}
           Held == wpc \in {"fetch", "resumed", "abort"}
<1>1. Target[p] \in Slots /\ Worker \notin Producers /\ Stopper \notin Producers
      /\ Nobody \notin Threads
  BY DEF Slots, Worker, Stopper, Nobody
<1>2. \A q \in Producers : ppc'[q] = IF q = p THEN l ELSE ppc[q]
  BY DEF IInv, TypeOK
<1>3. Held' <=> Held
  OBVIOUS
<1>4. owner[Target[p]] = p <=> ppc[p] \in InBody
  BY <1>1 DEF IInv, LockInv, InBody
<1>5. \A s \in Slots : s # Target[p] => owner'[s] = owner[s]
  BY <1>1 DEF IInv, TypeOK
<1>6. owner'[Target[p]] = p <=> l \in InBody
  BY <1>1, <1>4 DEF IInv, TypeOK
<1>7. \A t \in Threads : t # p => (owner'[Target[p]] = t <=> owner[Target[p]] = t)
  BY <1>1, <1>4 DEF IInv, TypeOK
<1>8. ASSUME NEW s \in Slots, NEW q \in Producers
      PROVE  owner'[s] = q <=> Target[q] = s /\ ppc'[q] \in InBody
  <2>1. owner[s] = q <=> Target[q] = s /\ ppc[q] \in InBody
    BY <1>8 DEF IInv, LockInv, InBody
  <2>2. CASE s # Target[p]
    BY <2>1, <2>2, <1>2, <1>5
  <2>3. CASE s = Target[p] /\ q = p
    BY <2>3, <1>2, <1>6
  <2>4. CASE s = Target[p] /\ q # p
    BY <2>1, <2>4, <1>2, <1>7
  <2> QED BY <2>2, <2>3, <2>4
<1>9. ASSUME NEW s \in Slots, NEW t \in {Worker, Stopper}
      PROVE  owner'[s] = t <=> owner[s] = t
  BY <1>1, <1>5, <1>7
<1>10. \A s \in Slots : /\ owner[s] = Worker <=> cur = s /\ Held
                        /\ owner[s] = Stopper <=> scur = s /\ spc = "body"
  BY DEF IInv, LockInv
<1> HIDE DEF Held
<1>11. \A s \in Slots : /\ owner'[s] = Worker <=> cur' = s /\ Held'
                        /\ owner'[s] = Stopper <=> scur' = s /\ spc' = "body"
  BY <1>3, <1>9, <1>10
<1> QED BY <1>8, <1>11 DEF LockInv, InBody, Held

\* Every action keeps the mutex with the thread in the critical section.
LEMMA LockStep == ASSUME IInv, Next PROVE LockInv'
<1> USE DEF queueVars, producerVars, workerVars, stopperVars, history, Goto,
            Release, Acquire
<1> TypeOK /\ LockInv
  BY DEF IInv
<1>2. ASSUME NEW p \in Producers, SendInput(p) PROVE LockInv'
  <2>1. CASE enable
    <3>1. ProducerMove(p, "lock")
      BY <1>2, <2>1 DEF SendInput, ProducerMove, InBody
    <3> QED BY <3>1, ProducerLockStep
  <2>2. CASE ~enable
    <3>1. ProducerMove(p, "idle")
      BY <1>2, <2>2 DEF SendInput, ProducerMove, InBody
    <3> QED BY <3>1, ProducerLockStep
  <2> QED BY <2>1, <2>2
<1>3. ASSUME NEW p \in Producers, ProducerLock(p) PROVE LockInv'
  <2>1. ProducerMove(p, AfterLock(ppc[p]))
    BY <1>3 DEF ProducerLock, AtLock, AfterLock, ProducerMove, InBody
  <2> QED BY <2>1, ProducerLockStep
<1>13. ASSUME NEW p \in Producers, ProducerBody(p) PROVE LockInv'
  <2>1. CASE Push(p) \/ PushDropFront(p) \/ PushAfterRoom(p)
    <3>1. ppc[p] \in InBody /\ \E q : PushBack(p, q)
      BY <2>1 DEF Push, PushDropFront, PushAfterRoom, InBody
    <3>2. ProducerMove(p, "idle")
      BY <3>1 DEF PushBack, Notified, ProducerMove, InBody
    <3> QED BY <3>2, ProducerLockStep
  <2>2. CASE DropCurrent(p) \/ GiveUp(p)
    <3>1. ProducerMove(p, "idle")
      BY <2>2 DEF DropCurrent, GiveUp, Drop, ProducerMove, InBody
    <3> QED BY <3>1, ProducerLockStep
  <2>3. CASE Block(p) \/ BlockAgain(p)
    <3>1. ProducerMove(p, "peek")
      BY <2>3 DEF Block, BlockAgain, SleepAndUnlock, ProducerMove, InBody
    <3> QED BY <3>1, ProducerLockStep
  <2>4. CASE Peek(p)
    <3>1. PICK room \in BOOLEAN :
            Goto(p, IF room THEN "relock_room" ELSE "relock_full")
      BY <2>4 DEF Peek
    <3>2. CASE room
      <4>1. ProducerMove(p, "relock_room")
        BY <2>4, <3>1, <3>2 DEF Peek, ProducerMove, InBody
      <4> QED BY <4>1, ProducerLockStep
    <3>3. CASE ~room
      <4>1. ProducerMove(p, "relock_full")
        BY <2>4, <3>1, <3>3 DEF Peek, ProducerMove, InBody
      <4> QED BY <4>1, ProducerLockStep
    <3> QED BY <3>2, <3>3
  <2> QED BY <1>13, <2>1, <2>2, <2>3, <2>4 DEF ProducerBody
<1>4. ASSUME NEW p \in Producers, Detach(p) PROVE LockInv'
  BY <1>4 DEF Detach, LockInv
<1>5. CASE WorkerLock
  BY <1>5 DEF WorkerLock, Acquire, LockInv, TypeOK, Worker, Stopper, Nobody
<1>6. CASE While \/ FetchAborts \/ Process
  BY <1>6 DEF While, FetchAborts, Process, LockInv, PastWait, TypeOK
<1>7. ASSUME Release(cur), cur' \in Slots, UNCHANGED <<ppc, spc, scur>>,
             wpc \in {"fetch", "resumed"},
             wpc' \in {"process", "lock", "waiting"}
      PROVE  LockInv'
  <2>1. owner[cur] = Worker
    BY <1>7 DEF LockInv, TypeOK
  <2>2. \A s \in Slots : owner'[s] = IF s = cur THEN Nobody ELSE owner[s]
    BY <1>7 DEF Release, TypeOK
  <2>3. \A s \in Slots : s # cur => owner[s] # Worker
    BY DEF LockInv
  <2> QED BY <1>7, <2>1, <2>2, <2>3 DEF LockInv, TypeOK, Worker, Stopper, Nobody
<1>8. CASE FetchNothing \/ Wait \/ FetchDisabled \/ Fetch
  <2>1. /\ Release(cur) /\ cur' \in {cur, cur + 1} /\ UNCHANGED <<ppc, spc, scur>>
        /\ wpc \in {"fetch", "resumed"} /\ wpc' \in {"process", "lock", "waiting"}
    BY <1>8 DEF FetchNothing, Wait, FetchDisabled, Fetch, NextSlot, PastWait
  <2>2. TypeOK'
    BY TypeStep
  <2> QED BY <1>7, <2>1, <2>2 DEF TypeOK
<1>9. CASE SpuriousWakeup
  BY <1>9 DEF SpuriousWakeup, LockInv
<1>10. CASE StopStart \/ StopJoin \/ SetDisable
  BY <1>10 DEF StopStart, StopJoin, SetDisable, LockInv
<1>11. CASE StopLock
  BY <1>11 DEF StopLock, Acquire, LockInv, TypeOK, Worker, Stopper, Nobody
<1>12. CASE StopSlot
  <2>1. owner[scur] = Stopper
    BY <1>12 DEF StopSlot, LockInv, TypeOK
  <2>2. \A s \in Slots : owner'[s] = IF s = scur THEN Nobody ELSE owner[s]
    BY <1>12 DEF StopSlot, Release, TypeOK
  <2>3. wpc' \in {"fetch", "resumed", "abort"} <=> wpc \in {"fetch", "resumed", "abort"}
    BY <1>12 DEF StopSlot, Notified
  <2> QED BY <1>12, <2>1, <2>2, <2>3 DEF StopSlot, LockInv, TypeOK, Worker, Stopper, Nobody
<1> QED
  BY <1>2, <1>3, <1>13, <1>4, <1>5, <1>6, <1>8, <1>9, <1>10, <1>11, <1>12
     DEF Next, WorkerBody

-----------------------------------------------------------------------------
(* The other conjuncts of the invariant.                                   *)

\* What a step of SendInput's body does to the queue and to the coroutine.
LEMMA BodyEffect ==
  ASSUME IInv, NEW p \in Producers, ProducerBody(p)
  PROVE  /\ UNCHANGED <<enable, quit, attached, sent, cur, in_vector, spc, scur,
                        delivered>>
         /\ \/ /\ UNCHANGED <<cached_buffers, accepted, wpc>>
               /\ ppc[p] # "idle"
            \/ \E q \in {cached_buffers[Target[p]], Tail(cached_buffers[Target[p]])} :
                 /\ ppc[p] \in {"body", "room"}
                 /\ PushBack(p, q)
<1> USE DEF queueVars, producerVars, workerVars, stopperVars, history
<1>1. CASE Push(p) \/ PushDropFront(p) \/ PushAfterRoom(p)
  BY <1>1 DEF Push, PushDropFront, PushAfterRoom, PushBack
<1>2. CASE DropCurrent(p) \/ GiveUp(p) \/ Block(p) \/ BlockAgain(p)
  BY <1>2 DEF DropCurrent, GiveUp, Block, BlockAgain, Drop, SleepAndUnlock
<1>3. CASE Peek(p)
  BY <1>3 DEF Peek
<1> QED BY <1>1, <1>2, <1>3 DEF ProducerBody

\* Only BLOCKING reaches the labels of ASyncFullBlockingBehavior.
LEMMA ModeStep == ASSUME IInv, Next PROVE ModeInv'
<1> USE DEF queueVars, producerVars, workerVars, stopperVars, history
<1> SUFFICES ASSUME NEW q \in Producers, Mode[Target[q]] # "BLOCKING"
             PROVE  ppc'[q] \in {"idle", "lock", "body"}
  BY DEF ModeInv
<1>1. TypeOK /\ ppc[q] \in {"idle", "lock", "body"}
  BY DEF IInv, ModeInv
<1>2. ASSUME UNCHANGED ppc PROVE ppc'[q] \in {"idle", "lock", "body"}
  BY <1>1, <1>2
<1>3. ASSUME NEW p \in Producers, NEW l, ppc' = [ppc EXCEPT ![p] = l],
             p = q => l \in {"idle", "lock", "body"}
      PROVE  ppc'[q] \in {"idle", "lock", "body"}
  BY <1>1, <1>3 DEF TypeOK
<1>4. ASSUME NEW p \in Producers, SendInput(p)
      PROVE  ppc'[q] \in {"idle", "lock", "body"}
  BY <1>1, <1>4 DEF SendInput, Goto, TypeOK
<1>5. ASSUME NEW p \in Producers, ProducerLock(p)
      PROVE  ppc'[q] \in {"idle", "lock", "body"}
  BY <1>1, <1>5 DEF ProducerLock, Goto, AtLock, AfterLock, TypeOK
<1>6. ASSUME NEW p \in Producers, ProducerBody(p)
      PROVE  ppc'[q] \in {"idle", "lock", "body"}
  <2>1. CASE Push(p) \/ PushDropFront(p) \/ PushAfterRoom(p)
    <3>1. ppc' = [ppc EXCEPT ![p] = "idle"]
      BY <2>1 DEF Push, PushDropFront, PushAfterRoom, PushBack, Goto
    <3> QED BY <1>3, <3>1
  <2>2. CASE DropCurrent(p) \/ GiveUp(p)
    <3>1. ppc' = [ppc EXCEPT ![p] = "idle"]
      BY <2>2 DEF DropCurrent, GiveUp, Drop, Goto
    <3> QED BY <1>3, <3>1
  <2>3. CASE Block(p) \/ Peek(p) \/ BlockAgain(p)
    <3>1. p # q
      BY <1>1, <2>3 DEF Block, Peek, BlockAgain
    <3>2. \E l : ppc' = [ppc EXCEPT ![p] = l]
      BY <2>3 DEF Block, Peek, BlockAgain, SleepAndUnlock, Goto
    <3> QED BY <1>3, <3>1, <3>2
  <2> QED BY <1>6, <2>1, <2>2, <2>3 DEF ProducerBody
<1>7. ASSUME NEW p \in Producers, Detach(p)
      PROVE  ppc'[q] \in {"idle", "lock", "body"}
  BY <1>1, <1>7 DEF Detach
<1>8. CASE WorkerLock \/ WorkerBody \/ SpuriousWakeup \/ SetDisable
  BY <1>1, <1>8 DEF WorkerLock, WorkerBody, SpuriousWakeup, SetDisable, While,
     FetchNothing, Wait, FetchDisabled, Fetch, FetchAborts, Process
<1>9. CASE StopStart \/ StopLock \/ StopSlot \/ StopJoin
  BY <1>1, <1>9 DEF StopStart, StopLock, StopSlot, StopJoin
<1> QED BY <1>4, <1>5, <1>6, <1>7, <1>8, <1>9 DEF Next

\* A coroutine that was notified stays entitled to a buffer: nobody else takes
\* one, and a producer that evicts the head adds one in the same step.
LEMMA WakeStep == ASSUME IInv, Next PROVE WakeInv'
<1> USE DEF queueVars, producerVars, workerVars, stopperVars, history
<1> SUFFICES ASSUME ~Spurious PROVE WakeInv'
  BY DEF WakeInv
<1> DEFINE Ready == wpc \in {"woken", "resumed"} =>
                      (cached_buffers[cur] # << >> \/ ~enable)
<1>1. TypeOK /\ Ready /\ wpc # "abort"
  BY DEF IInv, WakeInv
<1>2. ASSUME UNCHANGED <<wpc, cur>>,
             UNCHANGED cached_buffers, enable' => enable
      PROVE  WakeInv'
  BY <1>1, <1>2 DEF WakeInv
<1>3. ASSUME NEW p \in Producers, ProducerBody(p) PROVE WakeInv'
  <2>1. CASE UNCHANGED <<cached_buffers, wpc>>
    BY <1>2, <1>3, <2>1, BodyEffect
  <2>2. ASSUME NEW q \in Seq(Buffer), PushBack(p, q) PROVE WakeInv'
    <3>1. cached_buffers'[Target[p]] # << >>
      <4>1. cached_buffers'[Target[p]] = Append(q, <<p, sent[p]>>)
        BY <1>1, <2>2 DEF PushBack, TypeOK
      <4>2. Append(q, <<p, sent[p]>>)[Len(q) + 1] = <<p, sent[p]>>
            /\ Len(Append(q, <<p, sent[p]>>)) = Len(q) + 1
        BY <2>2
      <4>3. Len(q) + 1 # 0 /\ Len(<< >>) = 0
        BY <2>2
      <4> QED BY <4>1, <4>2, <4>3
    <3>2. \A s \in Slots : s # Target[p] => cached_buffers'[s] = cached_buffers[s]
      BY <1>1, <2>2 DEF PushBack, TypeOK
    <3> QED BY <1>1, <2>2, <3>1, <3>2 DEF PushBack, Notified, WakeInv, TypeOK
  <2>3. ASSUME ppc[p] = "body", Full(Target[p])
        PROVE  Tail(cached_buffers[Target[p]]) \in Seq(Buffer)
    BY <1>1, <2>3 DEF Full, TypeOK
  <2>4. cached_buffers[Target[p]] \in Seq(Buffer)
    BY <1>1 DEF TypeOK
  <2>5. CASE Push(p) \/ PushAfterRoom(p)
    BY <2>2, <2>4, <2>5 DEF Push, PushAfterRoom
  <2>6. CASE PushDropFront(p)
    BY <2>2, <2>3, <2>6 DEF PushDropFront
  <2>7. CASE DropCurrent(p) \/ GiveUp(p) \/ Block(p) \/ BlockAgain(p) \/ Peek(p)
    BY <2>1, <2>7 DEF DropCurrent, GiveUp, Block, BlockAgain, Drop,
       SleepAndUnlock, Peek
  <2> QED BY <1>3, <2>5, <2>6, <2>7 DEF ProducerBody
<1>4. ASSUME NEW p \in Producers, SendInput(p) \/ ProducerLock(p) \/ Detach(p)
      PROVE  WakeInv'
  BY <1>2, <1>4 DEF SendInput, ProducerLock, Detach
<1>5. CASE WorkerLock
  BY <1>1, <1>5 DEF WorkerLock, WakeInv
<1>6. CASE WorkerBody
  BY <1>1, <1>6 DEF WorkerBody, While, FetchNothing, Wait, FetchDisabled, Fetch,
     FetchAborts, Process, NextSlot, PastWait, WakeInv
<1>7. CASE SpuriousWakeup
  BY <1>7 DEF SpuriousWakeup
<1>8. CASE StopStart \/ StopLock \/ StopJoin \/ SetDisable
  BY <1>2, <1>8 DEF StopStart, StopLock, StopJoin, SetDisable
<1>9. CASE StopSlot
  BY <1>1, <1>9 DEF StopSlot, Notified, WakeInv
<1> QED BY <1>3, <1>4, <1>5, <1>6, <1>7, <1>8, <1>9 DEF Next

\* Sets of producers of one slot.
LEMMA PassedCard ==
  ASSUME NEW s \in Slots, NEW S \in SUBSET ProducersOf(s)
  PROVE  /\ IsFiniteSet(S) /\ Cardinality(S) \in Nat
         /\ Cardinality(ProducersOf(s)) \in Nat
         /\ Cardinality(S) <= Cardinality(ProducersOf(s))
         /\ \A p \in ProducersOf(s) \ S :
              Cardinality(S) <= Cardinality(ProducersOf(s)) - 1
         /\ \A p \in S : Cardinality(S \ {p}) = Cardinality(S) - 1
         /\ \A T \in SUBSET S : Cardinality(T) \in Nat /\ Cardinality(T) <= Cardinality(S)
<1>1. IsFiniteSet(ProducersOf(s))
  BY FS_Subset DEF ProducersOf
<1>2. IsFiniteSet(S) /\ Cardinality(S) \in Nat
      /\ Cardinality(ProducersOf(s)) \in Nat
  BY <1>1, FS_Subset, FS_CardinalityType
<1>3. \A T \in SUBSET S : Cardinality(T) \in Nat /\ Cardinality(T) <= Cardinality(S)
  BY <1>2, FS_Subset, FS_CardinalityType
<1>4. Cardinality(S) <= Cardinality(ProducersOf(s))
  BY <1>1, FS_Subset
<1>5. ASSUME NEW p \in ProducersOf(s) \ S
      PROVE  Cardinality(S) <= Cardinality(ProducersOf(s)) - 1
  <2>1. S # ProducersOf(s)
    BY <1>5
  <2>2. Cardinality(S) # Cardinality(ProducersOf(s))
    BY <1>1, <2>1, FS_Subset
  <2> QED BY <1>2, <1>4, <2>2
<1>6. \A p \in S : Cardinality(S \ {p}) = Cardinality(S) - 1
  BY <1>2, FS_RemoveElement
<1> QED BY <1>2, <1>3, <1>4, <1>5, <1>6

\* The queue and the producers that are about to add to it stay within the
\* limit: a producer passes the test only when there is room, and what it adds
\* it no longer stands for.
LEMMA BoundStep == ASSUME IInv, Next PROVE BoundInv'
<1> USE DEF queueVars, producerVars, workerVars, stopperVars, history
<1> SUFFICES ASSUME ~TornSizeRead, NEW s \in Slots, MaxCacheNum[s] > 0
             PROVE  Len(cached_buffers'[s]) + Cardinality(Passed(s)')
                      <= QueueLimit(s)
  <2>1. \A t \in Slots : QueueLimit(t)' = QueueLimit(t)
    BY DEF QueueLimit, ProducersOf
  <2> QED BY <2>1 DEF BoundInv
<1> DEFINE q == cached_buffers[s]
           P == Passed(s)
           Goal == Len(q') + Cardinality(P') <= QueueLimit(s)
           Waits == {"relock_room", "room"}
<1>1. /\ TypeOK /\ TypeOK' /\ ModeInv /\ ModeInv'
      /\ Len(q) + Cardinality(P) <= QueueLimit(s)
  BY TypeStep, ModeStep DEF IInv, BoundInv
<1>2. /\ q \in Seq(Buffer) /\ Len(q) \in Nat /\ q' \in Seq(Buffer) /\ Len(q') \in Nat
      /\ MaxCacheNum[s] \in Nat
  <2>1. q \in Seq(Buffer) /\ q' \in Seq(Buffer)
    BY <1>1 DEF TypeOK
  <2> HIDE DEF q
  <2> QED BY <2>1
<1>3. P \in SUBSET ProducersOf(s) /\ P' \in SUBSET ProducersOf(s)
  BY DEF Passed, ProducersOf
<1>4. /\ Cardinality(P) \in Nat /\ Cardinality(P') \in Nat
      /\ Cardinality(P') <= Cardinality(ProducersOf(s))
      /\ Cardinality(ProducersOf(s)) \in Nat
      /\ \A p \in ProducersOf(s) \ P' :
           Cardinality(P') <= Cardinality(ProducersOf(s)) - 1
      /\ \A p \in P : Cardinality(P \ {p}) = Cardinality(P) - 1
      /\ \A T \in SUBSET P : Cardinality(T) <= Cardinality(P)
  BY <1>3, PassedCard
<1>5. Mode[s] # "BLOCKING" => Cardinality(P') = 0
  <2>1. Mode[s] # "BLOCKING" => P' = {}
    BY <1>1 DEF ModeInv, Passed, ProducersOf
  <2> QED BY <2>1, FS_EmptySet
<1>6. QueueLimit(s) = IF Mode[s] = "BLOCKING"
                      THEN MaxCacheNum[s] + Cardinality(ProducersOf(s)) - 1
                      ELSE MaxCacheNum[s]
  BY DEF QueueLimit
<1> HIDE DEF q, P
<1>7. ASSUME Len(q') <= Len(q), P' \subseteq P PROVE Goal
  BY <1>1, <1>2, <1>4, <1>6, <1>7
<1>8. ASSUME NEW p \in Producers, NEW l, ppc' = [ppc EXCEPT ![p] = l],
             l \in Waits => ppc[p] \in Waits
      PROVE  P' \subseteq P
  BY <1>1, <1>8 DEF P, Passed, ProducersOf, TypeOK
<1>9. ASSUME UNCHANGED <<cached_buffers, ppc>> PROVE Goal
  BY <1>7, <1>9, <1>2 DEF q, P, Passed, ProducersOf
<1>10. ASSUME NEW p \in Producers, SendInput(p) PROVE Goal
  <2>1. \A r \in Producers : ppc'[r] \in Waits => ppc[r] \in Waits
    BY <1>1, <1>10 DEF SendInput, Goto, TypeOK
  <2>2. P' \subseteq P
    BY <2>1 DEF P, Passed, ProducersOf
  <2>3. q' = q
    BY <1>10 DEF SendInput, q
  <2> QED BY <1>2, <1>7, <2>2, <2>3
<1>11. ASSUME NEW p \in Producers, ProducerLock(p) PROVE Goal
  <2>1. \A r \in Producers : ppc'[r] \in Waits => ppc[r] \in Waits
    BY <1>1, <1>11 DEF ProducerLock, Goto, AtLock, AfterLock, TypeOK
  <2>2. P' \subseteq P
    BY <2>1 DEF P, Passed, ProducersOf
  <2>3. q' = q
    BY <1>11 DEF ProducerLock, q
  <2> QED BY <1>2, <1>7, <2>2, <2>3
<1>12. ASSUME NEW p \in Producers, ~(Target[p] = s), ProducerBody(p) PROVE Goal
  <2>1. q' = q
    <3>1. CASE UNCHANGED cached_buffers
      BY <3>1 DEF q
    <3>2. ASSUME NEW r, PushBack(p, r) PROVE q' = q
      BY <1>1, <1>12, <3>2 DEF q, PushBack, TypeOK
    <3> QED BY <1>12, <3>1, <3>2, BodyEffect
  <2>2. \A r \in Producers \ {p} : ppc'[r] = ppc[r]
    BY <1>1, <1>12 DEF ProducerBody, Push, PushDropFront, DropCurrent, Block, Peek,
       PushAfterRoom, BlockAgain, GiveUp, PushBack, Drop, SleepAndUnlock, Goto, TypeOK
  <2>3. P' \subseteq P
    BY <1>12, <2>2 DEF P, Passed, ProducersOf
  <2> QED BY <1>2, <1>7, <2>1, <2>3
<1>13. ASSUME NEW p \in Producers, Target[p] = s, ProducerBody(p) PROVE Goal
  <2>1. p \in ProducersOf(s)
    BY <1>13 DEF ProducersOf
  <2>2. ASSUME NEW r \in Seq(Buffer), PushBack(p, r)
        PROVE  /\ Len(q') = Len(r) + 1
               /\ P' = P \ {p}
               /\ p \notin P'
    <3>1. q' = Append(r, <<p, sent[p]>>)
      BY <1>1, <1>13, <2>2 DEF PushBack, q, TypeOK
    <3>2. ppc'[p] = "idle" /\ \A t \in Producers \ {p} : ppc'[t] = ppc[t]
      BY <1>1, <2>2 DEF PushBack, Goto, TypeOK
    <3> QED BY <2>2, <3>1, <3>2 DEF P, Passed, ProducersOf
  <2>3. CASE Push(p)
    <3>1. PushBack(p, q) /\ Len(q) < MaxCacheNum[s]
      BY <1>2, <1>13, <2>3 DEF Push, Full, q
    <3>2. Len(q') = Len(q) + 1 /\ p \in ProducersOf(s) \ P'
      BY <1>2, <2>1, <2>2, <3>1
    <3> QED BY <1>2, <1>4, <1>5, <1>6, <3>1, <3>2
  <2>4. CASE PushDropFront(p)
    <3>1. Tail(q) \in Seq(Buffer) /\ Len(Tail(q)) = Len(q) - 1
      BY <1>2, <1>13, <2>4 DEF PushDropFront, Full, q
    <3>2. PushBack(p, Tail(q))
      BY <1>13, <2>4 DEF PushDropFront, q
    <3>3. Len(q') = Len(Tail(q)) + 1 /\ P' \subseteq P
      BY <2>2, <3>1, <3>2
    <3>4. Len(q') <= Len(q)
      BY <1>2, <3>1, <3>3
    <3> QED BY <1>2, <1>7, <3>3, <3>4
  <2>5. CASE PushAfterRoom(p)
    <3>1. PushBack(p, q) /\ p \in P
      BY <1>13, <2>1, <2>5 DEF PushAfterRoom, P, Passed, q
    <3>2. Len(q') = Len(q) + 1
      BY <1>2, <2>2, <3>1
    <3>3. Cardinality(P') = Cardinality(P) - 1
      BY <1>2, <1>4, <2>2, <3>1
    <3>4. Cardinality(P) \in Nat /\ Len(q) \in Nat
      BY <1>2, <1>4
    <3>5. Len(q') + Cardinality(P') = Len(q) + Cardinality(P)
      BY <3>2, <3>3, <3>4
    <3> QED BY <1>1, <3>5
  <2>6. CASE DropCurrent(p) \/ GiveUp(p)
    <3>1. UNCHANGED cached_buffers /\ ppc' = [ppc EXCEPT ![p] = "idle"]
      BY <2>6 DEF DropCurrent, GiveUp, Drop, Goto
    <3>2. P' \subseteq P /\ q' = q
      BY <1>8, <3>1 DEF q
    <3> QED BY <1>2, <1>7, <3>2
  <2>7. CASE Block(p) \/ BlockAgain(p)
    <3>1. UNCHANGED cached_buffers /\ ppc' = [ppc EXCEPT ![p] = "peek"]
      BY <2>7 DEF Block, BlockAgain, SleepAndUnlock, Goto
    <3>2. P' \subseteq P /\ q' = q
      BY <1>8, <3>1 DEF q
    <3> QED BY <1>2, <1>7, <3>2
  <2>8. CASE Peek(p)
    <3>1. UNCHANGED cached_buffers
      BY <2>8 DEF Peek
    <3>2. PICK room \in BOOLEAN :
            /\ room = ~Full(s)
            /\ ppc' = [ppc EXCEPT ![p] = IF room THEN "relock_room" ELSE "relock_full"]
      BY <1>13, <2>8 DEF Peek, Goto
    <3>3. CASE ~room
      <4>1. ppc' = [ppc EXCEPT ![p] = "relock_full"]
        BY <3>2, <3>3
      <4>2. P' \subseteq P /\ q' = q
        BY <1>8, <3>1, <4>1 DEF q
      <4> QED BY <1>2, <1>7, <4>2
    <3>4. CASE room
      <4>1. Mode[s] = "BLOCKING"
        BY <1>1, <1>13, <2>8 DEF Peek, ModeInv
      <4>2. Len(q) < MaxCacheNum[s]
        BY <1>2, <3>2, <3>4 DEF Full, q
      <4>3. Len(q') = Len(q)
        BY <3>1 DEF q
      <4> QED BY <1>2, <1>4, <1>6, <4>1, <4>2, <4>3
    <3> QED BY <3>3, <3>4
  <2> QED BY <1>13, <2>3, <2>4, <2>5, <2>6, <2>7, <2>8 DEF ProducerBody
<1>14. ASSUME NEW p \in Producers, Detach(p) PROVE Goal
  BY <1>9, <1>14 DEF Detach
<1>15. CASE WorkerLock \/ WorkerBody \/ SpuriousWakeup
  <2>1. CASE Fetch
    <3>1. Len(q') <= Len(q)
      BY <1>1, <1>2, <2>1 DEF Fetch, q, TypeOK
    <3>2. P' = P
      BY <2>1 DEF Fetch, P, Passed
    <3> QED BY <1>7, <3>1, <3>2 DEF q, P
  <2> QED BY <1>9, <1>15, <2>1 DEF q, P, WorkerLock, WorkerBody, SpuriousWakeup, While,
          FetchNothing, Wait, FetchDisabled, FetchAborts, Process
<1>16. CASE StopStart \/ StopLock \/ StopSlot \/ StopJoin \/ SetDisable
  BY <1>9, <1>16 DEF q, P, StopStart, StopLock, StopSlot, StopJoin, SetDisable
<1> QED BY <1>10, <1>11, <1>12, <1>13, <1>14, <1>15, <1>16 DEF Next, q, P

\* What is being sent is newer than what was accepted; in BLOCKING mode it is
\* the next number, because only a disabled flow makes a producer give up.
LEMMA SendStep == ASSUME IInv, Next PROVE SendInv'
<1> USE DEF queueVars, producerVars, workerVars, stopperVars, history
<1> DEFINE Ok(r) ==
      /\ accepted[r] <= sent[r]
      /\ ppc[r] # "idle" => accepted[r] < sent[r]
      /\ Mode[Target[r]] = "BLOCKING" =>
           /\ ppc[r] # "idle" => sent[r] = accepted[r] + 1
           /\ enable /\ ppc[r] = "idle" => sent[r] = accepted[r]
<1>1. TypeOK /\ TypeOK' /\ \A r \in Producers : Ok(r)
  BY TypeStep DEF IInv, SendInv
<1>2. SUFFICES ASSUME NEW r \in Producers PROVE Ok(r)'
  BY DEF SendInv
<1>3. ASSUME ppc'[r] = ppc[r], accepted'[r] = accepted[r], sent'[r] = sent[r],
             enable' => enable
      PROVE  Ok(r)'
  BY <1>1, <1>3
<1>4. ASSUME NEW p \in Producers, SendInput(p) PROVE Ok(r)'
  <2>1. UNCHANGED <<enable, accepted>>
    BY <1>4 DEF SendInput
  <2>2. CASE p = r
    <3>1. /\ ppc[r] = "idle" /\ sent'[r] = sent[r] + 1
          /\ ppc'[r] = IF enable THEN "lock" ELSE "idle"
      BY <1>1, <1>4, <2>2 DEF SendInput, Goto, TypeOK
    <3>2. sent[r] \in Nat /\ accepted[r] \in Nat
      BY <1>1 DEF TypeOK
    <3>3. CASE enable
      <4>1. sent[r] = accepted[r] \/ (Mode[Target[r]] # "BLOCKING")
        BY <1>1, <3>1, <3>3
      <4> QED BY <1>1, <2>1, <3>1, <3>2, <3>3, <4>1
    <3>4. CASE ~enable
      BY <1>1, <2>1, <3>1, <3>2, <3>4
    <3> QED BY <3>3, <3>4
  <2>3. CASE p # r
    <3>1. ppc'[r] = ppc[r] /\ sent'[r] = sent[r]
      BY <1>1, <1>4, <2>3 DEF SendInput, Goto, TypeOK
    <3> QED BY <1>3, <2>1, <3>1
  <2> QED BY <2>2, <2>3
<1>5. ASSUME NEW p \in Producers, ProducerLock(p) PROVE Ok(r)'
  BY <1>1, <1>5 DEF ProducerLock, Goto, AtLock, AfterLock, TypeOK
<1>6. ASSUME NEW p \in Producers, ProducerBody(p) PROVE Ok(r)'
  <2>1. ASSUME NEW q, PushBack(p, q) PROVE Ok(r)'
    <3>1. CASE p = r
      <4>1. accepted'[r] = sent[r] /\ ppc'[r] = "idle" /\ sent' = sent
        BY <1>1, <2>1, <3>1 DEF PushBack, Goto, TypeOK
      <4> QED BY <1>1, <4>1 DEF TypeOK
    <3>2. CASE p # r
      <4>1. /\ accepted'[r] = accepted[r] /\ ppc'[r] = ppc[r] /\ sent' = sent
            /\ enable' = enable
        BY <1>1, <2>1, <3>2 DEF PushBack, Goto, TypeOK
      <4> QED BY <1>3, <4>1
    <3> QED BY <3>1, <3>2
  <2>2. CASE Push(p) \/ PushDropFront(p) \/ PushAfterRoom(p)
    BY <2>1, <2>2 DEF Push, PushDropFront, PushAfterRoom
  <2>3. CASE DropCurrent(p)
    BY <1>1, <2>3 DEF DropCurrent, Drop, Goto, TypeOK
  <2>4. CASE GiveUp(p)
    BY <1>1, <2>4 DEF GiveUp, Drop, Goto, TypeOK
  <2>5. CASE Block(p) \/ BlockAgain(p)
    BY <1>1, <2>5 DEF Block, BlockAgain, SleepAndUnlock, Goto, TypeOK
  <2>6. CASE Peek(p)
    BY <1>1, <2>6 DEF Peek, Goto, TypeOK
  <2> QED BY <1>6, <2>2, <2>3, <2>4, <2>5, <2>6 DEF ProducerBody
<1>7. ASSUME NEW p \in Producers, Detach(p) PROVE Ok(r)'
  BY <1>3, <1>7 DEF Detach
<1>8. CASE WorkerLock \/ WorkerBody \/ SpuriousWakeup
  BY <1>3, <1>8 DEF WorkerLock, WorkerBody, SpuriousWakeup, While, FetchNothing,
     Wait, FetchDisabled, Fetch, FetchAborts, Process
<1>9. CASE StopStart \/ StopLock \/ StopSlot \/ StopJoin \/ SetDisable
  BY <1>3, <1>9 DEF StopStart, StopLock, StopSlot, StopJoin, SetDisable
<1> QED BY <1>4, <1>5, <1>6, <1>7, <1>8, <1>9 DEF Next

\* References go first, then enable and quit, then the coroutine, then the flow.
LEMMA StopStep == ASSUME IInv, Next PROVE StopInv'
<1> USE DEF queueVars, producerVars, workerVars, stopperVars, history
<1>1. TypeOK /\ StopInv
  BY DEF IInv
<1>2. ASSUME NEW p \in Producers,
             \/ SendInput(p) \/ ProducerLock(p) \/ ProducerBody(p) \/ Detach(p)
      PROVE  StopInv'
  <2>1. /\ UNCHANGED <<quit, spc>> /\ (enable' <=> enable)
        /\ wpc' = wpc \/ (wpc = "waiting" /\ wpc' = "woken")
        /\ attached' = attached \/ (attached' = attached \ {p} /\ ppc[p] = "idle")
        /\ \A r \in Producers : ppc'[r] = ppc[r] \/ (r = p /\ p \in attached')
    <3>1. CASE SendInput(p)
      BY <1>1, <3>1 DEF SendInput, Goto, TypeOK
    <3>2. CASE ProducerLock(p)
      BY <1>1, <3>2 DEF ProducerLock, AtLock, Goto, TypeOK, StopInv
    <3>3. CASE Detach(p)
      BY <1>1, <3>3 DEF Detach
    <3>4. CASE Push(p) \/ PushDropFront(p) \/ PushAfterRoom(p)
      <4>1. ppc[p] # "idle" /\ \E q : PushBack(p, q)
        BY <3>4 DEF Push, PushDropFront, PushAfterRoom
      <4>2. p \in attached
        BY <1>1, <4>1 DEF StopInv
      <4> QED BY <1>1, <4>1, <4>2 DEF PushBack, Notified, Goto, TypeOK
    <3>5. CASE DropCurrent(p) \/ GiveUp(p) \/ Block(p) \/ BlockAgain(p)
      BY <1>1, <3>5 DEF DropCurrent, GiveUp, Block, BlockAgain, Drop,
         SleepAndUnlock, Goto, TypeOK, StopInv
    <3>6. CASE Peek(p)
      BY <1>1, <3>6 DEF Peek, Goto, TypeOK, StopInv
    <3> QED BY <1>2, <3>1, <3>2, <3>3, <3>4, <3>5, <3>6 DEF ProducerBody
  <2>2. CASE attached' = attached
    BY <1>1, <2>1, <2>2 DEF StopInv
  <2>3. CASE Detach(p)
    BY <1>1, <2>3 DEF Detach, StopInv
  <2>4. CASE SendInput(p) \/ ProducerLock(p) \/ ProducerBody(p)
    BY <2>2, <2>4, BodyEffect DEF SendInput, ProducerLock
  <2> QED BY <1>2, <2>3, <2>4
<1>3. CASE WorkerLock \/ SpuriousWakeup \/ SetDisable
  BY <1>1, <1>3 DEF WorkerLock, SpuriousWakeup, SetDisable, StopInv
<1>4. CASE WorkerBody
  BY <1>1, <1>4 DEF WorkerBody, While, FetchNothing, Wait, FetchDisabled, Fetch,
     FetchAborts, Process, NextSlot, PastWait, StopInv
<1>5. CASE StopStart \/ StopLock \/ StopSlot \/ StopJoin
  BY <1>1, <1>5 DEF StopStart, StopLock, StopSlot, StopJoin, Notified, StopInv
<1> QED BY <1>2, <1>3, <1>4, <1>5 DEF Next

-----------------------------------------------------------------------------
(* The theorems.                                                           *)

LEMMA InitInv == ASSUME Init PROVE IInv
<1> USE DEF Init, Slots, Worker, Stopper, Nobody, Null, NoInput
<1>1. TypeOK
  <2>1. 1 \in Slots /\ 0 \in 0 .. MaxSends /\ << >> \in Seq(Buffer)
    OBVIOUS
  <2>2. in_vector \in [Slots -> Buffer \cup {Null}]
    OBVIOUS
  <2> HIDE DEF Slots, Null
  <2> QED BY <2>1, <2>2 DEF TypeOK
<1>2. LockInv /\ ModeInv /\ WakeInv /\ SendInv /\ StopInv
  BY DEF LockInv, ModeInv, WakeInv, SendInv, StopInv
<1>3. ASSUME NEW s \in Slots, MaxCacheNum[s] > 0
      PROVE  Len(cached_buffers[s]) + Cardinality(Passed(s)) <= QueueLimit(s)
  <2>1. Passed(s) = {} /\ Passed(s) \in SUBSET ProducersOf(s)
    BY DEF Passed, ProducersOf
  <2>2. Cardinality({}) = 0 /\ Cardinality(ProducersOf(s)) \in Nat
    BY <2>1, PassedCard, FS_EmptySet
  <2>3. Len(cached_buffers[s]) = 0 /\ MaxCacheNum[s] \in Nat
    OBVIOUS
  <2> QED BY <1>3, <2>1, <2>2, <2>3 DEF QueueLimit
<1> QED BY <1>1, <1>2, <1>3 DEF IInv, BoundInv

\* IInv is inductive.
THEOREM Invariance == Spec => []IInv
<1>1. Init => IInv
  BY InitInv
<1>2. IInv /\ [Next]_vars => IInv'
  BY Stutter, TypeStep, LockStep, ModeStep, WakeStep, BoundStep, SendStep,
     StopStep DEF IInv
<1> QED BY <1>1, <1>2, PTL DEF Spec

\* The variables have their types in every state.
THEOREM TypeCorrect == Spec => []TypeOK
<1>1. IInv => TypeOK
  BY DEF IInv
<1> QED BY <1>1, Invariance, PTL

\* A condition variable without spurious wakeups never trips the assert: for
\* any number of producers and slots and in every mode.
THEOREM FetchAssertHolds == ASSUME ~Spurious PROVE Spec => []FetchAssert
<1>1. IInv => FetchAssert
  BY DEF IInv, WakeInv, FetchAssert
<1> QED BY <1>1, Invariance, PTL

\* Bounded queues stay within max_cache_num, plus the producers less one when
\* they block.
THEOREM QueueBoundHolds == ASSUME ~TornSizeRead PROVE Spec => []QueueBound
<1>1. IInv => QueueBound
  <2> SUFFICES ASSUME IInv, NEW s \in Slots, MaxCacheNum[s] > 0
               PROVE  Len(cached_buffers[s]) <= QueueLimit(s)
    BY DEF QueueBound
  <2>1. Len(cached_buffers[s]) + Cardinality(Passed(s)) <= QueueLimit(s)
    BY DEF IInv, BoundInv
  <2>2. /\ Cardinality(Passed(s)) \in Nat /\ Cardinality(ProducersOf(s)) \in Nat
        /\ MaxCacheNum[s] \in Nat
    BY PassedCard DEF Passed, ProducersOf
  <2>3. Len(cached_buffers[s]) \in Nat
    BY DEF IInv, TypeOK
  <2>4. QueueLimit(s) \in Int
    BY <2>2 DEF QueueLimit
  <2> QED BY <2>1, <2>2, <2>3, <2>4
<1> QED BY <1>1, Invariance, PTL

\* Nobody uses the members of the flow when the destructor goes on to destroy
\* them.
THEOREM SafeToDestroyHolds == Spec => []SafeToDestroy
<1>1. IInv => SafeToDestroy
  <2> SUFFICES ASSUME IInv, spc = "done" PROVE SafeToDestroy
    BY DEF SafeToDestroy
  <2>1. wpc = "exit" /\ \A p \in Producers : ppc[p] = "idle"
    BY DEF IInv, StopInv
  <2>2. ASSUME NEW s \in Slots PROVE owner[s] = Nobody
    <3>1. owner[s] \in Producers \cup {Worker, Stopper, Nobody}
      BY DEF IInv, TypeOK
    <3>2. owner[s] # Worker /\ owner[s] # Stopper /\ owner[s] \notin Producers
      BY <2>1 DEF IInv, LockInv
    <3> QED BY <3>1, <3>2
  <2> QED BY <2>1, <2>2 DEF SafeToDestroy
<1> QED BY <1>1, Invariance, PTL

-----------------------------------------------------------------------------
(* Refinement of Channel.                                                  *)

\* push_back is Put, on a queue that still has room.
LEMMA PushIsPut ==
  ASSUME IInv, ~TornSizeRead, NEW p \in Producers,
         PushBack(p, cached_buffers[Target[p]]), ppc[p] \in {"body", "room"},
         ppc[p] = "body" => ~Full(Target[p])
  PROVE  sent[p] \in 1 .. MaxSends /\ Abstract!Put(p, sent[p])
<1> DEFINE s == Target[p]
           P == Passed(s)
<1>1. TypeOK /\ SendInv /\ s \in Slots /\ p \in ProducersOf(s)
  BY DEF IInv, ProducersOf
<1>2. sent[p] \in 1 .. MaxSends /\ accepted[p] \in Nat
  <2>1. sent[p] \in 0 .. MaxSends /\ accepted[p] \in 0 .. MaxSends
    BY <1>1 DEF TypeOK
  <2>2. accepted[p] < sent[p]
    BY <1>1 DEF SendInv
  <2> QED BY <2>1, <2>2
<1>3. Abstract!Acceptable(p, sent[p])
  BY <1>1, <1>2 DEF Abstract!Acceptable, SendInv
<1>4. ASSUME MaxCacheNum[s] > 0 PROVE Len(cached_buffers[s]) < QueueLimit(s)
  <2>1. /\ Cardinality(P) \in Nat /\ Cardinality(ProducersOf(s)) \in Nat
        /\ p \notin P => Cardinality(P) <= Cardinality(ProducersOf(s)) - 1
        /\ p \in P => Cardinality(P) >= 1
        /\ Cardinality(ProducersOf(s)) >= 1
    <3>1. P \in SUBSET ProducersOf(s)
      BY DEF Passed
    <3>2. p \in P => Cardinality(P \ {p}) = Cardinality(P) - 1
                     /\ Cardinality(P \ {p}) \in Nat
      BY <1>1, <3>1, PassedCard
    <3>3. /\ Cardinality(P) \in Nat /\ Cardinality(ProducersOf(s)) \in Nat
          /\ Cardinality(P) <= Cardinality(ProducersOf(s))
          /\ p \notin P => Cardinality(P) <= Cardinality(ProducersOf(s)) - 1
      BY <1>1, <3>1, PassedCard
    <3> HIDE DEF P
    <3> QED BY <3>2, <3>3
  <2>2. MaxCacheNum[s] \in Nat /\ Len(cached_buffers[s]) \in Nat
    BY <1>1 DEF TypeOK
  <2>3. Len(cached_buffers[s]) + Cardinality(P) <= QueueLimit(s)
    BY <1>1, <1>4 DEF IInv, BoundInv
  <2>4. ppc[p] = "room" => p \in P
    BY <1>1 DEF Passed
  <2>5. ppc[p] = "body" => Len(cached_buffers[s]) < MaxCacheNum[s]
    BY <1>4, <2>2 DEF Full
  <2>6. QueueLimit(s) \in Int /\ MaxCacheNum[s] <= QueueLimit(s)
    BY <2>1, <2>2 DEF QueueLimit
  <2> HIDE DEF P, s
  <2> QED BY <2>1, <2>2, <2>3, <2>4, <2>5, <2>6
<1> QED BY <1>1, <1>2, <1>3, <1>4 DEF Abstract!Put, PushBack

\* Every step is a step of Channel or changes nothing it knows of.
LEMMA Simulation ==
  ASSUME IInv, ~TornSizeRead, Next
  PROVE  Abstract!Next \/ UNCHANGED Abstract!vars
<1> USE DEF queueVars, producerVars, workerVars, stopperVars, history, Abstract!vars
<1>1. TypeOK
  BY DEF IInv
<1>2. ASSUME NEW p \in Producers, ProducerBody(p)
      PROVE  Abstract!Next \/ UNCHANGED Abstract!vars
  <2>1. CASE Push(p) \/ PushAfterRoom(p)
    <3>1. sent[p] \in 1 .. MaxSends /\ Abstract!Put(p, sent[p])
      BY <2>1, PushIsPut DEF Push, PushAfterRoom
    <3> QED BY <3>1 DEF Abstract!Next
  <2>2. CASE PushDropFront(p)
    <3> DEFINE s == Target[p]
    <3>1. /\ sent[p] \in 1 .. MaxSends /\ Abstract!Acceptable(p, sent[p])
      BY <1>1, <2>2 DEF PushDropFront, IInv, SendInv, TypeOK, Abstract!Acceptable
    <3>2. Len(cached_buffers[s]) = QueueLimit(s)
      <4>1. /\ Len(cached_buffers[s]) \in Nat /\ MaxCacheNum[s] > 0
            /\ MaxCacheNum[s] \in Nat
            /\ MaxCacheNum[s] <= Len(cached_buffers[s])
        BY <1>1, <2>2 DEF PushDropFront, Full, TypeOK
      <4>2. Cardinality(Passed(s)) \in Nat
        BY PassedCard DEF Passed
      <4>3. Len(cached_buffers[s]) + Cardinality(Passed(s)) <= QueueLimit(s)
        BY <4>1 DEF IInv, BoundInv
      <4>4. QueueLimit(s) = MaxCacheNum[s]
        BY <2>2 DEF PushDropFront, QueueLimit
      <4> HIDE DEF s
      <4> QED BY <4>1, <4>2, <4>3, <4>4
    <3>3. Abstract!Evict(p, sent[p])
      BY <2>2, <3>1, <3>2 DEF PushDropFront, PushBack, Full, Abstract!Evict
    <3> QED BY <3>1, <3>3 DEF Abstract!Next
  <2>3. CASE DropCurrent(p) \/ GiveUp(p) \/ Block(p) \/ BlockAgain(p) \/ Peek(p)
    BY <2>3 DEF DropCurrent, GiveUp, Block, BlockAgain, Drop, SleepAndUnlock, Peek
  <2> QED BY <1>2, <2>1, <2>2, <2>3 DEF ProducerBody
<1>3. CASE Fetch
  <2>1. Abstract!Get(cur) /\ cur \in Slots
    BY <1>1, <1>3 DEF Fetch, TypeOK, Abstract!Get
  <2> QED BY <2>1 DEF Abstract!Next
<1>4. CASE SetDisable \/ StopSlot
  BY <1>4 DEF SetDisable, StopSlot, Abstract!Close, Abstract!Next
<1>5. ASSUME NEW p \in Producers, SendInput(p) \/ ProducerLock(p) \/ Detach(p)
      PROVE  UNCHANGED Abstract!vars
  BY <1>5 DEF SendInput, ProducerLock, Detach
<1>6. CASE WorkerLock \/ While \/ FetchNothing \/ Wait \/ FetchDisabled
           \/ FetchAborts \/ Process \/ SpuriousWakeup
  BY <1>6 DEF WorkerLock, While, FetchNothing, Wait, FetchDisabled, FetchAborts,
     Process, SpuriousWakeup
<1>7. CASE StopStart \/ StopLock \/ StopJoin
  BY <1>7 DEF StopStart, StopLock, StopJoin
<1> QED BY <1>2, <1>3, <1>4, <1>5, <1>6, <1>7 DEF Next, WorkerBody

\* The inputs of a flow implement the bounded FIFOs of Channel: in order,
\* without a gap when BLOCKING, evicting heads of full queues only, silent once
\* disabled.
THEOREM Refinement == ASSUME ~TornSizeRead PROVE Spec => Implements
<1>1. Init => Abstract!Init
  BY DEF Init, Abstract!Init
<1>2. IInv /\ [Next]_vars => [Abstract!Next]_(Abstract!vars)
  <2>1. UNCHANGED vars => UNCHANGED Abstract!vars
    BY DEF vars, queueVars, history, Abstract!vars
  <2> QED BY <2>1, Simulation
<1> QED BY <1>1, <1>2, Invariance, PTL DEF Spec, Implements, Abstract!Spec
=============================================================================
