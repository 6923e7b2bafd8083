--------------------------- MODULE FlowOrderProofs ---------------------------
(***************************************************************************)
(* More of what holds of FlowInput for every number of producers, slots    *)
(* and sends: what becomes of the buffers. FlowInputProofs shows where the *)
(* threads can be; on top of its invariant IInv, the invariant here says   *)
(* which numbers of a producer are in in_vector, in the queue and on their *)
(* way. It implies the order of the buffers, that blocking loses none,     *)
(* that DROPFRONT keeps the newest, that inputs come whole, and the exact  *)
(* bound of a queue with a single producer.                                *)
(***************************************************************************)
EXTENDS FlowInputProofs

-----------------------------------------------------------------------------
(* Queues as sequences of buffers.                                         *)

\* The numbers of producer p's buffers in a queue.
NumbersIn(q, p) == {q[i][2] : i \in {k \in DOMAIN q : q[k][1] = p}}

Increasing(q) ==
    \A i, j \in DOMAIN q : i < j /\ q[i][1] = q[j][1] => q[i][2] < q[j][2]

\* A buffer is a pair, so not the empty shared_ptr.
LEMMA BufferType ==
  ASSUME NEW b \in Buffer
  PROVE  b # Null /\ b[1] \in Producers /\ b[2] \in 1 .. MaxSends /\ b[2] \in Nat
<1>1. b = <<b[1], b[2]>> /\ b[1] \in Producers /\ b[2] \in 1 .. MaxSends
  BY DEF Buffer
<1>2. Len(<<b[1], b[2]>>) = 2 /\ Len(<< >>) = 0
  OBVIOUS
<1> QED BY <1>1, <1>2 DEF Null

\* pop_front shortens the queue by one.
LEMMA TailShorter ==
  ASSUME NEW q \in Seq(Buffer), q # << >>
  PROVE  /\ Tail(q) \in Seq(Buffer) /\ Len(Tail(q)) = Len(q) - 1 /\ Tail(q) # q
         /\ Len(q) \in Nat \ {0}
<1> DEFINE t == Tail(q)
<1>1. t \in Seq(Buffer) /\ Len(t) = Len(q) - 1 /\ Len(q) \in Nat /\ Len(q) # 0
  OBVIOUS
<1> HIDE DEF t
<1>2. t # q
  BY <1>1
<1> QED BY <1>1, <1>2 DEF t

\* push_back adds one number, of one producer.
LEMMA AppendNumbers ==
  ASSUME NEW q \in Seq(Buffer), NEW b \in Buffer, NEW p
  PROVE  NumbersIn(Append(q, b), p) =
           NumbersIn(q, p) \cup IF b[1] = p THEN {b[2]} ELSE {}
<1> DEFINE a == Append(q, b)
<1>1. /\ Len(q) \in Nat /\ DOMAIN q = 1 .. Len(q) /\ DOMAIN a = 1 .. Len(q) + 1
      /\ a[Len(q) + 1] = b /\ \A i \in 1 .. Len(q) : a[i] = q[i]
  OBVIOUS
<1> HIDE DEF a
<1>2. ASSUME NEW n \in NumbersIn(a, p)
      PROVE  n \in NumbersIn(q, p) \cup IF b[1] = p THEN {b[2]} ELSE {}
  <2>1. PICK i \in DOMAIN a : a[i][1] = p /\ n = a[i][2]
    BY <1>2 DEF NumbersIn
  <2>2. CASE i = Len(q) + 1
    BY <1>1, <2>1, <2>2
  <2>3. CASE i \in 1 .. Len(q)
    BY <1>1, <2>1, <2>3 DEF NumbersIn
  <2> QED BY <1>1, <2>1, <2>2, <2>3
<1>3. ASSUME NEW n \in NumbersIn(q, p) PROVE n \in NumbersIn(a, p)
  <2>1. PICK i \in DOMAIN q : q[i][1] = p /\ n = q[i][2]
    BY <1>3 DEF NumbersIn
  <2> QED BY <1>1, <2>1 DEF NumbersIn
<1>4. b[1] = p => b[2] \in NumbersIn(a, p)
  BY <1>1 DEF NumbersIn
<1>5. NumbersIn(a, p) = NumbersIn(q, p) \cup IF b[1] = p THEN {b[2]} ELSE {}
  BY <1>2, <1>3, <1>4
<1> QED BY <1>5 DEF a

\* A queue stays sorted when what is pushed is newer than what is there.
LEMMA AppendIncreasing ==
  ASSUME NEW q \in Seq(Buffer), NEW b \in Buffer, Increasing(q),
         \A n \in NumbersIn(q, b[1]) : n < b[2]
  PROVE  Increasing(Append(q, b))
<1> DEFINE a == Append(q, b)
<1>1. /\ Len(q) \in Nat /\ DOMAIN q = 1 .. Len(q) /\ DOMAIN a = 1 .. Len(q) + 1
      /\ a[Len(q) + 1] = b /\ \A i \in 1 .. Len(q) : a[i] = q[i]
  OBVIOUS
<1> HIDE DEF a
<1>2. SUFFICES ASSUME NEW i \in DOMAIN a, NEW j \in DOMAIN a, i < j,
                      a[i][1] = a[j][1]
               PROVE  a[i][2] < a[j][2]
  BY DEF Increasing, a
<1>3. i \in 1 .. Len(q)
  BY <1>1, <1>2
<1>4. CASE j \in 1 .. Len(q)
  BY <1>1, <1>2, <1>3, <1>4 DEF Increasing
<1>5. CASE j = Len(q) + 1
  <2>1. q[i][2] \in NumbersIn(q, b[1])
    BY <1>1, <1>2, <1>3, <1>5 DEF NumbersIn
  <2> QED BY <1>1, <1>3, <1>5, <2>1
<1> QED BY <1>1, <1>4, <1>5

\* pop_front takes the oldest number of one producer.
LEMMA TailNumbers ==
  ASSUME NEW q \in Seq(Buffer), q # << >>, Increasing(q)
  PROVE  /\ Head(q) \in Buffer /\ Tail(q) \in Seq(Buffer) /\ Increasing(Tail(q))
         /\ \A p : Head(q)[1] # p => NumbersIn(Tail(q), p) = NumbersIn(q, p)
         /\ LET p == Head(q)[1]
            IN  /\ Head(q)[2] \in NumbersIn(q, p)
                /\ NumbersIn(q, p) = NumbersIn(Tail(q), p) \cup {Head(q)[2]}
                /\ \A n \in NumbersIn(Tail(q), p) : Head(q)[2] < n
<1> DEFINE t == Tail(q)
           h == Head(q)
<1>1. /\ Len(q) \in Nat /\ Len(q) >= 1 /\ DOMAIN q = 1 .. Len(q)
      /\ h = q[1] /\ h \in Buffer /\ t \in Seq(Buffer)
      /\ DOMAIN t = 1 .. Len(q) - 1
      /\ \A i \in 1 .. Len(q) - 1 : t[i] = q[i + 1]
  OBVIOUS
<1> HIDE DEF t, h
<1>2. Increasing(t)
  <2> SUFFICES ASSUME NEW i \in DOMAIN t, NEW j \in DOMAIN t, i < j,
                      t[i][1] = t[j][1]
               PROVE  t[i][2] < t[j][2]
    BY DEF Increasing
  <2>1. /\ i + 1 \in DOMAIN q /\ j + 1 \in DOMAIN q /\ i + 1 < j + 1
        /\ t[i] = q[i + 1] /\ t[j] = q[j + 1]
    BY <1>1
  <2> QED BY <2>1 DEF Increasing
<1>3. ASSUME NEW p, NEW n \in NumbersIn(t, p)
      PROVE  n \in NumbersIn(q, p) /\ (h[1] = p => h[2] < n)
  <2>1. PICK i \in DOMAIN t : t[i][1] = p /\ n = t[i][2]
    BY <1>3 DEF NumbersIn
  <2>2. i + 1 \in DOMAIN q /\ 1 \in DOMAIN q /\ 1 < i + 1 /\ t[i] = q[i + 1]
    BY <1>1
  <2> QED BY <1>1, <2>1, <2>2 DEF NumbersIn, Increasing
<1>4. ASSUME NEW p, NEW n \in NumbersIn(q, p)
      PROVE  n \in NumbersIn(t, p) \/ (h[1] = p /\ n = h[2])
  <2>1. PICK i \in DOMAIN q : q[i][1] = p /\ n = q[i][2]
    BY <1>4 DEF NumbersIn
  <2>2. CASE i = 1
    BY <1>1, <2>1, <2>2
  <2>3. CASE i # 1
    <3>1. i - 1 \in DOMAIN t /\ t[i - 1] = q[i]
      BY <1>1, <2>3
    <3> QED BY <2>1, <3>1 DEF NumbersIn
  <2> QED BY <2>2, <2>3
<1>5. h[2] \in NumbersIn(q, h[1])
  BY <1>1 DEF NumbersIn
<1>6. ASSUME NEW p, h[1] # p PROVE NumbersIn(t, p) = NumbersIn(q, p)
  <2>1. NumbersIn(t, p) \subseteq NumbersIn(q, p)
    BY <1>3
  <2>2. NumbersIn(q, p) \subseteq NumbersIn(t, p)
    BY <1>4, <1>6
  <2> QED BY <2>1, <2>2
<1>7. NumbersIn(q, h[1]) = NumbersIn(t, h[1]) \cup {h[2]}
  BY <1>3, <1>4, <1>5
<1> QED BY <1>1, <1>2, <1>3, <1>5, <1>6, <1>7 DEF t, h

\* m is the least of S and Q the others.
IsOldest(m, Q, S) == S = Q \cup {m} /\ \A n \in Q : m < n

\* An unbroken run of numbers without its least, and with the one after it.
LEMMA RunTail ==
  ASSUME NEW a \in Int, NEW b \in Int, NEW Q, NEW m, IsOldest(m, Q, a .. b)
  PROVE  m = a /\ m <= b /\ Q = m+1 .. b
<1> USE DEF IsOldest
<1>1. m \in a .. b /\ \A n \in Q : n \in a .. b
  OBVIOUS
<1>2. a \in a .. b
  BY <1>1
<1>3. a = m \/ a \in Q
  BY <1>2
<1>4. m = a /\ m <= b
  BY <1>1, <1>3
<1>5. ASSUME NEW n \in Q PROVE n \in m+1 .. b
  BY <1>1, <1>4, <1>5
<1>6. ASSUME NEW n \in m+1 .. b PROVE n \in Q
  <2>1. n \in a .. b /\ n # m
    BY <1>4, <1>6
  <2> QED BY <2>1
<1>7. Q = m+1 .. b
  BY <1>5, <1>6
<1> QED BY <1>4, <1>7

LEMMA RunAppend ==
  ASSUME NEW a \in Int, NEW b \in Int, a <= b
  PROVE  (a+1 .. b) \cup {b + 1} = a+1 .. b+1
OBVIOUS

-----------------------------------------------------------------------------
(* The invariant.                                                          *)

USE ProducersAssumption, NumSlotsAssumption, TargetAssumption,
    MaxCacheNumAssumption, ModeAssumption, FetchBlockAssumption,
    MaxSendsAssumption, BuildAssumption, ThreadsAssumption

\* The coroutine is on its way through the slots.
Fetching == wpc \in {"lock", "fetch", "waiting", "woken", "resumed", "abort"}

\* in_vector is empty from the current slot on, and before it, if every slot
\* blocks, full.
FetchInv ==
    /\ wpc \in {"while", "exit"} => in_vector = NoInput
    /\ Fetching => \A s \in Slots :
         /\ s >= cur => in_vector[s] = Null
         /\ s < cur /\ (\A t \in Slots : FetchBlock[t]) => in_vector[s] # Null
    /\ WholeInputs

\* A producer whose buffers are never refused sends the number that comes
\* after the last one that was accepted.
Refusing(p) == Mode[Target[p]] = "DROPCURRENT" /\ MaxCacheNum[Target[p]] > 0
NextInv ==
    \A p \in Producers : ~Refusing(p) =>
      /\ ppc[p] # "idle" => sent[p] = accepted[p] + 1
      /\ enable /\ ppc[p] = "idle" => sent[p] = accepted[p]

\* A lone producer that saw room, or was misled by a torn read while the
\* coroutine or the destructor held the mutex, finds room when it has got the
\* mutex back, or the flow disabled.
OneInv ==
    \A p \in Producers : LET s == Target[p] IN
      MaxCacheNum[s] > 0 /\ ProducersOf(s) = {p} =>
        /\ Len(cached_buffers[s]) <= MaxCacheNum[s]
        /\ ppc[p] = "relock_room" =>
             \/ Len(cached_buffers[s]) < MaxCacheNum[s] \/ ~enable
             \/ owner[s] \in {Worker, Stopper}
        /\ ppc[p] = "room" => Len(cached_buffers[s]) < MaxCacheNum[s] \/ ~enable

\* Nobody sends to a slot without producers.
EmptyInv ==
    \A s \in Slots : ProducersOf(s) = {} => cached_buffers[s] = << >>

DataInv == FetchInv /\ NextInv /\ OneInv /\ EmptyInv /\ InOrder /\ Lossless /\ NewestKept

\* What a push looks like to the data: a queue with room, or one that has given
\* up its head, gets the buffer that is being sent.
Pushes(p) ==
    \E q \in {cached_buffers[Target[p]], Tail(cached_buffers[Target[p]])} :
      /\ PushBack(p, q)
      /\ ppc[p] \in {"body", "room"}
      /\ q # cached_buffers[Target[p]] =>
           Full(Target[p]) /\ Mode[Target[p]] = "DROPFRONT"
      /\ q = cached_buffers[Target[p]] => ppc[p] = "room" \/ ~Full(Target[p])

Quiet == UNCHANGED <<cached_buffers, in_vector, accepted, delivered>>

\* The steps, as the data sees them.
LEMMA DataSteps ==
  ASSUME IInv, Next
  PROVE  \/ Quiet \/ \E p \in Producers : Pushes(p)
         \/ Fetch \/ FetchNothing \/ FetchDisabled \/ Process
<1> USE DEF queueVars, producerVars, workerVars, stopperVars, history, Quiet
<1>1. ASSUME NEW p \in Producers, ProducerBody(p) PROVE Quiet \/ Pushes(p)
  <2>1. CASE Push(p) \/ PushAfterRoom(p)
    BY <2>1 DEF Push, PushAfterRoom, Pushes
  <2>2. CASE PushDropFront(p)
    <3>1. cached_buffers[Target[p]] \in Seq(Buffer)
      BY DEF IInv, TypeOK
    <3>2. cached_buffers[Target[p]] # << >>
      BY <2>2 DEF PushDropFront, Full
    <3>3. Tail(cached_buffers[Target[p]]) # cached_buffers[Target[p]]
      BY <3>1, <3>2, TailShorter
    <3> QED BY <2>2, <3>3 DEF PushDropFront, Pushes
  <2>3. CASE DropCurrent(p) \/ GiveUp(p) \/ Block(p) \/ BlockAgain(p) \/ Peek(p)
    BY <2>3 DEF DropCurrent, GiveUp, Block, BlockAgain, Drop, SleepAndUnlock, Peek
  <2> QED BY <1>1, <2>1, <2>2, <2>3 DEF ProducerBody
<1>2. ASSUME NEW p \in Producers, SendInput(p) \/ ProducerLock(p) \/ Detach(p)
      PROVE  Quiet
  BY <1>2 DEF SendInput, ProducerLock, Detach
<1>3. CASE WorkerLock \/ While \/ Wait \/ FetchAborts \/ SpuriousWakeup
  BY <1>3 DEF WorkerLock, While, Wait, FetchAborts, SpuriousWakeup
<1>4. CASE StopStart \/ StopLock \/ StopSlot \/ StopJoin \/ SetDisable
  BY <1>4 DEF StopStart, StopLock, StopSlot, StopJoin, SetDisable
<1> QED BY <1>1, <1>2, <1>3, <1>4 DEF Next, WorkerBody

-----------------------------------------------------------------------------
(* The parts that are about control.                                       *)

\* Slots are fetched one after the other, and all at once forgotten.
LEMMA FetchStep == ASSUME IInv, FetchInv, Next PROVE FetchInv'
<1> USE DEF queueVars, producerVars, workerVars, stopperVars, history, Fetching
<1>1. TypeOK /\ TypeOK'
  BY TypeStep DEF IInv
<1>2. ASSUME UNCHANGED <<cur, in_vector>>,
             wpc' = wpc \/ (wpc \in {"lock", "fetch", "waiting", "woken"}
                             /\ wpc' \in {"fetch", "waiting", "woken", "resumed"})
      PROVE  FetchInv'
  BY <1>2 DEF FetchInv, WholeInputs
<1>3. ASSUME NEW p \in Producers,
             SendInput(p) \/ ProducerLock(p) \/ ProducerBody(p) \/ Detach(p)
      PROVE  FetchInv'
  <2>1. CASE SendInput(p) \/ ProducerLock(p) \/ Detach(p)
    BY <1>2, <2>1 DEF SendInput, ProducerLock, Detach
  <2>2. CASE ProducerBody(p)
    <3>1. UNCHANGED <<cur, in_vector>>
      BY <2>2, BodyEffect
    <3>2. wpc' = wpc \/ (wpc = "waiting" /\ wpc' = "woken")
      BY <2>2, BodyEffect DEF PushBack, Notified
    <3> QED BY <1>2, <3>1, <3>2
  <2> QED BY <1>3, <2>1, <2>2
<1>4. CASE WorkerLock \/ Wait \/ SpuriousWakeup
  BY <1>1, <1>2, <1>4 DEF WorkerLock, Wait, SpuriousWakeup
<1>5. CASE While
  BY <1>1, <1>5 DEF While, FetchInv, WholeInputs, NoInput, Slots
<1>6. ASSUME NEW b \in Buffer \cup {Null}, NextSlot(b), Fetching,
             b # Null \/ ~FetchBlock[cur]
      PROVE  FetchInv'
  <2>1. cur \in Slots /\ \A s \in Slots : s \in Int
        /\ in_vector'[s] = IF s = cur THEN b ELSE in_vector[s]
    BY <1>1, <1>6 DEF NextSlot, TypeOK, Slots
  <2>2. CASE cur = NumSlots
    <3>1. wpc' = "process" /\ \A s \in Slots : s # cur => s < cur
      BY <1>6, <2>1, <2>2 DEF NextSlot, Slots
    <3>2. ASSUME \A s \in Slots : FetchBlock[s], NEW s \in Slots
          PROVE  in_vector'[s] # Null
      BY <1>6, <2>1, <3>1, <3>2 DEF FetchInv
    <3> QED BY <3>1, <3>2 DEF FetchInv, WholeInputs
  <2>3. CASE cur # NumSlots
    <3>1. wpc' = "lock" /\ cur' = cur + 1
      BY <1>6, <2>3 DEF NextSlot
    <3> QED BY <1>6, <2>1, <3>1 DEF FetchInv, WholeInputs
  <2> QED BY <2>2, <2>3
<1>7. CASE FetchNothing
  BY <1>6, <1>7 DEF FetchNothing
<1>8. CASE FetchDisabled
  BY <1>8 DEF FetchDisabled, FetchInv, WholeInputs
<1>9. CASE Fetch
  <2>1. cached_buffers[cur] \in Seq(Buffer) /\ cached_buffers[cur] # << >>
    BY <1>1, <1>9 DEF Fetch, TypeOK
  <2>2. Head(cached_buffers[cur]) \in Buffer
    BY <2>1
  <2>3. Head(cached_buffers[cur]) # Null
    BY <2>2, BufferType
  <2> QED BY <1>6, <1>9, <2>2, <2>3 DEF Fetch, PastWait
<1>10. CASE FetchAborts
  BY <1>10 DEF FetchAborts, PastWait, FetchInv, WholeInputs
<1>11. CASE Process
  BY <1>11 DEF Process, FetchInv, WholeInputs
<1>12. CASE StopStart \/ StopLock \/ StopJoin \/ SetDisable
  BY <1>2, <1>12 DEF StopStart, StopLock, StopJoin, SetDisable
<1>13. CASE StopSlot
  BY <1>2, <1>13 DEF StopSlot, Notified
<1> QED BY <1>3, <1>4, <1>5, <1>7, <1>8, <1>9, <1>10, <1>11, <1>12, <1>13
     DEF Next, WorkerBody

\* Only a disabled flow, or a full DROPCURRENT slot, refuses a buffer.
LEMMA NextStep == ASSUME IInv, NextInv, Next PROVE NextInv'
<1> USE DEF queueVars, producerVars, workerVars, stopperVars, history
<1> SUFFICES ASSUME NEW r \in Producers, ~Refusing(r)
             PROVE  /\ ppc'[r] # "idle" => sent'[r] = accepted'[r] + 1
                    /\ enable' /\ ppc'[r] = "idle" => sent'[r] = accepted'[r]
  BY DEF NextInv, Refusing
<1> DEFINE Goal == /\ ppc'[r] # "idle" => sent'[r] = accepted'[r] + 1
                   /\ enable' /\ ppc'[r] = "idle" => sent'[r] = accepted'[r]
<1>1. /\ TypeOK
      /\ ppc[r] # "idle" => sent[r] = accepted[r] + 1
      /\ enable /\ ppc[r] = "idle" => sent[r] = accepted[r]
  BY DEF IInv, NextInv
<1>2. ASSUME (ppc'[r] = "idle" <=> ppc[r] = "idle"), accepted'[r] = accepted[r],
             sent'[r] = sent[r], enable' => enable
      PROVE  Goal
  BY <1>1, <1>2
<1>3. ASSUME NEW p \in Producers, SendInput(p) PROVE Goal
  <2>1. CASE p # r
    BY <1>1, <1>2, <1>3, <2>1 DEF SendInput, Goto, TypeOK
  <2>2. CASE p = r
    <3>1. /\ ppc[r] = "idle" /\ sent'[r] = sent[r] + 1 /\ accepted' = accepted
          /\ ppc'[r] = (IF enable THEN "lock" ELSE "idle") /\ enable' = enable
      BY <1>1, <1>3, <2>2 DEF SendInput, Goto, TypeOK
    <3> QED BY <1>1, <3>1
  <2> QED BY <2>1, <2>2
<1>4. ASSUME NEW p \in Producers, ProducerLock(p) PROVE Goal
  BY <1>1, <1>2, <1>4 DEF ProducerLock, Goto, AtLock, AfterLock, TypeOK
<1>5. ASSUME NEW p \in Producers, ProducerBody(p) PROVE Goal
  <2>1. CASE Push(p) \/ PushDropFront(p) \/ PushAfterRoom(p)
    <3>1. /\ accepted' = [accepted EXCEPT ![p] = sent[p]]
          /\ ppc' = [ppc EXCEPT ![p] = "idle"] /\ UNCHANGED <<sent, enable>>
      BY <2>1 DEF Push, PushDropFront, PushAfterRoom, PushBack, Goto
    <3> QED BY <1>1, <1>2, <3>1 DEF TypeOK
  <2>2. CASE DropCurrent(p) \/ GiveUp(p)
    <3>1. /\ ppc' = [ppc EXCEPT ![p] = "idle"]
          /\ UNCHANGED <<sent, enable, accepted>>
      BY <2>2 DEF DropCurrent, GiveUp, Drop, Goto
    <3>2. CASE p # r
      BY <1>1, <1>2, <3>1, <3>2 DEF TypeOK
    <3>3. CASE p = r
      BY <1>1, <2>2, <3>1, <3>3 DEF DropCurrent, GiveUp, Refusing, Full, TypeOK
    <3> QED BY <3>2, <3>3
  <2>3. CASE Block(p) \/ BlockAgain(p) \/ Peek(p)
    <3>1. /\ ppc[p] # "idle" /\ \E l : l # "idle" /\ ppc' = [ppc EXCEPT ![p] = l]
          /\ UNCHANGED <<sent, enable, accepted>>
      BY <2>3 DEF Block, BlockAgain, Peek, SleepAndUnlock, Goto
    <3> QED BY <1>1, <1>2, <3>1 DEF TypeOK
  <2> QED BY <1>5, <2>1, <2>2, <2>3 DEF ProducerBody
<1>6. ASSUME NEW p \in Producers, Detach(p) PROVE Goal
  BY <1>2, <1>6 DEF Detach
<1>7. CASE WorkerLock \/ WorkerBody \/ SpuriousWakeup
  BY <1>2, <1>7 DEF WorkerLock, WorkerBody, SpuriousWakeup, While, FetchNothing,
     Wait, FetchDisabled, Fetch, FetchAborts, Process
<1>8. CASE StopStart \/ StopLock \/ StopSlot \/ StopJoin \/ SetDisable
  BY <1>2, <1>8 DEF StopStart, StopLock, StopSlot, StopJoin, SetDisable
<1> QED BY <1>3, <1>4, <1>5, <1>6, <1>7, <1>8 DEF Next

\* The exact bound: nobody but the producer itself makes the queue longer, and
\* whoever held the mutex while it looked has made the queue shorter, found it
\* empty or disabled the flow when the mutex is free again.
LEMMA OneStep == ASSUME IInv, OneInv, Next PROVE OneInv'
<1> USE DEF queueVars, producerVars, workerVars, stopperVars, history
<1> SUFFICES ASSUME NEW r \in Producers, MaxCacheNum[Target[r]] > 0,
                    ProducersOf(Target[r]) = {r}
             PROVE  /\ Len(cached_buffers'[Target[r]]) <= MaxCacheNum[Target[r]]
                    /\ ppc'[r] = "relock_room" =>
                         \/ Len(cached_buffers'[Target[r]]) < MaxCacheNum[Target[r]]
                         \/ ~enable' \/ owner'[Target[r]] \in {Worker, Stopper}
                    /\ ppc'[r] = "room" =>
                         \/ Len(cached_buffers'[Target[r]]) < MaxCacheNum[Target[r]]
                         \/ ~enable'
  BY DEF OneInv, ProducersOf
<1> DEFINE s == Target[r]
           Room == Len(cached_buffers[s]) < MaxCacheNum[s]
           RoomP == Len(cached_buffers'[s]) < MaxCacheNum[s]
           Goal == /\ Len(cached_buffers'[s]) <= MaxCacheNum[s]
                   /\ ppc'[r] = "relock_room" =>
                        RoomP \/ ~enable' \/ owner'[s] \in {Worker, Stopper}
                   /\ ppc'[r] = "room" => RoomP \/ ~enable'
<1>1. /\ TypeOK /\ s \in Slots /\ MaxCacheNum[s] \in Nat /\ MaxCacheNum[s] > 0
      /\ cached_buffers[s] \in Seq(Buffer) /\ Len(cached_buffers[s]) \in Nat
      /\ Len(cached_buffers[s]) <= MaxCacheNum[s]
      /\ ppc[r] = "relock_room" => Room \/ ~enable \/ owner[s] \in {Worker, Stopper}
      /\ ppc[r] = "room" => Room \/ ~enable
  BY DEF IInv, TypeOK, OneInv
<1>2. \A p \in Producers : p # r => Target[p] # s
  BY DEF ProducersOf
<1>3. ASSUME cached_buffers'[s] = cached_buffers[s], enable' => enable,
             ppc'[r] = ppc[r] \/ ppc'[r] \notin {"relock_room", "room"},
             owner'[s] = owner[s] \/ owner[s] = Nobody \/ Room \/ ~enable'
      PROVE  Goal
  BY <1>1, <1>3, ThreadsAssumption DEF Worker, Stopper, Nobody
<1>4. ASSUME NEW p \in Producers, SendInput(p) \/ Detach(p) PROVE Goal
  <2>1. UNCHANGED <<cached_buffers, enable, owner>>
        /\ (ppc'[r] = ppc[r] \/ ppc'[r] \notin {"relock_room", "room"})
    BY <1>1, <1>4 DEF SendInput, Detach, Goto, TypeOK
  <2> QED BY <1>3, <2>1
<1>5. ASSUME NEW p \in Producers, ProducerLock(p) PROVE Goal
  <2>1. CASE p # r
    <3>1. UNCHANGED <<cached_buffers, enable>> /\ owner'[s] = owner[s]
          /\ ppc'[r] = ppc[r]
      BY <1>1, <1>2, <1>5, <2>1 DEF ProducerLock, Acquire, Goto, TypeOK
    <3> QED BY <1>3, <3>1
  <2>2. CASE p = r
    <3>1. /\ UNCHANGED <<cached_buffers, enable>> /\ owner[s] = Nobody
          /\ ppc'[r] = "room" => ppc[r] = "relock_room"
          /\ ppc'[r] # "relock_room"
      BY <1>1, <1>5, <2>2 DEF ProducerLock, AtLock, AfterLock, Acquire, Goto, TypeOK
    <3> QED BY <1>1, <3>1 DEF Worker, Stopper, Nobody
  <2> QED BY <2>1, <2>2
<1>6. ASSUME NEW p \in Producers, ProducerBody(p) PROVE Goal
  <2>1. ASSUME p # r PROVE Goal
    <3>1. /\ cached_buffers'[s] = cached_buffers[s] /\ owner'[s] = owner[s]
          /\ ppc'[r] = ppc[r] /\ enable' = enable
      BY <1>1, <1>2, <1>6, <2>1 DEF ProducerBody, Push, PushDropFront, PushAfterRoom,
         PushBack, DropCurrent, GiveUp, Drop, Block, BlockAgain, SleepAndUnlock,
         Peek, Release, Goto, TypeOK
    <3> QED BY <1>3, <3>1
  <2>2. ASSUME p = r, NEW q \in Seq(Buffer), PushBack(p, q), Len(q) < MaxCacheNum[s]
        PROVE  Goal
    <3>1. cached_buffers'[s] = Append(q, <<p, sent[p]>>) /\ ppc'[r] = "idle"
      BY <1>1, <2>2 DEF PushBack, Goto, TypeOK
    <3>2. Len(Append(q, <<p, sent[p]>>)) = Len(q) + 1 /\ Len(q) \in Nat
      BY <2>2
    <3> QED BY <1>1, <2>2, <3>1, <3>2
  <2>3. CASE p = r /\ Push(p)
    BY <1>1, <2>2, <2>3 DEF Push, Full
  <2>4. CASE p = r /\ PushAfterRoom(p)
    BY <1>1, <2>2, <2>4 DEF PushAfterRoom
  <2>5. CASE p = r /\ PushDropFront(p)
    <3>1. cached_buffers[s] # << >>
      BY <1>1, <2>5 DEF PushDropFront, Full
    <3> DEFINE t == Tail(cached_buffers[s])
    <3>2. t \in Seq(Buffer) /\ Len(t) < MaxCacheNum[s]
      BY <1>1, <3>1, TailShorter
    <3>3. PushBack(p, t)
      BY <2>5 DEF PushDropFront
    <3> HIDE DEF t
    <3> QED BY <2>2, <2>5, <3>2, <3>3
  <2>6. CASE p = r /\ (DropCurrent(p) \/ GiveUp(p) \/ Block(p) \/ BlockAgain(p))
    <3>1. UNCHANGED <<cached_buffers, enable>> /\ ppc'[r] \in {"idle", "peek"}
      BY <1>1, <2>6 DEF DropCurrent, GiveUp, Block, BlockAgain, Drop,
         SleepAndUnlock, Goto, TypeOK
    <3> QED BY <1>1, <3>1
  <2>7. CASE p = r /\ Peek(p)
    <3>1. /\ UNCHANGED <<cached_buffers, enable, owner>> /\ ppc[r] = "peek"
          /\ ppc'[r] # "room"
          /\ ppc'[r] = "relock_room" => ~Full(s) \/ owner[s] # Nobody
      BY <1>1, <2>7 DEF Peek, Goto, TypeOK
    <3>2. owner[s] \in Producers => owner[s] = r
      BY <1>1, <1>2 DEF IInv, LockInv
    <3>3. owner[s] # r
      <4>1. owner[s] = r <=> ppc[r] \in {"body", "room", "full"}
        BY <1>1 DEF IInv, LockInv
      <4>2. ppc[r] = "peek"
        BY <3>1
      <4> QED BY <4>1, <4>2
    <3>4. owner[s] \in Producers \cup {Worker, Stopper, Nobody}
      BY <1>1 DEF TypeOK
    <3>5. owner[s] # Nobody => owner[s] \in {Worker, Stopper}
      BY <3>2, <3>3, <3>4
    <3>6. ~Full(s) => Room
      BY <1>1 DEF Full
    <3> QED BY <1>1, <3>1, <3>5, <3>6
  <2> QED BY <1>6, <2>1, <2>3, <2>4, <2>5, <2>6, <2>7 DEF ProducerBody
<1>7. CASE WorkerLock \/ StopLock
  <2>1. /\ UNCHANGED <<cached_buffers, enable, ppc>>
        /\ owner'[s] = owner[s] \/ owner[s] = Nobody
    BY <1>1, <1>7 DEF WorkerLock, StopLock, Acquire, TypeOK
  <2> QED BY <1>3, <2>1
<1>8. CASE FetchNothing \/ Wait
  <2>1. /\ UNCHANGED <<cached_buffers, enable, ppc>>
        /\ owner'[s] = owner[s] \/ cached_buffers[s] = << >>
    BY <1>1, <1>8 DEF FetchNothing, Wait, NextSlot, Release, TypeOK
  <2>2. cached_buffers[s] = << >> => Room
    BY <1>1
  <2> QED BY <1>3, <2>1, <2>2
<1>9. CASE FetchDisabled
  BY <1>1, <1>9 DEF FetchDisabled
<1>10. CASE Fetch
  <2>1. UNCHANGED <<enable, ppc>>
    BY <1>10 DEF Fetch
  <2>2. CASE cur # s
    <3>1. cached_buffers'[s] = cached_buffers[s] /\ owner'[s] = owner[s]
      BY <1>1, <1>10, <2>2 DEF Fetch, NextSlot, Release, TypeOK
    <3> QED BY <1>3, <2>1, <3>1
  <2>3. CASE cur = s
    <3>1. cached_buffers'[s] = Tail(cached_buffers[s]) /\ cached_buffers[s] # << >>
      BY <1>1, <1>10, <2>3 DEF Fetch, TypeOK
    <3>2. Len(Tail(cached_buffers[s])) = Len(cached_buffers[s]) - 1
      BY <1>1, <3>1
    <3> QED BY <1>1, <3>1, <3>2
  <2> QED BY <2>2, <2>3
<1>11. CASE While \/ FetchAborts \/ Process \/ SpuriousWakeup \/ StopStart \/ StopJoin
            \/ SetDisable
  <2>1. UNCHANGED <<cached_buffers, ppc, owner>> /\ (enable' => enable)
    BY <1>11 DEF While, FetchAborts, Process, SpuriousWakeup, StopStart, StopJoin,
       SetDisable
  <2> QED BY <1>3, <2>1
<1>12. CASE StopSlot
  BY <1>1, <1>12 DEF StopSlot
<1> QED BY <1>4, <1>5, <1>6, <1>7, <1>8, <1>9, <1>10, <1>11, <1>12
     DEF Next, WorkerBody

\* A slot that nobody sends to stays empty.
LEMMA EmptyStep == ASSUME IInv, EmptyInv, Next PROVE EmptyInv'
<1> SUFFICES ASSUME NEW s \in Slots, ProducersOf(s) = {}
             PROVE  cached_buffers'[s] = << >>
  BY DEF EmptyInv, ProducersOf
<1>1. TypeOK /\ cached_buffers[s] = << >> /\ \A p \in Producers : Target[p] # s
  BY DEF IInv, EmptyInv, ProducersOf
<1>2. ASSUME NEW p \in Producers, Pushes(p) PROVE cached_buffers'[s] = << >>
  BY <1>1, <1>2 DEF Pushes, PushBack, TypeOK
<1>3. CASE Fetch
  BY <1>1, <1>3 DEF Fetch, TypeOK
<1>4. CASE Quiet \/ FetchNothing \/ FetchDisabled \/ Process
  BY <1>1, <1>4 DEF Quiet, FetchNothing, FetchDisabled, Process, queueVars
<1> QED BY <1>2, <1>3, <1>4, DataSteps

-----------------------------------------------------------------------------
(* The parts that are about data: what a step does to one producer r.      *)

\* The numbers in sets instead of sequences; Queued is NumbersIn.
OrderOf(r) ==
    /\ delivered[r] <= Taken(r) /\ Taken(r) <= accepted[r]
    /\ \A n \in Queued(r) : n \in Taken(r)+1 .. accepted[r]

LEMMA InOrderIs ==
  InOrder <=> /\ \A s \in Slots : Increasing(cached_buffers[s])
              /\ \A r \in Producers : OrderOf(r)
BY DEF InOrder, Increasing, OrderOf

LEMMA QueuedIs ==
  ASSUME NEW r PROVE Queued(r) = NumbersIn(cached_buffers[Target[r]], r)
BY DEF Queued, NumbersIn

\* The numbers of a producer, and that the last one taken is one of them.
LEMMA Numbers ==
  ASSUME TypeOK, NEW r \in Producers
  PROVE  /\ accepted[r] \in Nat /\ sent[r] \in Nat /\ delivered[r] \in Nat
         /\ Taken(r) \in Nat /\ Target[r] \in Slots
         /\ in_vector[Target[r]] = Null => Taken(r) = delivered[r]
<1>1. in_vector[Target[r]] \in Buffer \cup {Null} /\ Target[r] \in Slots
  BY DEF TypeOK
<1>2. in_vector[Target[r]] \in Buffer => in_vector[Target[r]][2] \in Nat
  BY BufferType
<1> QED BY <1>1, <1>2 DEF TypeOK, Taken

\* A push: p's number joins the queue, after the oldest of a DROPFRONT slot has
\* perhaps gone; nothing else happens to anybody.
LEMMA PushEffect ==
  ASSUME IInv, InOrder, NEW p \in Producers, Pushes(p)
  PROVE  /\ \A s \in Slots : Increasing(cached_buffers'[s])
         /\ \A r \in Producers :
              /\ Taken(r)' = Taken(r) /\ delivered'[r] = delivered[r]
              /\ accepted'[r] = IF r = p THEN sent[p] ELSE accepted[r]
              /\ \E rest :
                   /\ Queued(r)' = rest \cup IF r = p THEN {sent[p]} ELSE {}
                   /\ \/ rest = Queued(r)
                      \/ /\ Mode[Target[r]] = "DROPFRONT" /\ MaxCacheNum[Target[r]] > 0
                         /\ \E m \in Queued(r) : /\ Queued(r) = rest \cup {m}
                                                 /\ \A n \in rest : m < n
<1> DEFINE s == Target[p]
           old == cached_buffers[s]
           b == <<p, sent[p]>>
<1>1. /\ TypeOK /\ s \in Slots /\ old \in Seq(Buffer) /\ Increasing(old)
      /\ \A r \in Producers : OrderOf(r)
  BY InOrderIs DEF IInv, TypeOK
<1>2. PICK q \in {old, Tail(old)} :
        /\ PushBack(p, q) /\ ppc[p] # "idle"
        /\ q # old => Full(s) /\ Mode[s] = "DROPFRONT"
  BY DEF Pushes
<1>3. q = old \/ (q = Tail(old) /\ old # << >> /\ Mode[s] = "DROPFRONT" /\ MaxCacheNum[s] > 0)
  BY <1>2 DEF Full
<1>4. /\ q \in Seq(Buffer) /\ Increasing(q)
      /\ \A r : \/ NumbersIn(q, r) = NumbersIn(old, r)
               \/ /\ Mode[s] = "DROPFRONT" /\ MaxCacheNum[s] > 0
                  /\ \E m \in NumbersIn(old, r) :
                       /\ NumbersIn(old, r) = NumbersIn(q, r) \cup {m}
                       /\ \A n \in NumbersIn(q, r) : m < n
  <2>1. CASE q = old
    BY <1>1, <2>1
  <2>2. CASE q # old
    <3>1. q = Tail(old) /\ old # << >> /\ Mode[s] = "DROPFRONT" /\ MaxCacheNum[s] > 0
      BY <1>3, <2>2
    <3> DEFINE h == Head(old)
    <3>2. /\ q \in Seq(Buffer) /\ Increasing(q)
          /\ \A r : h[1] # r => NumbersIn(q, r) = NumbersIn(old, r)
          /\ h[2] \in NumbersIn(old, h[1])
          /\ NumbersIn(old, h[1]) = NumbersIn(q, h[1]) \cup {h[2]}
          /\ \A n \in NumbersIn(q, h[1]) : h[2] < n
      BY <1>1, <3>1, TailNumbers
    <3> HIDE DEF h
    <3> QED BY <3>1, <3>2
  <2> QED BY <2>1, <2>2
<1>5. /\ b \in Buffer /\ accepted[p] < sent[p] /\ b[1] = p /\ b[2] = sent[p]
  <2>1. accepted[p] < sent[p]
    BY <1>2 DEF IInv, SendInv
  <2>2. sent[p] \in 1 .. MaxSends
    BY <1>1, <2>1 DEF TypeOK
  <2> QED BY <2>1, <2>2 DEF Buffer
<1>6. \A r \in Producers : Queued(r) = NumbersIn(cached_buffers[Target[r]], r)
                          /\ Queued(r)' = NumbersIn(cached_buffers'[Target[r]], r)
  BY QueuedIs DEF Queued, NumbersIn
<1>7. \A n \in NumbersIn(q, p) : n < b[2]
  <2> SUFFICES ASSUME NEW n \in NumbersIn(q, p) PROVE n < b[2]
    OBVIOUS
  <2>1. n \in Queued(p)
    BY <1>4, <1>6
  <2>2. n \in Taken(p)+1 .. accepted[p]
    BY <1>1, <2>1 DEF OrderOf
  <2> QED BY <1>1, <1>5, <2>2, Numbers
<1>8. /\ cached_buffers' = [cached_buffers EXCEPT ![s] = Append(q, b)]
      /\ accepted' = [accepted EXCEPT ![p] = sent[p]]
      /\ UNCHANGED <<in_vector, delivered>>
  BY <1>2 DEF PushBack
<1> HIDE DEF b, old
<1>9. ASSUME NEW t \in Slots PROVE Increasing(cached_buffers'[t])
  <2>1. Increasing(Append(q, b))
    BY <1>4, <1>5, <1>7, AppendIncreasing
  <2>2. cached_buffers'[t] = IF t = s THEN Append(q, b) ELSE cached_buffers[t]
    BY <1>1, <1>8 DEF TypeOK
  <2> QED BY <2>1, <2>2, InOrderIs
<1>10. ASSUME NEW r \in Producers
       PROVE  \E rest :
                /\ Queued(r)' = rest \cup IF r = p THEN {sent[p]} ELSE {}
                /\ \/ rest = Queued(r)
                   \/ /\ Mode[Target[r]] = "DROPFRONT" /\ MaxCacheNum[Target[r]] > 0
                      /\ \E m \in Queued(r) : /\ Queued(r) = rest \cup {m}
                                              /\ \A n \in rest : m < n
  <2>1. CASE Target[r] = s
    <3>1. Queued(r)' = NumbersIn(Append(q, b), r)
      BY <1>1, <1>6, <1>8, <2>1 DEF TypeOK
    <3>2. Queued(r)' = NumbersIn(q, r) \cup IF r = p THEN {sent[p]} ELSE {}
      BY <1>4, <1>5, <3>1, AppendNumbers
    <3>3. Queued(r) = NumbersIn(old, r)
      BY <1>6, <2>1 DEF old
    <3> WITNESS NumbersIn(q, r)
    <3> QED BY <1>4, <2>1, <3>2, <3>3
  <2>2. CASE Target[r] # s
    <3>1. r # p /\ Queued(r)' = Queued(r)
      BY <1>1, <1>6, <1>8, <2>2, Numbers DEF TypeOK
    <3> WITNESS Queued(r)
    <3> QED BY <3>1
  <2> QED BY <2>1, <2>2
<1>11. ASSUME NEW r \in Producers
       PROVE  /\ Taken(r)' = Taken(r) /\ delivered'[r] = delivered[r]
              /\ accepted'[r] = IF r = p THEN sent[p] ELSE accepted[r]
  BY <1>1, <1>8 DEF Taken, TypeOK
<1> QED BY <1>9, <1>10, <1>11

\* A fetch: the oldest number of one producer of the slot is taken.
LEMMA FetchEffect ==
  ASSUME IInv, InOrder, Fetch
  PROVE  /\ \A s \in Slots : Increasing(cached_buffers'[s])
         /\ \A r \in Producers :
              /\ accepted'[r] = accepted[r] /\ delivered'[r] = delivered[r]
              /\ \/ /\ Queued(r)' = Queued(r)
                    /\ Taken(r)' = IF Target[r] = cur THEN delivered[r] ELSE Taken(r)
                 \/ /\ Target[r] = cur /\ Taken(r)' \in Queued(r)
                    /\ Queued(r) = Queued(r)' \cup {Taken(r)'}
                    /\ \A n \in Queued(r)' : Taken(r)' < n
<1> DEFINE old == cached_buffers[cur]
           h == Head(old)
<1>1. /\ TypeOK /\ cur \in Slots /\ old \in Seq(Buffer) /\ old # << >>
      /\ Increasing(old)
  BY InOrderIs DEF IInv, TypeOK, Fetch
<1>2. /\ h \in Buffer /\ Increasing(Tail(old))
      /\ \A p : h[1] # p => NumbersIn(Tail(old), p) = NumbersIn(old, p)
      /\ h[2] \in NumbersIn(old, h[1])
      /\ NumbersIn(old, h[1]) = NumbersIn(Tail(old), h[1]) \cup {h[2]}
      /\ \A n \in NumbersIn(Tail(old), h[1]) : h[2] < n
  BY <1>1, TailNumbers
<1>3. /\ cached_buffers' = [cached_buffers EXCEPT ![cur] = Tail(old)]
      /\ in_vector' = [in_vector EXCEPT ![cur] = h]
      /\ UNCHANGED <<accepted, delivered>>
  BY DEF Fetch, NextSlot, history
<1>4. h # Null
  BY <1>2, BufferType
<1> HIDE DEF h, old
<1>5. ASSUME NEW t \in Slots PROVE Increasing(cached_buffers'[t])
  <2>1. cached_buffers'[t] = IF t = cur THEN Tail(old) ELSE cached_buffers[t]
    BY <1>1, <1>3 DEF TypeOK
  <2> QED BY <1>2, <2>1, InOrderIs
<1>6. ASSUME NEW r \in Producers
      PROVE  \/ /\ Queued(r)' = Queued(r)
                /\ Taken(r)' = IF Target[r] = cur THEN delivered[r] ELSE Taken(r)
             \/ /\ Target[r] = cur /\ Taken(r)' \in Queued(r)
                /\ Queued(r) = Queued(r)' \cup {Taken(r)'}
                /\ \A n \in Queued(r)' : Taken(r)' < n
  <2>1. /\ Queued(r) = NumbersIn(cached_buffers[Target[r]], r)
        /\ Queued(r)' = NumbersIn(cached_buffers'[Target[r]], r)
        /\ Target[r] \in Slots
    BY <1>1, QueuedIs, Numbers DEF Queued, NumbersIn
  <2>2. CASE Target[r] # cur
    <3>1. cached_buffers'[Target[r]] = cached_buffers[Target[r]]
          /\ in_vector'[Target[r]] = in_vector[Target[r]]
      BY <1>1, <1>3, <2>1, <2>2 DEF TypeOK
    <3>2. Taken(r)' = Taken(r)
      BY <1>3, <3>1 DEF Taken
    <3> QED BY <2>1, <2>2, <3>1, <3>2
  <2>3. CASE Target[r] = cur
    <3>1. /\ cached_buffers'[cur] = Tail(old) /\ cached_buffers[cur] = old
          /\ in_vector'[cur] = h
      BY <1>1, <1>3 DEF TypeOK, old
    <3>2. Taken(r)' = IF h[1] = r THEN h[2] ELSE delivered[r]
      BY <1>3, <1>4, <2>3, <3>1 DEF Taken
    <3> QED BY <1>2, <2>1, <2>3, <3>1, <3>2
  <2> QED BY <2>2, <2>3
<1> QED BY <1>3, <1>5, <1>6

\* The other steps leave the queues alone.
LEMMA OtherEffect ==
  ASSUME IInv, Quiet \/ FetchNothing \/ FetchDisabled \/ Process, NEW r \in Producers
  PROVE  /\ cached_buffers' = cached_buffers /\ accepted' = accepted
         /\ Queued(r)' = Queued(r)
         /\ \/ delivered'[r] = delivered[r] /\ Taken(r)' \in {Taken(r), delivered[r]}
            \/ delivered'[r] = Taken(r) /\ Taken(r)' = Taken(r)
         /\ Quiet \/ Process => Taken(r)' = Taken(r)
<1>1. TypeOK /\ Target[r] \in Slots
  BY DEF IInv
<1>2. cached_buffers' = cached_buffers /\ accepted' = accepted
  BY DEF Quiet, FetchNothing, FetchDisabled, Process, queueVars, history
<1>3. Queued(r)' = Queued(r)
  BY <1>2 DEF Queued
<1>4. CASE Quiet
  BY <1>2, <1>3, <1>4 DEF Quiet, Taken
<1>5. CASE FetchNothing \/ FetchDisabled
  <2>1. delivered' = delivered
    BY <1>5 DEF FetchNothing, FetchDisabled, history
  <2>2. in_vector'[Target[r]] \in {in_vector[Target[r]], Null}
    BY <1>1, <1>5 DEF FetchNothing, FetchDisabled, NextSlot, NoInput, TypeOK
  <2>3. Taken(r)' \in {Taken(r), delivered[r]}
    BY <2>1, <2>2 DEF Taken
  <2>4. ~Quiet \/ Taken(r)' = Taken(r)
    BY DEF Quiet, Taken
  <2>5. ~Process
    BY <1>5 DEF FetchNothing, FetchDisabled, PastWait, Process
  <2> QED BY <1>2, <1>3, <2>1, <2>3, <2>4, <2>5
<1>6. CASE Process
  <2>1. delivered'[r] = Taken(r) /\ in_vector'[Target[r]] = Null
    BY <1>1, <1>6 DEF Process, Taken, NoInput
  <2>2. Taken(r)' = delivered'[r]
    BY <2>1 DEF Taken
  <2> QED BY <1>2, <1>3, <2>1, <2>2
<1> QED BY <1>4, <1>5, <1>6

-----------------------------------------------------------------------------
(* Order and loss.                                                         *)

\* Taking the oldest and adding a newer one keeps the order.
LEMMA OrderStep == ASSUME IInv, InOrder, Next PROVE InOrder'
<1>1. /\ TypeOK /\ TypeOK' /\ \A s \in Slots : Increasing(cached_buffers[s])
      /\ \A r \in Producers : OrderOf(r)
  BY InOrderIs, TypeStep DEF IInv
<1>2. SUFFICES /\ \A s \in Slots : Increasing(cached_buffers'[s])
               /\ \A r \in Producers : OrderOf(r)'
  BY DEF InOrder, Increasing, OrderOf
<1>3. \A r \in Producers :
        /\ accepted[r] \in Nat /\ sent[r] \in Nat /\ delivered[r] \in Nat
        /\ Taken(r) \in Nat /\ accepted'[r] \in Nat /\ delivered'[r] \in Nat
        /\ delivered[r] <= Taken(r) /\ Taken(r) <= accepted[r]
        /\ \A n \in Queued(r) : n \in Int /\ Taken(r) < n /\ n <= accepted[r]
  <2> SUFFICES ASSUME NEW r \in Producers
               PROVE  /\ accepted[r] \in Nat /\ sent[r] \in Nat /\ delivered[r] \in Nat
                      /\ Taken(r) \in Nat /\ accepted'[r] \in Nat /\ delivered'[r] \in Nat
                      /\ delivered[r] <= Taken(r) /\ Taken(r) <= accepted[r]
                      /\ \A n \in Queued(r) :
                           n \in Int /\ Taken(r) < n /\ n <= accepted[r]
    OBVIOUS
  <2>1. /\ accepted[r] \in Nat /\ sent[r] \in Nat /\ delivered[r] \in Nat
        /\ Taken(r) \in Nat
    BY <1>1, Numbers
  <2>2. accepted'[r] \in Nat /\ delivered'[r] \in Nat
    BY <1>1 DEF TypeOK
  <2>3. /\ delivered[r] <= Taken(r) /\ Taken(r) <= accepted[r]
        /\ \A n \in Queued(r) : n \in Taken(r)+1 .. accepted[r]
    BY <1>1 DEF OrderOf
  <2> QED BY <2>1, <2>2, <2>3
<1>4. ASSUME NEW r \in Producers, Taken(r)' \in Nat, delivered'[r] <= Taken(r)',
             Taken(r)' <= accepted'[r],
             \A n \in Queued(r)' : n \in Int /\ Taken(r)' < n /\ n <= accepted'[r]
      PROVE  OrderOf(r)'
  BY <1>3, <1>4 DEF OrderOf
<1>5. ASSUME NEW p \in Producers, Pushes(p) PROVE \A r \in Producers : OrderOf(r)'
  <2> TAKE r \in Producers
  <2>1. accepted[p] < sent[p]
    BY <1>5 DEF Pushes, IInv, SendInv
  <2>2. /\ Taken(r)' = Taken(r) /\ delivered'[r] = delivered[r]
        /\ accepted'[r] = IF r = p THEN sent[p] ELSE accepted[r]
    BY <1>5, PushEffect
  <2>3. PICK rest : /\ Queued(r)' = rest \cup IF r = p THEN {sent[p]} ELSE {}
                    /\ rest \subseteq Queued(r)
    BY <1>5, PushEffect
  <2>4. \A n \in Queued(r)' : n \in Int /\ Taken(r) < n /\ n <= accepted'[r]
    BY <1>3, <2>1, <2>2, <2>3
  <2> QED BY <1>3, <1>4, <2>1, <2>2, <2>4
<1>6. CASE \E p \in Producers : Pushes(p)
  BY <1>5, <1>6, PushEffect
<1>7. CASE Fetch
  <2>1. ASSUME NEW r \in Producers PROVE OrderOf(r)'
    <3>1. /\ accepted'[r] = accepted[r] /\ delivered'[r] = delivered[r]
          /\ \/ /\ Queued(r)' = Queued(r)
                /\ Taken(r)' = IF Target[r] = cur THEN delivered[r] ELSE Taken(r)
             \/ /\ Target[r] = cur /\ Taken(r)' \in Queued(r)
                /\ Queued(r) = Queued(r)' \cup {Taken(r)'}
                /\ \A n \in Queued(r)' : Taken(r)' < n
      BY <1>7, FetchEffect
    <3> QED BY <1>3, <1>4, <3>1
  <2> QED BY <1>7, <2>1, FetchEffect
<1>8. CASE Quiet \/ FetchNothing \/ FetchDisabled \/ Process
  <2>1. ASSUME NEW r \in Producers PROVE OrderOf(r)' /\ cached_buffers' = cached_buffers
    <3>1. /\ cached_buffers' = cached_buffers /\ accepted' = accepted
          /\ Queued(r)' = Queued(r)
          /\ \/ delivered'[r] = delivered[r] /\ Taken(r)' \in {Taken(r), delivered[r]}
             \/ delivered'[r] = Taken(r) /\ Taken(r)' = Taken(r)
      BY <1>8, OtherEffect
    <3> QED BY <1>3, <1>4, <3>1
  <2>2. Producers # {}
    OBVIOUS
  <2> QED BY <1>1, <2>1, <2>2
<1> QED BY <1>6, <1>7, <1>8, DataSteps

\* Nothing is lost where nothing is refused or evicted: the oldest queued
\* number is the one after the last that was taken.
LEMMA LossStep ==
  ASSUME IInv, FetchInv, NextInv, NextInv', InOrder, Lossless, Next
  PROVE  Lossless'
<1> SUFFICES ASSUME enable', NEW r \in Producers,
                    Mode[Target[r]] = "BLOCKING" \/ MaxCacheNum[Target[r]] = 0
             PROVE  /\ Queued(r)' = Taken(r)'+1 .. accepted'[r]
                    /\ ppc'[r] = "idle" => accepted'[r] = sent'[r]
  BY DEF Lossless
<1>1. TypeOK /\ enable
  <2>1. enable' => enable
    BY DEF Next, SendInput, ProducerLock, ProducerBody, Push, PushDropFront,
       PushAfterRoom, PushBack, DropCurrent, GiveUp, Drop, Block, BlockAgain,
       SleepAndUnlock, Peek, Detach, WorkerLock, WorkerBody, While, FetchNothing,
       Wait, FetchDisabled, Fetch, FetchAborts, Process, SpuriousWakeup, StopStart,
       StopLock, StopSlot, StopJoin, SetDisable
  <2> QED BY <2>1 DEF IInv
<1>2. ~Refusing(r)
  BY DEF Refusing
<1>3. ppc'[r] = "idle" => accepted'[r] = sent'[r]
  BY <1>2 DEF NextInv
<1>4. /\ Queued(r) = Taken(r)+1 .. accepted[r] /\ Taken(r) <= accepted[r]
      /\ accepted[r] \in Nat /\ sent[r] \in Nat /\ Taken(r) \in Nat
      /\ Target[r] \in Slots
      /\ in_vector[Target[r]] = Null => Taken(r) = delivered[r]
  BY <1>1, InOrderIs, Numbers DEF Lossless, OrderOf
<1>5. ASSUME NEW Q, NEW m, Queued(r) = Q \cup {m}, \A n \in Q : m < n
      PROVE  Q = m+1 .. accepted[r]
  <2>1. IsOldest(m, Q, Taken(r)+1 .. accepted[r])
    BY <1>4, <1>5 DEF IsOldest
  <2>2. Taken(r)+1 \in Int /\ accepted[r] \in Int
    BY <1>4
  <2> QED BY <2>1, <2>2, RunTail
<1>6. ASSUME NEW p \in Producers, Pushes(p)
      PROVE  Queued(r)' = Taken(r)'+1 .. accepted'[r]
  <2>1. /\ Taken(r)' = Taken(r)
        /\ accepted'[r] = IF r = p THEN sent[p] ELSE accepted[r]
    BY <1>6, PushEffect
  <2>2. Queued(r)' = Queued(r) \cup IF r = p THEN {sent[p]} ELSE {}
    BY <1>6, PushEffect
  <2>3. r = p => sent[p] = accepted[p] + 1
    BY <1>2, <1>6 DEF NextInv, Pushes
  <2> QED BY <1>4, <2>1, <2>2, <2>3, RunAppend
<1>7. CASE Fetch
  <2>1. Target[r] = cur => Taken(r) = delivered[r]
    <3>1. Fetching /\ \A s \in Slots : s \in Int
      BY <1>7 DEF Fetch, PastWait, Fetching, Slots
    <3> QED BY <1>1, <1>4, <3>1 DEF FetchInv, TypeOK
  <2>2. accepted'[r] = accepted[r]
    BY <1>7, FetchEffect
  <2>3. CASE Queued(r)' = Queued(r) /\ Taken(r)' = Taken(r)
    BY <1>3, <1>4, <2>2, <2>3
  <2>4. CASE /\ Taken(r)' \in Queued(r)
             /\ Queued(r) = Queued(r)' \cup {Taken(r)'}
             /\ \A n \in Queued(r)' : Taken(r)' < n
    <3>1. Queued(r)' = Taken(r)'+1 .. accepted[r]
      BY <1>5, <2>4
    <3> QED BY <1>3, <2>2, <3>1
  <2> QED BY <1>7, <2>1, <2>3, <2>4, FetchEffect
<1>8. CASE Quiet \/ Process
  BY <1>3, <1>4, <1>8, OtherEffect
<1>9. CASE FetchNothing
  <2>1. Target[r] = cur => Taken(r) = delivered[r]
    <3>1. Fetching /\ \A s \in Slots : s \in Int
      BY <1>9 DEF FetchNothing, Fetching, Slots
    <3> QED BY <1>1, <1>4, <3>1 DEF FetchInv, TypeOK
  <2>2. /\ delivered' = delivered
        /\ in_vector'[Target[r]] = IF Target[r] = cur THEN Null ELSE in_vector[Target[r]]
    BY <1>1, <1>4, <1>9 DEF FetchNothing, NextSlot, TypeOK, history
  <2>3. Taken(r)' = Taken(r)
    BY <2>1, <2>2 DEF Taken
  <2> QED BY <1>3, <1>4, <1>9, <2>3, OtherEffect
<1>10. CASE FetchDisabled
  BY <1>1, <1>10 DEF FetchDisabled
<1> QED BY <1>3, <1>6, <1>7, <1>8, <1>9, <1>10, DataSteps

\* What DROPFRONT evicts, and what is fetched, is the oldest.
LEMMA NewestStep ==
  ASSUME IInv, NextInv, NextInv', InOrder, NewestKept, Next
  PROVE  NewestKept'
<1> SUFFICES ASSUME NEW r \in Producers, Mode[Target[r]] = "DROPFRONT"
             PROVE  /\ \E oldest \in 0 .. accepted'[r] :
                         Queued(r)' = oldest+1 .. accepted'[r]
                    /\ enable' /\ ppc'[r] = "idle" => accepted'[r] = sent'[r]
  BY DEF NewestKept
<1>1. TypeOK /\ ~Refusing(r) /\ accepted[r] \in Nat /\ sent[r] \in Nat
  BY Numbers DEF IInv, Refusing
<1>2. enable' /\ ppc'[r] = "idle" => accepted'[r] = sent'[r]
  BY <1>1 DEF NextInv
<1>3. PICK oldest \in 0 .. accepted[r] : Queued(r) = oldest+1 .. accepted[r]
  BY DEF NewestKept
<1>4. ASSUME NEW Q, NEW m \in Queued(r), Queued(r) = Q \cup {m}, \A n \in Q : m < n
      PROVE  m \in 0 .. accepted[r] /\ Q = m+1 .. accepted[r]
  <2>1. oldest \in Int /\ accepted[r] \in Int /\ oldest >= 0
    BY <1>1
  <2>2. IsOldest(m, Q, oldest+1 .. accepted[r])
    BY <1>3, <1>4 DEF IsOldest
  <2>3. m = oldest + 1 /\ m <= accepted[r] /\ Q = m+1 .. accepted[r]
    BY <2>1, <2>2, RunTail
  <2> QED BY <2>1, <2>3
<1>5. ASSUME NEW p \in Producers, Pushes(p)
      PROVE  \E o \in 0 .. accepted'[r] : Queued(r)' = o+1 .. accepted'[r]
  <2>1. accepted'[r] = IF r = p THEN sent[p] ELSE accepted[r]
    BY <1>5, PushEffect
  <2>2. PICK rest :
          /\ Queued(r)' = rest \cup IF r = p THEN {sent[p]} ELSE {}
          /\ \/ rest = Queued(r)
             \/ \E m \in Queued(r) : /\ Queued(r) = rest \cup {m}
                                     /\ \A n \in rest : m < n
    BY <1>5, PushEffect
  <2>3. PICK o \in 0 .. accepted[r] : rest = o+1 .. accepted[r]
    BY <1>3, <1>4, <2>2
  <2>4. r = p => sent[p] = accepted[p] + 1
    BY <1>1, <1>5 DEF NextInv, Pushes
  <2>5. o \in 0 .. accepted'[r] /\ Queued(r)' = o+1 .. accepted'[r]
    BY <1>1, <2>1, <2>2, <2>3, <2>4, RunAppend
  <2> QED BY <2>5
<1>6. CASE Fetch
  <2>1. accepted'[r] = accepted[r]
    BY <1>6, FetchEffect
  <2>2. CASE Queued(r)' = Queued(r)
    BY <1>2, <1>3, <2>1, <2>2
  <2>3. CASE \E m \in Queued(r) : /\ Queued(r) = Queued(r)' \cup {m}
                                  /\ \A n \in Queued(r)' : m < n
    BY <1>2, <1>4, <2>1, <2>3
  <2> QED BY <1>6, <2>2, <2>3, FetchEffect
<1>7. CASE Quiet \/ FetchNothing \/ FetchDisabled \/ Process
  BY <1>2, <1>3, <1>7, OtherEffect
<1> QED BY <1>2, <1>5, <1>6, <1>7, DataSteps

-----------------------------------------------------------------------------
(* The theorems.                                                           *)

LEMMA DataInit == ASSUME Init PROVE DataInv
<1> USE DEF Init
<1>1. FetchInv
  BY DEF FetchInv, Fetching, WholeInputs, NoInput
<1>2. NextInv
  BY DEF NextInv
<1>3. OneInv
  <2>1. \A p \in Producers : cached_buffers[Target[p]] = << >> /\ ppc[p] = "idle"
    OBVIOUS
  <2> QED BY <2>1 DEF OneInv
<1>4. \A p \in Producers : Taken(p) = 0 /\ Queued(p) = {}
  BY DEF Taken, Queued, NoInput, Null
<1>5. \A s \in Slots : Increasing(cached_buffers[s])
  BY DEF Increasing
<1>6. InOrder
  BY <1>4, <1>5, InOrderIs DEF OrderOf
<1>7. Lossless /\ NewestKept
  <2>1. {} = 0+1 .. 0 /\ 0 \in 0 .. 0
    OBVIOUS
  <2>2. \A p \in Producers : accepted[p] = 0 /\ sent[p] = 0
    OBVIOUS
  <2> QED BY <1>4, <2>1, <2>2 DEF Lossless, NewestKept
<1>8. EmptyInv
  BY DEF EmptyInv
<1> QED BY <1>1, <1>2, <1>3, <1>6, <1>7, <1>8 DEF DataInv

LEMMA DataStutter == ASSUME DataInv, UNCHANGED vars PROVE DataInv'
<1> USE DEF vars, queueVars, producerVars, workerVars, stopperVars, history
<1>1. FetchInv' /\ NextInv' /\ OneInv' /\ EmptyInv'
  BY DEF DataInv, FetchInv, Fetching, WholeInputs, NextInv, OneInv, EmptyInv, Refusing,
     NoInput, ProducersOf
<1>2. ASSUME NEW p \in Producers PROVE Taken(p)' = Taken(p) /\ Queued(p)' = Queued(p)
  BY DEF Taken, Queued
<1>3. InOrder'
  BY <1>2 DEF DataInv, InOrder
<1>4. Lossless' /\ NewestKept'
  BY <1>2 DEF DataInv, Lossless, NewestKept
<1> QED BY <1>1, <1>3, <1>4 DEF DataInv

\* DataInv is inductive on top of IInv.
THEOREM DataInvariance == Spec => []DataInv
<1>1. Init => DataInv
  BY DataInit
<1>2. IInv /\ DataInv /\ [Next]_vars => DataInv'
  <2>1. ASSUME IInv, DataInv, Next PROVE DataInv'
    <3>1. FetchInv' /\ NextInv' /\ OneInv' /\ EmptyInv' /\ InOrder'
      BY <2>1, FetchStep, NextStep, OneStep, EmptyStep, OrderStep DEF DataInv
    <3>2. Lossless' /\ NewestKept'
      BY <2>1, <3>1, LossStep, NewestStep DEF DataInv
    <3> QED BY <3>1, <3>2 DEF DataInv
  <2> QED BY <2>1, DataStutter
<1> QED BY <1>1, <1>2, Invariance, PTL DEF Spec

\* Buffers of one producer are processed in the order they were sent in,
\* whatever the mode and however many share the slot.
THEOREM InOrderHolds == Spec => []InOrder
<1>1. DataInv => InOrder
  BY DEF DataInv
<1> QED BY <1>1, DataInvariance, PTL

\* A BLOCKING or unlimited slot of an enabled flow loses nothing, torn reads or
\* not.
THEOREM LosslessHolds == Spec => []Lossless
<1>1. DataInv => Lossless
  BY DEF DataInv
<1> QED BY <1>1, DataInvariance, PTL

\* A DROPFRONT slot gives up its oldest buffers only.
THEOREM NewestKeptHolds == Spec => []NewestKept
<1>1. DataInv => NewestKept
  BY DEF DataInv
<1> QED BY <1>1, DataInvariance, PTL

\* process() gets an input from every slot that blocks, or from none.
THEOREM WholeInputsHolds == Spec => []WholeInputs
<1>1. DataInv => WholeInputs
  BY DEF DataInv, FetchInv
<1> QED BY <1>1, DataInvariance, PTL

\* max_cache_num is exact when one producer feeds a slot, torn reads or not.
THEOREM OneProducerBoundHolds == Spec => []OneProducerBound
<1>1. IInv /\ DataInv => OneProducerBound
  <2> SUFFICES ASSUME IInv, DataInv, NEW s \in Slots, MaxCacheNum[s] > 0,
                      Cardinality(ProducersOf(s)) <= 1
               PROVE  Len(cached_buffers[s]) <= MaxCacheNum[s]
    BY DEF OneProducerBound
  <2>1. IsFiniteSet(ProducersOf(s)) /\ Cardinality(ProducersOf(s)) \in Nat
    BY PassedCard DEF ProducersOf
  <2>2. CASE Cardinality(ProducersOf(s)) = 1
    <3>1. PICK p : ProducersOf(s) = {p}
      BY <2>1, <2>2, FS_Singleton
    <3>2. p \in Producers /\ Target[p] = s
      BY <3>1 DEF ProducersOf
    <3> QED BY <3>1, <3>2 DEF DataInv, OneInv
  <2>3. CASE Cardinality(ProducersOf(s)) = 0
    <3>1. cached_buffers[s] = << >>
      BY <2>1, <2>3, FS_EmptySet DEF DataInv, EmptyInv
    <3> QED BY <3>1
  <2> QED BY <2>1, <2>2, <2>3
<1> QED BY <1>1, Invariance, DataInvariance, PTL
=============================================================================
