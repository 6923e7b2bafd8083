----------------------------- MODULE SourceProofs -----------------------------
(***************************************************************************)
(* What holds of a source flow of either kind for any set of down flows,   *)
(* any number of frames, repetitions and calls of the application: types,  *)
(* that a sleeping reader is woken, and who gets which frames.             *)
(***************************************************************************)
EXTENDS SourceFlow, SequenceTheorems, TLAPS

-----------------------------------------------------------------------------
(* Lists of down flows.                                                    *)

Listed(list) == {list[i] : i \in DOMAIN list}
Unique(list) == \A i, j \in DOMAIN list : list[i] = list[j] => i = j

\* An element less: the others stay, each once.
LEMMA WithoutLeaves ==
  ASSUME NEW S, NEW list \in Seq(S), Unique(list), NEW d
  PROVE  /\ Without(list, d) \in Seq(S) /\ Unique(Without(list, d))
         /\ Listed(Without(list, d)) = Listed(list) \ {d}
         /\ d \in Listed(list) => Len(Without(list, d)) = Len(list) - 1
<1> DEFINE at == {i \in DOMAIN list : list[i] = d}
<1>1. CASE at = {}
  <2>1. Without(list, d) = list
    BY <1>1 DEF Without
  <2>2. d \notin Listed(list)
    BY <1>1 DEF Listed
  <2> QED BY <2>1, <2>2
<1>2. CASE at # {}
  <2>1. PICK n \in at : n = CHOOSE i \in at : TRUE
    BY <1>2
  <2>2. Without(list, d) = RemoveAt(list, n)
    BY <1>2, <2>1 DEF Without
  <2>3. n \in 1..Len(list) /\ list[n] = d
    BY <2>1
  <2> DEFINE front == SubSeq(list, 1, n - 1)
             back  == SubSeq(list, n + 1, Len(list))
             r     == Without(list, d)
  <2>4. front \in Seq(S) /\ Len(front) = n - 1 /\ \A i \in 1..(n - 1) : front[i] = list[i]
    BY <2>3, SubSeqProperties
  <2>5. /\ back \in Seq(S) /\ Len(back) = Len(list) - n
        /\ \A i \in 1..(Len(list) - n) : back[i] = list[n + i]
    <3>1. CASE n < Len(list)
      <4>1. /\ back \in Seq(S) /\ Len(back) = Len(list) - (n + 1) + 1
            /\ \A i \in 1..(Len(list) - (n + 1) + 1) : back[i] = list[(n + 1) + i - 1]
        BY <2>3, <3>1, SubSeqProperties
      <4> HIDE DEF back
      <4> QED BY <2>3, <4>1
    <3>2. CASE n = Len(list)
      <4>1. back = << >>
        BY <2>3, <3>2, SubSeqEmpty
      <4> QED BY <2>3, <3>2, <4>1
    <3> QED BY <2>3, <3>1, <3>2
  <2>6. r = front \o back
    BY <2>2 DEF RemoveAt
  <2> HIDE DEF front, back, r
  <2>7. /\ r \in Seq(S) /\ Len(r) = Len(front) + Len(back)
        /\ \A i \in 1..Len(r) : r[i] = IF i <= Len(front) THEN front[i] ELSE back[i - Len(front)]
    <3>1. /\ front \o back \in Seq(S) /\ Len(front \o back) = Len(front) + Len(back)
          /\ \A i \in 1..Len(front) + Len(back) :
               (front \o back)[i] = IF i <= Len(front) THEN front[i] ELSE back[i - Len(front)]
      BY <2>4, <2>5, ConcatProperties
    <3> QED BY <2>6, <3>1, Zenon
  <2>8. Len(r) = Len(list) - 1
    BY <2>3, <2>4, <2>5, <2>7
  <2>9. \A i \in 1..Len(r) : r[i] = IF i < n THEN list[i] ELSE list[i + 1]
    <3>1. ASSUME NEW i \in 1..Len(r), i < n PROVE r[i] = list[i]
      BY <2>3, <2>4, <2>7, <3>1
    <3>2. ASSUME NEW i \in 1..Len(r), ~(i < n) PROVE r[i] = list[i + 1]
      <4>1. PICK j \in 1..(Len(list) - n) : i = n - 1 + j
        <5>1. i - (n - 1) \in 1..(Len(list) - n) /\ i = n - 1 + (i - (n - 1))
          BY <2>3, <2>8, <3>2
        <5> QED BY <5>1
      <4>2. r[i] = back[j] /\ back[j] = list[n + j]
        <5>1. ~(i <= Len(front)) /\ i - Len(front) = j
          BY <2>3, <2>4, <4>1
        <5>2. r[i] = back[i - Len(front)]
          BY <2>7, <5>1
        <5> QED BY <2>5, <5>1, <5>2
      <4>3. n + j = i + 1
        BY <2>3, <4>1
      <4> QED BY <4>2, <4>3
    <3> QED BY <3>1, <3>2
  <2>10. DOMAIN list = 1..Len(list) /\ DOMAIN r = 1..Len(r) /\ Len(r) \in Nat
    BY <2>7, LenProperties
  <2>11. Unique(r)
    <3> SUFFICES ASSUME NEW i \in DOMAIN r, NEW j \in DOMAIN r, r[i] = r[j] PROVE i = j
      BY DEF Unique
    <3>1. \A x \in DOMAIN r : \E k \in DOMAIN list :
            r[x] = list[k] /\ ((k = x /\ x < n) \/ (k = x + 1 /\ ~(x < n)))
      <4> SUFFICES ASSUME NEW x \in DOMAIN r
                   PROVE  \E k \in DOMAIN list :
                            r[x] = list[k] /\ ((k = x /\ x < n) \/ (k = x + 1 /\ ~(x < n)))
        OBVIOUS
      <4>1. x \in DOMAIN list /\ x + 1 \in DOMAIN list
        BY <2>3, <2>8, <2>10
      <4> QED BY <2>9, <2>10, <4>1
    <3>2. PICK k \in DOMAIN list : r[i] = list[k] /\ ((k = i /\ i < n) \/ (k = i + 1 /\ ~(i < n)))
      BY <3>1
    <3>3. PICK m \in DOMAIN list : r[j] = list[m] /\ ((m = j /\ j < n) \/ (m = j + 1 /\ ~(j < n)))
      BY <3>1
    <3>4. k = m
      BY <3>2, <3>3 DEF Unique
    <3> QED BY <2>3, <2>10, <3>2, <3>3, <3>4
  <2>12. ASSUME NEW x \in Listed(r) PROVE x \in Listed(list) \ {d}
    <3>1. PICK i \in 1..Len(r) : x = r[i]
      BY <2>10 DEF Listed
    <3>2. PICK k \in 1..Len(list) : k # n /\ x = list[k]
      BY <2>3, <2>8, <2>9, <3>1
    <3> QED BY <2>3, <2>10, <3>2 DEF Listed, Unique
  <2>13. ASSUME NEW x \in Listed(list), x # d PROVE x \in Listed(r)
    <3>1. PICK k \in 1..Len(list) : x = list[k]
      BY <2>10 DEF Listed
    <3>2. k # n
      BY <2>3, <2>13, <3>1
    <3>3. CASE k < n
      <4>1. k \in 1..Len(r) /\ r[k] = list[k]
        BY <2>3, <2>8, <2>9, <3>3
      <4> QED BY <2>10, <3>1, <4>1 DEF Listed
    <3>4. CASE k > n
      <4>1. PICK m \in 1..Len(r) : k = m + 1 /\ ~(m < n)
        <5>1. k - 1 \in 1..Len(r) /\ k = (k - 1) + 1 /\ ~(k - 1 < n)
          BY <2>3, <2>8, <3>4
        <5> QED BY <5>1
      <4>2. r[m] = list[k]
        BY <2>9, <4>1
      <4> QED BY <2>10, <3>1, <4>1, <4>2 DEF Listed
    <3> QED BY <2>3, <3>2, <3>3, <3>4
  <2>14. Listed(r) = Listed(list) \ {d}
    BY <2>12, <2>13
  <2> QED BY <2>7, <2>8, <2>11, <2>14 DEF r
<1> QED BY <1>1, <1>2

\* An element more.
LEMMA AppendListed ==
  ASSUME NEW S, NEW list \in Seq(S), Unique(list), NEW d \in S, d \notin Listed(list)
  PROVE  /\ Append(list, d) \in Seq(S) /\ Unique(Append(list, d))
         /\ Listed(Append(list, d)) = Listed(list) \cup {d}
<1> DEFINE r == Append(list, d)
<1>1. /\ r \in Seq(S) /\ Len(r) = Len(list) + 1
      /\ \A i \in 1..Len(list) : r[i] = list[i]
      /\ r[Len(list) + 1] = d
  BY AppendProperties
<1>2. DOMAIN list = 1..Len(list) /\ DOMAIN r = 1..(Len(list) + 1) /\ Len(list) \in Nat
  BY <1>1, LenProperties
<1> HIDE DEF r
<1>3. \A i \in DOMAIN r : i \in DOMAIN list \/ i = Len(list) + 1
  BY <1>2
<1>4. Unique(r)
  BY <1>1, <1>2, <1>3 DEF Unique, Listed
<1>5. Listed(r) = Listed(list) \cup {d}
  BY <1>1, <1>2, <1>3 DEF Listed
<1> QED BY <1>1, <1>4, <1>5 DEF r

\* The first element is not among the others.
LEMMA TailListed ==
  ASSUME NEW S, NEW list \in Seq(S), Unique(list), list # << >>
  PROVE  /\ Tail(list) \in Seq(S) /\ Unique(Tail(list)) /\ Head(list) \in S
         /\ Head(list) \notin Listed(Tail(list))
         /\ Listed(list) = Listed(Tail(list)) \cup {Head(list)}
<1> DEFINE t == Tail(list)
           h == Head(list)
<1>1. /\ h \in S /\ h = list[1] /\ t \in Seq(S) /\ Len(t) = Len(list) - 1
      /\ \A i \in 1..Len(t) : t[i] = list[i + 1]
  BY HeadTailProperties
<1>2. /\ DOMAIN list = 1..Len(list) /\ DOMAIN t = 1..Len(t)
      /\ Len(list) \in Nat /\ Len(list) # 0 /\ Len(t) \in Nat
  BY <1>1, LenProperties, EmptySeq
<1> HIDE DEF t, h
<1>3. \A i \in DOMAIN t : i + 1 \in DOMAIN list /\ t[i] = list[i + 1] /\ i + 1 # 1
  BY <1>1, <1>2
<1>4. \A k \in DOMAIN list : k = 1 \/ \E i \in DOMAIN t : k = i + 1
  <2> SUFFICES ASSUME NEW k \in DOMAIN list, k # 1 PROVE \E i \in DOMAIN t : k = i + 1
    OBVIOUS
  <2>1. k - 1 \in DOMAIN t /\ k = (k - 1) + 1
    BY <1>1, <1>2
  <2> QED BY <2>1
<1>5. 1 \in DOMAIN list
  BY <1>2
<1>6. Unique(t)
  <2> SUFFICES ASSUME NEW i \in DOMAIN t, NEW j \in DOMAIN t, t[i] = t[j] PROVE i = j
    BY DEF Unique
  <2>1. i + 1 = j + 1
    BY <1>3 DEF Unique
  <2> QED BY <1>2, <2>1
<1>7. h \notin Listed(t)
  BY <1>1, <1>3, <1>5 DEF Listed, Unique
<1>8. Listed(list) = Listed(t) \cup {h}
  <2>1. ASSUME NEW x \in Listed(list) PROVE x \in Listed(t) \cup {h}
    BY <1>1, <1>3, <1>4 DEF Listed
  <2>2. ASSUME NEW x \in Listed(t) \cup {h} PROVE x \in Listed(list)
    BY <1>1, <1>3, <1>5 DEF Listed
  <2> QED BY <2>1, <2>2
<1> QED BY <1>1, <1>6, <1>7, <1>8 DEF t, h

-----------------------------------------------------------------------------
(* The invariant.                                                          *)

\* The application has not begun to destroy the flow.
Early == apc \in {"idle", "added", "removed"}

\* The frames read when the round of a file ends in which loop_time is l.
End(l) == NumFrames * (Loops - l + 1)

\* How far the file has been read.
ReadInv ==
  /\ rpc # "exit" => loop_time >= 0
  /\ loop_time >= 0 => pos <= End(loop_time)
  /\ rpc = "read" => pos < End(loop_time)

\* What AddDownFlow and RemoveDownFlow have counted, and will.
CountInv ==
  /\ down_flow_num <= attaches
  /\ apc = "added" => down_flow_num < attaches
  /\ apc = "removed" => down_flow_num > -MaxAttach

\* Only RunOnce serves a copy of the list; only the destructor, and the reader
\* when it ends, disable the flow.
ThreadInv ==
  /\ rpc # "down" => todo = << >>
  /\ ~enable /\ rpc # "exit" => ~Early

\* The count is not below the number of flows, while only attached ones have been
\* removed; the reader sleeps only on a count of zero.
SleepInv ==
  /\ proper => Len(flows) <= (IF apc = "added" THEN down_flow_num + 1
                             ELSE IF apc = "removed" THEN down_flow_num - 1
                             ELSE down_flow_num)
  /\ rpc = "waiting" => down_flow_num = 0
  /\ rpc = "waiting" /\ kind = "source_stream" /\ ~enable => apc \in {"ioctl", "notify"}

\* A flow is in a list once; one that got its late frame is not to be served.
ListInv ==
  /\ Unique(flows) /\ Unique(todo)
  /\ \A d \in Down :
       /\ d \in Attached => late[d] = 0
       /\ late[d] = 0 \/ (late[d] = 1 /\ d \notin Listed(todo))

\* The frame under way is the last one read; flow d has yet to get it.
Pending(d) ==
  \/ rpc \in {"send", "process"} /\ frame # Null
  \/ rpc = "copy" /\ out # Null
  \/ rpc = "down" /\ out # Null /\ d \in Listed(todo)

\* The flow was disabled by its destructor and nothing more goes down.
Deaf == ~enable /\ ~Early /\ (rpc \in {"copy", "down"} => out = Null)

\* A down flow that stayed attached has got every frame but the one under way.
StepInv ==
  /\ steady \subseteq Attached
  /\ rpc \in {"send", "process"} => frame \in {Null, pos}
  /\ rpc \in {"copy", "down"} => out \in {Null, pos}
  /\ \A d \in steady :
       received[d] = (IF Pending(d) THEN pos - 1 ELSE pos) \/ Deaf

IInv == TypeOK /\ ReadInv /\ CountInv /\ ThreadInv /\ SleepInv /\ ListInv /\ StepInv

-----------------------------------------------------------------------------
(* The numbers.                                                            *)

\* The rounds of a file are of the same length, and their number is known.
LEMMA Rounds ==
  ASSUME NEW l \in 0..Loops
  PROVE  /\ Loops \in Nat /\ MaxFrames \in Nat /\ End(l) \in Nat /\ End(l) <= MaxFrames
         /\ l > 0 => End(l - 1) = End(l) + NumFrames
         /\ NumFrames \in Nat /\ NumFrames > 0
<1>1. Loops \in Nat /\ NumFrames \in Nat /\ NumFrames > 0
  BY FramesAssumption DEF Loops
<1>2. \A n, m \in Nat : n * m \in Nat /\ n * (m + 1) = n * m + n
  OBVIOUS
<1>3. MaxFrames = NumFrames * (Loops + 1) /\ MaxFrames \in Nat
  <2>1. Loops + 1 \in Nat
    BY <1>1
  <2> QED BY <1>1, <1>2, <2>1 DEF MaxFrames
<1>4. PICK k \in Nat, m \in Nat : k = Loops - l /\ m = l /\ Loops = k + m
  <2>1. Loops - l \in Nat /\ l \in Nat /\ Loops = (Loops - l) + l
    BY <1>1
  <2> QED BY <2>1
<1>5. k + 1 \in Nat /\ End(l) = NumFrames * (k + 1)
  BY <1>4 DEF End
<1>6. End(l) \in Nat
  BY <1>1, <1>2, <1>5
<1>7. End(l) <= MaxFrames
  <2>1. \A n, a, b \in Nat : n * (a + b) = n * a + n * b
    OBVIOUS
  <2>2. Loops + 1 = (k + 1) + m
    BY <1>4, <1>5
  <2>3. MaxFrames = NumFrames * (k + 1) + NumFrames * m
    BY <1>1, <1>3, <1>4, <1>5, <2>1, <2>2
  <2>4. NumFrames * m \in Nat
    BY <1>1, <1>2, <1>4
  <2> HIDE DEF End
  <2> QED BY <1>5, <1>6, <2>3, <2>4
<1>8. l > 0 => End(l - 1) = End(l) + NumFrames
  <2>1. Loops - (l - 1) + 1 = (k + 1) + 1
    BY <1>1, <1>4
  <2>2. End(l - 1) = NumFrames * ((k + 1) + 1)
    BY <2>1 DEF End
  <2> QED BY <1>1, <1>2, <1>5, <2>2
<1> QED BY <1>1, <1>3, <1>6, <1>7, <1>8

-----------------------------------------------------------------------------
(* The steps.                                                              *)

\* Every step keeps the types.
LEMMA TypeStep ==
  ASSUME IInv, [Next]_vars PROVE TypeOK'
<1>1. CASE ReaderStart
  BY <1>1 DEF ReaderStart, IInv, TypeOK, MaxFrames, Loops, streamVars, sendVars, history
<1>2. CASE ReaderLoop
  BY <1>2 DEF ReaderLoop, IInv, TypeOK, MaxFrames, Loops, streamVars, sendVars, history
<1>3. CASE ReaderEof
  <2>1. loop_time \in 0..Loops /\ Loops \in Nat
    <3>1. Loops \in Nat
      BY FramesAssumption DEF Loops
    <3>2. loop_time \in -1..Loops /\ loop_time >= 0
      BY <1>3 DEF IInv, TypeOK, ReadInv, ReaderEof
    <3> QED BY <3>1, <3>2
  <2>2. loop_time' \in -1..Loops /\ Loops' = Loops /\ kind' = kind
    <3>1. loop_time' = loop_time \/ loop_time' = loop_time - 1
      BY <1>3 DEF ReaderEof
    <3>2. kind' = kind /\ Loops' = Loops
      BY <1>3 DEF ReaderEof, Loops
    <3> QED BY <2>1, <3>1, <3>2
  <2>3. enable' \in BOOLEAN /\ rpc' \in {"read", "exit"}
    BY <1>3 DEF IInv, TypeOK, ReaderEof
  <2> QED BY <1>3, <2>2, <2>3 DEF IInv, TypeOK, ReaderEof, MaxFrames, sendVars, history
<1>4. CASE ReaderRead
  <2>1. loop_time \in 0..Loops /\ pos \in Nat /\ pos < End(loop_time)
    <3>1. Loops \in Nat /\ MaxFrames \in Nat
      BY Rounds, FramesAssumption DEF Loops
    <3>2. loop_time \in -1..Loops /\ loop_time >= 0
      BY <1>4 DEF IInv, TypeOK, ReadInv, ReaderRead
    <3>3. pos \in 0..MaxFrames /\ pos < End(loop_time)
      BY <1>4 DEF IInv, TypeOK, ReadInv, ReaderRead
    <3> QED BY <3>1, <3>2, <3>3
  <2>2. pos + 1 \in 0..MaxFrames
    <3> HIDE DEF End, MaxFrames
    <3> QED BY <2>1, Rounds
  <2>3. MaxFrames' = MaxFrames /\ Loops' = Loops
    BY <1>4 DEF ReaderRead, MaxFrames, Loops
  <2>4. pos' \in 0..MaxFrames' /\ frame' \in 0..MaxFrames'
    BY <1>4, <2>2, <2>3 DEF ReaderRead
  <2> QED BY <1>4, <2>3, <2>4 DEF IInv, TypeOK, ReaderRead, sendVars, history
<1>5. CASE ReaderReadsNull
  <2>1. MaxFrames' = MaxFrames /\ Loops' = Loops
    BY <1>5 DEF ReaderReadsNull, MaxFrames, Loops
  <2>2. frame' \in 0..MaxFrames'
    <3>1. MaxFrames \in Nat /\ 0 \in 0..MaxFrames
      <4>1. Loops \in Nat /\ 0 \in 0..Loops
        BY FramesAssumption DEF Loops
      <4>2. MaxFrames \in Nat
        BY <4>1, Rounds
      <4> QED BY <4>2
    <3> QED BY <1>5, <2>1, <3>1 DEF ReaderReadsNull, Null
  <2> QED BY <1>5, <2>1, <2>2 DEF IInv, TypeOK, ReaderReadsNull, sendVars, history
<1>6. CASE ReaderNoMemory
  BY <1>6 DEF ReaderNoMemory, IInv, TypeOK, MaxFrames, Loops, streamVars, sendVars, history
<1>7. CASE ReaderFails
  BY <1>7 DEF ReaderFails, IInv, TypeOK, MaxFrames, Loops, streamVars, sendVars, history
<1>8. CASE ReaderSend
  BY <1>8 DEF ReaderSend, IInv, TypeOK, MaxFrames, Loops, streamVars, sendVars, history
<1>9. CASE ReaderProcess
  <2>1. MaxFrames' = MaxFrames /\ Loops' = Loops
    BY <1>9 DEF ReaderProcess, MaxFrames, Loops, streamVars
  <2>2. out' \in 0..MaxFrames'
    <3>1. MaxFrames \in Nat /\ 0 \in 0..MaxFrames
      <4>1. Loops \in Nat /\ 0 \in 0..Loops
        BY FramesAssumption DEF Loops
      <4>2. MaxFrames \in Nat
        BY <4>1, Rounds
      <4> QED BY <4>2
    <3> QED BY <1>9, <2>1, <3>1 DEF ReaderProcess, Null, IInv, TypeOK
  <2> QED BY <1>9, <2>1, <2>2 DEF IInv, TypeOK, ReaderProcess, streamVars, history
<1>10. CASE ReaderCopy
  BY <1>10 DEF ReaderCopy, IInv, TypeOK, MaxFrames, Loops, streamVars, sendVars, history
<1>11. CASE ReaderSendDown
  <2>1. todo' \in Seq(Down) /\ Head(todo) \in Down
    BY <1>11, TailListed DEF IInv, TypeOK, ListInv, ReaderSendDown
  <2>2. MaxFrames' = MaxFrames /\ Loops' = Loops
    BY <1>11 DEF ReaderSendDown, MaxFrames, Loops, streamVars
  <2>3. /\ received' \in [Down -> 0..MaxFrames] /\ steady' \subseteq Down
        /\ proper' \in BOOLEAN /\ late' \in [Down -> Nat]
    <3> DEFINE h == Head(todo)
    <3>1. /\ received \in [Down -> 0..MaxFrames] /\ steady \subseteq Down
          /\ proper \in BOOLEAN /\ late \in [Down -> Nat] /\ out \in 0..MaxFrames
      BY DEF IInv, TypeOK
    <3>2. CASE out = Null
      BY <1>11, <3>1, <3>2 DEF ReaderSendDown, history
    <3>3. CASE out # Null
      <4>1. /\ received' = [received EXCEPT ![h] = out]
            /\ steady' = (IF h \in Attached THEN steady \cup {h} ELSE steady)
            /\ late' = (IF h \in Attached THEN late ELSE [late EXCEPT ![h] = @ + 1])
            /\ proper' = proper
        BY <1>11, <3>3 DEF ReaderSendDown
      <4>2. h \in Down /\ late[h] + 1 \in Nat
        BY <2>1, <3>1
      <4> HIDE DEF h, MaxFrames
      <4>3. received' \in [Down -> 0..MaxFrames]
        BY <3>1, <4>1
      <4>4. late' \in [Down -> Nat]
        BY <3>1, <4>1, <4>2
      <4>5. steady' \subseteq Down
        BY <3>1, <4>1, <4>2
      <4> QED BY <3>1, <4>1, <4>3, <4>4, <4>5
    <3> QED BY <3>2, <3>3
  <2> QED BY <1>11, <2>1, <2>2, <2>3 DEF IInv, TypeOK, ReaderSendDown, streamVars
<1>12. CASE ReaderSentDown
  BY <1>12 DEF ReaderSentDown, IInv, TypeOK, MaxFrames, Loops, streamVars, sendVars, history
<1>13. CASE Destroy
  BY <1>13 DEF Destroy, IInv, TypeOK, MaxFrames, Loops, streamVars, sendVars, history
<1>14. CASE CountAdded
  <2>1. down_flow_num' \in -MaxAttach..MaxAttach
    <3>1. /\ down_flow_num \in -MaxAttach..MaxAttach /\ attaches \in 0..MaxAttach
          /\ down_flow_num < attaches /\ down_flow_num' = down_flow_num + 1
      BY <1>14 DEF IInv, TypeOK, CountInv, CountAdded
    <3> QED BY <3>1, MaxAttachAssumption
  <2> QED BY <1>14, <2>1 DEF IInv, TypeOK, CountAdded, WakeReader, MaxFrames, Loops, streamVars, sendVars, history
<1>15. CASE CountRemoved
  <2>1. down_flow_num' \in -MaxAttach..MaxAttach
    <3>1. /\ down_flow_num \in -MaxAttach..MaxAttach /\ down_flow_num > -MaxAttach
          /\ down_flow_num' = down_flow_num - 1
      BY <1>15 DEF IInv, TypeOK, CountInv, CountRemoved
    <3> QED BY <3>1, MaxAttachAssumption
  <2> QED BY <1>15, <2>1 DEF IInv, TypeOK, CountRemoved, WakeReader, MaxFrames, Loops, streamVars, sendVars, history
<1>16. CASE DestroyStop
  BY <1>16 DEF DestroyStop, IInv, TypeOK, MaxFrames, Loops, streamVars, sendVars, history
<1>17. CASE DestroyIoCtrl
  BY <1>17 DEF DestroyIoCtrl, IInv, TypeOK, MaxFrames, Loops, streamVars, sendVars, history
<1>18. CASE DestroyNotify
  BY <1>18 DEF DestroyNotify, IInv, TypeOK, MaxFrames, Loops, streamVars, sendVars, history, WakeReader
<1>19. CASE DestroyJoin
  BY <1>19 DEF DestroyJoin, IInv, TypeOK, MaxFrames, Loops, streamVars, sendVars, history
<1>20. CASE UNCHANGED vars
  BY <1>20 DEF vars, IInv, TypeOK, MaxFrames, Loops, streamVars, sendVars, history
<1>21. ASSUME NEW d \in Down, AddFlow(d) PROVE TypeOK'
  <2>1. flows' \in Seq(Down)
    BY <1>21 DEF IInv, TypeOK, AddFlow
  <2>2. attaches' \in 0..MaxAttach
    <3>1. attaches \in 0..MaxAttach /\ attaches < MaxAttach /\ attaches' = attaches + 1
      BY <1>21 DEF IInv, TypeOK, AddFlow
    <3> QED BY <3>1, MaxAttachAssumption
  <2>3. late' \in [Down -> Nat]
    BY <1>21 DEF IInv, TypeOK, AddFlow
  <2> QED BY <1>21, <2>1, <2>2, <2>3 DEF IInv, TypeOK, AddFlow, MaxFrames, Loops, streamVars, sendVars
<1>22. ASSUME NEW d \in Down, RemoveFlow(d) PROVE TypeOK'
  <2>1. flows' \in Seq(Down)
    BY <1>22, WithoutLeaves DEF IInv, TypeOK, ListInv, RemoveFlow
  <2>2. proper' \in BOOLEAN /\ steady' \subseteq Down
    BY <1>22 DEF IInv, TypeOK, RemoveFlow
  <2> QED BY <1>22, <2>1, <2>2 DEF IInv, TypeOK, RemoveFlow, MaxFrames, Loops, streamVars, sendVars
<1> QED
    BY <1>1, <1>2, <1>3, <1>4, <1>5, <1>6, <1>7, <1>8, <1>9, <1>10, <1>11,
       <1>12, <1>13, <1>14, <1>15, <1>16, <1>17, <1>18, <1>19, <1>20, <1>21,
       <1>22
    DEF Next, Reader, Application

\* Steps that read nothing.
LEMMA ReadKept ==
  ASSUME ReadInv, UNCHANGED <<kind, pos, loop_time>>,
         rpc' = "read" => rpc = "read", rpc = "exit" => rpc' = "exit"
  PROVE  ReadInv'
<1>1. \A l : End(l)' = NumFrames * (Loops' - l + 1) /\ Loops' = Loops
  BY DEF End, Loops
<1>2. End(loop_time)' = End(loop_time)
  BY DEF End, Loops
<1> HIDE DEF End
<1> QED BY <1>2 DEF ReadInv

\* Every step keeps what is known of the file.
LEMMA ReadStep ==
  ASSUME IInv, [Next]_vars PROVE ReadInv'
<1>1. CASE ReaderStart
  <2>1. /\ UNCHANGED <<kind, pos, loop_time>>
        /\ rpc' = "read" => rpc = "read"
        /\ rpc = "exit" => rpc' = "exit"
    BY <1>1 DEF ReaderStart, streamVars, sendVars, history, WakeReader
  <2> QED BY <2>1, ReadKept DEF IInv
<1>2. CASE ReaderLoop
  <2>1. /\ UNCHANGED <<kind, pos, loop_time>>
        /\ rpc' = "read" => rpc = "read"
        /\ rpc = "exit" => rpc' = "exit"
    BY <1>2 DEF ReaderLoop, streamVars, sendVars, history, WakeReader
  <2> QED BY <2>1, ReadKept DEF IInv
<1>3. CASE ReaderEof
  <2>1. loop_time \in 0..Loops /\ pos \in Nat /\ pos <= End(loop_time)
    <3>1. Loops \in Nat
      BY FramesAssumption DEF Loops
    <3>2. loop_time \in -1..Loops /\ loop_time >= 0 /\ pos \in 0..MaxFrames /\ pos <= End(loop_time)
      BY <1>3 DEF IInv, TypeOK, ReadInv, ReaderEof
    <3>3. MaxFrames \in Nat
      <4>1. 0 \in 0..Loops
        BY <3>1
      <4> QED BY <4>1, Rounds
    <3> HIDE DEF End, MaxFrames
    <3> QED BY <3>1, <3>2, <3>3
  <2>2. pos' = pos /\ kind' = kind /\ Loops' = Loops
    BY <1>3 DEF ReaderEof, Loops
  <2>3. AtEof <=> pos = End(loop_time)
    BY DEF AtEof, End
  <2>4. /\ End(loop_time) \in Nat
        /\ loop_time > 0 => End(loop_time - 1) = End(loop_time) + NumFrames
        /\ NumFrames \in Nat /\ NumFrames > 0
    BY <2>1, Rounds
  <2>5. CASE ~AtEof
    <3>1. rpc' = "read" /\ loop_time' = loop_time
      BY <1>3, <2>5 DEF ReaderEof
    <3>2. End(loop_time)' = End(loop_time)
      BY <2>2, <3>1 DEF End
    <3> HIDE DEF End
    <3> QED BY <2>1, <2>2, <2>3, <2>4, <2>5, <3>1, <3>2 DEF ReadInv
  <2>6. CASE AtEof /\ kind = "file_read" /\ loop_time > 0
    <3>1. rpc' = "read" /\ loop_time' = loop_time - 1
      BY <1>3, <2>6 DEF ReaderEof
    <3>2. End(loop_time)' = End(loop_time - 1)
      BY <2>2, <3>1 DEF End
    <3> HIDE DEF End
    <3> QED BY <2>1, <2>2, <2>3, <2>4, <2>6, <3>1, <3>2 DEF ReadInv
  <2>7. CASE AtEof /\ kind = "file_read" /\ ~(loop_time > 0)
    <3>1. rpc' = "exit" /\ loop_time' = -1
      BY <1>3, <2>1, <2>7 DEF ReaderEof
    <3> QED BY <3>1 DEF ReadInv
  <2>8. CASE AtEof /\ kind # "file_read"
    <3>1. rpc' = "exit" /\ loop_time' = loop_time
      BY <1>3, <2>8 DEF ReaderEof
    <3>2. End(loop_time)' = End(loop_time)
      BY <2>2, <3>1 DEF End
    <3> HIDE DEF End
    <3> QED BY <2>1, <2>2, <3>1, <3>2 DEF ReadInv
  <2> QED BY <2>5, <2>6, <2>7, <2>8
<1>4. CASE ReaderRead
  <2>1. loop_time \in 0..Loops /\ pos \in Nat /\ pos <= End(loop_time)
    <3>1. Loops \in Nat
      BY FramesAssumption DEF Loops
    <3>2. loop_time \in -1..Loops /\ loop_time >= 0 /\ pos \in 0..MaxFrames /\ pos <= End(loop_time)
      BY <1>4 DEF IInv, TypeOK, ReadInv, ReaderRead
    <3>3. MaxFrames \in Nat
      <4>1. 0 \in 0..Loops
        BY <3>1
      <4> QED BY <4>1, Rounds
    <3> HIDE DEF End, MaxFrames
    <3> QED BY <3>1, <3>2, <3>3
  <2>2. pos' = pos + 1 /\ Loops' = Loops /\ loop_time' = loop_time /\ rpc' = "send"
    BY <1>4 DEF ReaderRead, Loops
  <2>3. End(loop_time)' = End(loop_time)
    BY <2>2 DEF End
  <2>4. pos < End(loop_time)
    BY <1>4 DEF IInv, ReadInv, ReaderRead
  <2>5. End(loop_time) \in Nat
    BY <2>1, Rounds
  <2> HIDE DEF End
  <2> QED BY <2>1, <2>2, <2>3, <2>4, <2>5 DEF ReadInv
<1>5. CASE ReaderReadsNull
  <2>1. /\ UNCHANGED <<kind, pos, loop_time>>
        /\ rpc' = "read" => rpc = "read"
        /\ rpc = "exit" => rpc' = "exit"
    BY <1>5 DEF ReaderReadsNull, streamVars, sendVars, history, WakeReader
  <2> QED BY <2>1, ReadKept DEF IInv
<1>6. CASE ReaderNoMemory
  <2>1. /\ UNCHANGED <<kind, pos, loop_time>>
        /\ rpc' = "read" => rpc = "read"
        /\ rpc = "exit" => rpc' = "exit"
    BY <1>6 DEF ReaderNoMemory, streamVars, sendVars, history, WakeReader
  <2> QED BY <2>1, ReadKept DEF IInv
<1>7. CASE ReaderFails
  <2>1. /\ UNCHANGED <<kind, pos, loop_time>>
        /\ rpc' = "read" => rpc = "read"
        /\ rpc = "exit" => rpc' = "exit"
    BY <1>7 DEF ReaderFails, streamVars, sendVars, history, WakeReader
  <2> QED BY <2>1, ReadKept DEF IInv
<1>8. CASE ReaderSend
  <2>1. /\ UNCHANGED <<kind, pos, loop_time>>
        /\ rpc' = "read" => rpc = "read"
        /\ rpc = "exit" => rpc' = "exit"
    BY <1>8 DEF ReaderSend, streamVars, sendVars, history, WakeReader
  <2> QED BY <2>1, ReadKept DEF IInv
<1>9. CASE ReaderProcess
  <2>1. /\ UNCHANGED <<kind, pos, loop_time>>
        /\ rpc' = "read" => rpc = "read"
        /\ rpc = "exit" => rpc' = "exit"
    BY <1>9 DEF ReaderProcess, streamVars, sendVars, history, WakeReader
  <2> QED BY <2>1, ReadKept DEF IInv
<1>10. CASE ReaderCopy
  <2>1. /\ UNCHANGED <<kind, pos, loop_time>>
        /\ rpc' = "read" => rpc = "read"
        /\ rpc = "exit" => rpc' = "exit"
    BY <1>10 DEF ReaderCopy, streamVars, sendVars, history, WakeReader
  <2> QED BY <2>1, ReadKept DEF IInv
<1>11. CASE ReaderSendDown
  <2>1. /\ UNCHANGED <<kind, pos, loop_time>>
        /\ rpc' = "read" => rpc = "read"
        /\ rpc = "exit" => rpc' = "exit"
    BY <1>11 DEF ReaderSendDown, streamVars, sendVars, history, WakeReader
  <2> QED BY <2>1, ReadKept DEF IInv
<1>12. CASE ReaderSentDown
  <2>1. /\ UNCHANGED <<kind, pos, loop_time>>
        /\ rpc' = "read" => rpc = "read"
        /\ rpc = "exit" => rpc' = "exit"
    BY <1>12 DEF ReaderSentDown, streamVars, sendVars, history, WakeReader
  <2> QED BY <2>1, ReadKept DEF IInv
<1>13. CASE Destroy
  <2>1. /\ UNCHANGED <<kind, pos, loop_time>>
        /\ rpc' = "read" => rpc = "read"
        /\ rpc = "exit" => rpc' = "exit"
    BY <1>13 DEF Destroy, streamVars, sendVars, history, WakeReader
  <2> QED BY <2>1, ReadKept DEF IInv
<1>14. CASE CountAdded
  <2>1. /\ UNCHANGED <<kind, pos, loop_time>>
        /\ rpc' = "read" => rpc = "read"
        /\ rpc = "exit" => rpc' = "exit"
    BY <1>14 DEF CountAdded, streamVars, sendVars, history, WakeReader
  <2> QED BY <2>1, ReadKept DEF IInv
<1>15. CASE CountRemoved
  <2>1. /\ UNCHANGED <<kind, pos, loop_time>>
        /\ rpc' = "read" => rpc = "read"
        /\ rpc = "exit" => rpc' = "exit"
    BY <1>15 DEF CountRemoved, streamVars, sendVars, history, WakeReader
  <2> QED BY <2>1, ReadKept DEF IInv
<1>16. CASE DestroyStop
  <2>1. /\ UNCHANGED <<kind, pos, loop_time>>
        /\ rpc' = "read" => rpc = "read"
        /\ rpc = "exit" => rpc' = "exit"
    BY <1>16 DEF DestroyStop, streamVars, sendVars, history, WakeReader
  <2> QED BY <2>1, ReadKept DEF IInv
<1>17. CASE DestroyIoCtrl
  <2>1. /\ UNCHANGED <<kind, pos, loop_time>>
        /\ rpc' = "read" => rpc = "read"
        /\ rpc = "exit" => rpc' = "exit"
    BY <1>17 DEF DestroyIoCtrl, streamVars, sendVars, history, WakeReader
  <2> QED BY <2>1, ReadKept DEF IInv
<1>18. CASE DestroyNotify
  <2>1. /\ UNCHANGED <<kind, pos, loop_time>>
        /\ rpc' = "read" => rpc = "read"
        /\ rpc = "exit" => rpc' = "exit"
    BY <1>18 DEF DestroyNotify, streamVars, sendVars, history, WakeReader
  <2> QED BY <2>1, ReadKept DEF IInv
<1>19. CASE DestroyJoin
  <2>1. /\ UNCHANGED <<kind, pos, loop_time>>
        /\ rpc' = "read" => rpc = "read"
        /\ rpc = "exit" => rpc' = "exit"
    BY <1>19 DEF DestroyJoin, streamVars, sendVars, history, WakeReader
  <2> QED BY <2>1, ReadKept DEF IInv
<1>20. CASE UNCHANGED vars
  <2>1. /\ UNCHANGED <<kind, pos, loop_time>>
        /\ rpc' = "read" => rpc = "read"
        /\ rpc = "exit" => rpc' = "exit"
    BY <1>20 DEF vars, streamVars, sendVars, history, WakeReader
  <2> QED BY <2>1, ReadKept DEF IInv
<1>21. ASSUME NEW d \in Down, AddFlow(d) PROVE ReadInv'
  <2>1. /\ UNCHANGED <<kind, pos, loop_time>>
        /\ rpc' = "read" => rpc = "read"
        /\ rpc = "exit" => rpc' = "exit"
    BY <1>21 DEF AddFlow, streamVars
  <2> QED BY <2>1, ReadKept DEF IInv
<1>22. ASSUME NEW d \in Down, RemoveFlow(d) PROVE ReadInv'
  <2>1. /\ UNCHANGED <<kind, pos, loop_time>>
        /\ rpc' = "read" => rpc = "read"
        /\ rpc = "exit" => rpc' = "exit"
    BY <1>22 DEF RemoveFlow, streamVars
  <2> QED BY <2>1, ReadKept DEF IInv
<1> QED
    BY <1>1, <1>2, <1>3, <1>4, <1>5, <1>6, <1>7, <1>8, <1>9, <1>10, <1>11,
       <1>12, <1>13, <1>14, <1>15, <1>16, <1>17, <1>18, <1>19, <1>20, <1>21,
       <1>22
    DEF Next, Reader, Application

\* Steps that count nothing.
LEMMA CountKept ==
  ASSUME CountInv, UNCHANGED <<down_flow_num, attaches>>, apc' \in {"added", "removed"} => apc' = apc
  PROVE  CountInv'
BY DEF CountInv

\* Every step keeps what is known of the counts.
LEMMA CountStep ==
  ASSUME IInv, [Next]_vars PROVE CountInv'
<1>1. CASE ReaderStart
  <2>1. UNCHANGED <<down_flow_num, attaches>> /\ (apc' \in {"added", "removed"} => apc' = apc)
    BY <1>1 DEF ReaderStart, streamVars, sendVars, history
  <2> QED BY <2>1, CountKept DEF IInv
<1>2. CASE ReaderLoop
  <2>1. UNCHANGED <<down_flow_num, attaches>> /\ (apc' \in {"added", "removed"} => apc' = apc)
    BY <1>2 DEF ReaderLoop, streamVars, sendVars, history
  <2> QED BY <2>1, CountKept DEF IInv
<1>3. CASE ReaderEof
  <2>1. UNCHANGED <<down_flow_num, attaches>> /\ (apc' \in {"added", "removed"} => apc' = apc)
    BY <1>3 DEF ReaderEof, streamVars, sendVars, history
  <2> QED BY <2>1, CountKept DEF IInv
<1>4. CASE ReaderRead
  <2>1. UNCHANGED <<down_flow_num, attaches>> /\ (apc' \in {"added", "removed"} => apc' = apc)
    BY <1>4 DEF ReaderRead, streamVars, sendVars, history
  <2> QED BY <2>1, CountKept DEF IInv
<1>5. CASE ReaderReadsNull
  <2>1. UNCHANGED <<down_flow_num, attaches>> /\ (apc' \in {"added", "removed"} => apc' = apc)
    BY <1>5 DEF ReaderReadsNull, streamVars, sendVars, history
  <2> QED BY <2>1, CountKept DEF IInv
<1>6. CASE ReaderNoMemory
  <2>1. UNCHANGED <<down_flow_num, attaches>> /\ (apc' \in {"added", "removed"} => apc' = apc)
    BY <1>6 DEF ReaderNoMemory, streamVars, sendVars, history
  <2> QED BY <2>1, CountKept DEF IInv
<1>7. CASE ReaderFails
  <2>1. UNCHANGED <<down_flow_num, attaches>> /\ (apc' \in {"added", "removed"} => apc' = apc)
    BY <1>7 DEF ReaderFails, streamVars, sendVars, history
  <2> QED BY <2>1, CountKept DEF IInv
<1>8. CASE ReaderSend
  <2>1. UNCHANGED <<down_flow_num, attaches>> /\ (apc' \in {"added", "removed"} => apc' = apc)
    BY <1>8 DEF ReaderSend, streamVars, sendVars, history
  <2> QED BY <2>1, CountKept DEF IInv
<1>9. CASE ReaderProcess
  <2>1. UNCHANGED <<down_flow_num, attaches>> /\ (apc' \in {"added", "removed"} => apc' = apc)
    BY <1>9 DEF ReaderProcess, streamVars, sendVars, history
  <2> QED BY <2>1, CountKept DEF IInv
<1>10. CASE ReaderCopy
  <2>1. UNCHANGED <<down_flow_num, attaches>> /\ (apc' \in {"added", "removed"} => apc' = apc)
    BY <1>10 DEF ReaderCopy, streamVars, sendVars, history
  <2> QED BY <2>1, CountKept DEF IInv
<1>11. CASE ReaderSendDown
  <2>1. UNCHANGED <<down_flow_num, attaches>> /\ (apc' \in {"added", "removed"} => apc' = apc)
    BY <1>11 DEF ReaderSendDown, streamVars, sendVars, history
  <2> QED BY <2>1, CountKept DEF IInv
<1>12. CASE ReaderSentDown
  <2>1. UNCHANGED <<down_flow_num, attaches>> /\ (apc' \in {"added", "removed"} => apc' = apc)
    BY <1>12 DEF ReaderSentDown, streamVars, sendVars, history
  <2> QED BY <2>1, CountKept DEF IInv
<1>13. CASE Destroy
  <2>1. UNCHANGED <<down_flow_num, attaches>> /\ (apc' \in {"added", "removed"} => apc' = apc)
    BY <1>13 DEF Destroy, streamVars, sendVars, history
  <2> QED BY <2>1, CountKept DEF IInv
<1>14. CASE CountAdded
  <2>1. down_flow_num \in Int /\ attaches \in Nat /\ MaxAttach \in Nat
    BY MaxAttachAssumption DEF IInv, TypeOK
  <2>2. down_flow_num < attaches /\ down_flow_num' = down_flow_num + 1 /\ attaches' = attaches /\ apc' = "idle"
    BY <1>14 DEF IInv, CountInv, CountAdded
  <2> QED BY <2>1, <2>2 DEF CountInv
<1>15. CASE CountRemoved
  <2>1. down_flow_num \in Int /\ attaches \in Nat /\ MaxAttach \in Nat
    BY MaxAttachAssumption DEF IInv, TypeOK
  <2>2. down_flow_num <= attaches /\ down_flow_num' = down_flow_num - 1 /\ attaches' = attaches /\ apc' = "idle"
    BY <1>15 DEF IInv, CountInv, CountRemoved
  <2> QED BY <2>1, <2>2 DEF CountInv
<1>16. CASE DestroyStop
  <2>1. UNCHANGED <<down_flow_num, attaches>> /\ (apc' \in {"added", "removed"} => apc' = apc)
    BY <1>16 DEF DestroyStop, streamVars, sendVars, history
  <2> QED BY <2>1, CountKept DEF IInv
<1>17. CASE DestroyIoCtrl
  <2>1. UNCHANGED <<down_flow_num, attaches>> /\ (apc' \in {"added", "removed"} => apc' = apc)
    BY <1>17 DEF DestroyIoCtrl, streamVars, sendVars, history
  <2> QED BY <2>1, CountKept DEF IInv
<1>18. CASE DestroyNotify
  <2>1. UNCHANGED <<down_flow_num, attaches>> /\ (apc' \in {"added", "removed"} => apc' = apc)
    BY <1>18 DEF DestroyNotify, streamVars, sendVars, history
  <2> QED BY <2>1, CountKept DEF IInv
<1>19. CASE DestroyJoin
  <2>1. UNCHANGED <<down_flow_num, attaches>> /\ (apc' \in {"added", "removed"} => apc' = apc)
    BY <1>19 DEF DestroyJoin, streamVars, sendVars, history
  <2> QED BY <2>1, CountKept DEF IInv
<1>20. CASE UNCHANGED vars
  <2>1. UNCHANGED <<down_flow_num, attaches>> /\ (apc' \in {"added", "removed"} => apc' = apc)
    BY <1>20 DEF vars, streamVars, sendVars, history
  <2> QED BY <2>1, CountKept DEF IInv
<1>21. ASSUME NEW d \in Down, AddFlow(d) PROVE CountInv'
  <2>1. down_flow_num \in Int /\ attaches \in Nat /\ MaxAttach \in Nat
    BY MaxAttachAssumption DEF IInv, TypeOK
  <2>2. down_flow_num <= attaches /\ down_flow_num' = down_flow_num /\ attaches' = attaches + 1 /\ apc' = "added"
    BY <1>21 DEF IInv, CountInv, AddFlow
  <2> QED BY <2>1, <2>2 DEF CountInv
<1>22. ASSUME NEW d \in Down, RemoveFlow(d) PROVE CountInv'
  <2>1. down_flow_num \in Int /\ attaches \in Nat /\ MaxAttach \in Nat
    BY MaxAttachAssumption DEF IInv, TypeOK
  <2>2. /\ down_flow_num <= attaches /\ down_flow_num > -MaxAttach /\ apc' = "removed"
        /\ down_flow_num' = down_flow_num /\ attaches' = attaches
    BY <1>22 DEF IInv, CountInv, RemoveFlow
  <2> QED BY <2>1, <2>2 DEF CountInv
<1> QED
    BY <1>1, <1>2, <1>3, <1>4, <1>5, <1>6, <1>7, <1>8, <1>9, <1>10, <1>11,
       <1>12, <1>13, <1>14, <1>15, <1>16, <1>17, <1>18, <1>19, <1>20, <1>21,
       <1>22
    DEF Next, Reader, Application

\* Every step keeps what is known of the two threads.
LEMMA ThreadStep ==
  ASSUME IInv, [Next]_vars PROVE ThreadInv'
<1>1. CASE ReaderStart
  BY <1>1 DEF ReaderStart, streamVars, sendVars, history, IInv, TypeOK, ThreadInv, Early, WakeReader
<1>2. CASE ReaderLoop
  BY <1>2 DEF ReaderLoop, streamVars, sendVars, history, IInv, TypeOK, ThreadInv, Early, WakeReader
<1>3. CASE ReaderEof
  BY <1>3 DEF ReaderEof, streamVars, sendVars, history, IInv, TypeOK, ThreadInv, Early, WakeReader
<1>4. CASE ReaderRead
  BY <1>4 DEF ReaderRead, streamVars, sendVars, history, IInv, TypeOK, ThreadInv, Early, WakeReader
<1>5. CASE ReaderReadsNull
  BY <1>5 DEF ReaderReadsNull, streamVars, sendVars, history, IInv, TypeOK, ThreadInv, Early, WakeReader
<1>6. CASE ReaderNoMemory
  BY <1>6 DEF ReaderNoMemory, streamVars, sendVars, history, IInv, TypeOK, ThreadInv, Early, WakeReader
<1>7. CASE ReaderFails
  BY <1>7 DEF ReaderFails, streamVars, sendVars, history, IInv, TypeOK, ThreadInv, Early, WakeReader
<1>8. CASE ReaderSend
  BY <1>8 DEF ReaderSend, streamVars, sendVars, history, IInv, TypeOK, ThreadInv, Early, WakeReader
<1>9. CASE ReaderProcess
  BY <1>9 DEF ReaderProcess, streamVars, sendVars, history, IInv, TypeOK, ThreadInv, Early, WakeReader
<1>10. CASE ReaderCopy
  BY <1>10 DEF ReaderCopy, streamVars, sendVars, history, IInv, TypeOK, ThreadInv, Early, WakeReader
<1>11. CASE ReaderSendDown
  BY <1>11 DEF ReaderSendDown, streamVars, sendVars, history, IInv, TypeOK, ThreadInv, Early, WakeReader
<1>12. CASE ReaderSentDown
  BY <1>12 DEF ReaderSentDown, streamVars, sendVars, history, IInv, TypeOK, ThreadInv, Early, WakeReader
<1>13. CASE Destroy
  BY <1>13 DEF Destroy, streamVars, sendVars, history, IInv, TypeOK, ThreadInv, Early, WakeReader
<1>14. CASE CountAdded
  BY <1>14 DEF CountAdded, streamVars, sendVars, history, IInv, TypeOK, ThreadInv, Early, WakeReader
<1>15. CASE CountRemoved
  BY <1>15 DEF CountRemoved, streamVars, sendVars, history, IInv, TypeOK, ThreadInv, Early, WakeReader
<1>16. CASE DestroyStop
  BY <1>16 DEF DestroyStop, streamVars, sendVars, history, IInv, TypeOK, ThreadInv, Early, WakeReader
<1>17. CASE DestroyIoCtrl
  BY <1>17 DEF DestroyIoCtrl, streamVars, sendVars, history, IInv, TypeOK, ThreadInv, Early, WakeReader
<1>18. CASE DestroyNotify
  BY <1>18 DEF DestroyNotify, streamVars, sendVars, history, IInv, TypeOK, ThreadInv, Early, WakeReader
<1>19. CASE DestroyJoin
  BY <1>19 DEF DestroyJoin, streamVars, sendVars, history, IInv, TypeOK, ThreadInv, Early, WakeReader
<1>20. CASE UNCHANGED vars
  BY <1>20 DEF vars, streamVars, sendVars, history, IInv, TypeOK, ThreadInv, Early, WakeReader
<1>21. ASSUME NEW d \in Down, AddFlow(d) PROVE ThreadInv'
  BY <1>21 DEF IInv, ThreadInv, Early, AddFlow, sendVars
<1>22. ASSUME NEW d \in Down, RemoveFlow(d) PROVE ThreadInv'
  BY <1>22 DEF IInv, ThreadInv, Early, RemoveFlow, sendVars
<1> QED
    BY <1>1, <1>2, <1>3, <1>4, <1>5, <1>6, <1>7, <1>8, <1>9, <1>10, <1>11,
       <1>12, <1>13, <1>14, <1>15, <1>16, <1>17, <1>18, <1>19, <1>20, <1>21,
       <1>22
    DEF Next, Reader, Application

\* Every step keeps what is known of the count and of a reader that sleeps.
LEMMA SleepStep ==
  ASSUME IInv, [Next]_vars PROVE SleepInv'
<1>0. /\ flows \in Seq(Down) /\ Len(flows) \in Nat /\ Unique(flows) /\ Attached = Listed(flows)
      /\ down_flow_num \in Int
  BY LenProperties DEF IInv, TypeOK, ListInv, Attached, Listed
<1>1. CASE ReaderStart
  BY <1>0, <1>1 DEF ReaderStart, IInv, SleepInv, ThreadInv, Early, WakeReader, streamVars, sendVars,
     history, MustWait
<1>2. CASE ReaderLoop
  BY <1>0, <1>2 DEF ReaderLoop, IInv, SleepInv, ThreadInv, Early, WakeReader, streamVars, sendVars,
     history
<1>3. CASE ReaderEof
  BY <1>0, <1>3 DEF ReaderEof, IInv, SleepInv, ThreadInv, Early, WakeReader, streamVars, sendVars,
     history
<1>4. CASE ReaderRead
  BY <1>0, <1>4 DEF ReaderRead, IInv, SleepInv, ThreadInv, Early, WakeReader, streamVars, sendVars,
     history
<1>5. CASE ReaderReadsNull
  BY <1>0, <1>5 DEF ReaderReadsNull, IInv, SleepInv, ThreadInv, Early, WakeReader, streamVars, sendVars,
     history
<1>6. CASE ReaderNoMemory
  BY <1>0, <1>6 DEF ReaderNoMemory, IInv, SleepInv, ThreadInv, Early, WakeReader, streamVars, sendVars,
     history
<1>7. CASE ReaderFails
  BY <1>0, <1>7 DEF ReaderFails, IInv, SleepInv, ThreadInv, Early, WakeReader, streamVars, sendVars,
     history
<1>8. CASE ReaderSend
  BY <1>0, <1>8 DEF ReaderSend, IInv, SleepInv, ThreadInv, Early, WakeReader, streamVars, sendVars,
     history
<1>9. CASE ReaderProcess
  BY <1>0, <1>9 DEF ReaderProcess, IInv, SleepInv, ThreadInv, Early, WakeReader, streamVars, sendVars,
     history
<1>10. CASE ReaderCopy
  BY <1>0, <1>10 DEF ReaderCopy, IInv, SleepInv, ThreadInv, Early, WakeReader, streamVars, sendVars,
     history
<1>11. CASE ReaderSendDown
  BY <1>0, <1>11 DEF ReaderSendDown, IInv, SleepInv, ThreadInv, Early, WakeReader, streamVars, sendVars,
     history
<1>12. CASE ReaderSentDown
  BY <1>0, <1>12 DEF ReaderSentDown, IInv, SleepInv, ThreadInv, Early, WakeReader, streamVars, sendVars,
     history
<1>13. CASE Destroy
  BY <1>0, <1>13 DEF Destroy, IInv, SleepInv, ThreadInv, Early, WakeReader, streamVars, sendVars,
     history
<1>14. CASE CountAdded
  BY <1>0, <1>14 DEF CountAdded, IInv, SleepInv, ThreadInv, Early, WakeReader, streamVars, sendVars,
     history
<1>15. CASE CountRemoved
  BY <1>0, <1>15 DEF CountRemoved, IInv, SleepInv, ThreadInv, Early, WakeReader, streamVars, sendVars,
     history
<1>16. CASE DestroyStop
  BY <1>0, <1>16 DEF DestroyStop, IInv, SleepInv, ThreadInv, Early, WakeReader, streamVars, sendVars,
     history
<1>17. CASE DestroyIoCtrl
  BY <1>0, <1>17 DEF DestroyIoCtrl, IInv, SleepInv, ThreadInv, Early, WakeReader, streamVars, sendVars,
     history
<1>18. CASE DestroyNotify
  BY <1>0, <1>18 DEF DestroyNotify, IInv, SleepInv, ThreadInv, Early, WakeReader, streamVars, sendVars,
     history
<1>19. CASE DestroyJoin
  BY <1>0, <1>19 DEF DestroyJoin, IInv, SleepInv, ThreadInv, Early, WakeReader, streamVars, sendVars,
     history
<1>20. CASE UNCHANGED vars
  BY <1>0, <1>20 DEF vars, IInv, SleepInv, ThreadInv, Early, WakeReader, streamVars, sendVars,
     history
<1>21. ASSUME NEW d \in Down, AddFlow(d) PROVE SleepInv'
  <2>1. /\ apc = "idle" /\ apc' = "added" /\ UNCHANGED <<kind, enable, rpc, down_flow_num, proper>>
        /\ flows' = IF d \in Attached THEN flows ELSE Append(flows, d)
    BY <1>21 DEF AddFlow
  <2>2. Len(flows') <= Len(flows) + 1 /\ Len(flows') \in Nat
    <3>1. CASE d \in Attached
      BY <1>0, <2>1, <3>1
    <3>2. CASE d \notin Attached
      BY <1>0, <2>1, <3>2, AppendProperties
    <3> QED BY <3>1, <3>2
  <2>3. ~(rpc = "waiting" /\ kind = "source_stream" /\ ~enable)
    BY <2>1 DEF IInv, SleepInv
  <2> QED BY <1>0, <2>1, <2>2, <2>3 DEF IInv, SleepInv
<1>22. ASSUME NEW d \in Down, RemoveFlow(d) PROVE SleepInv'
  <2>1. /\ apc = "idle" /\ apc' = "removed" /\ UNCHANGED <<kind, enable, rpc, down_flow_num>>
        /\ proper' = (proper /\ d \in Attached) /\ flows' = Without(flows, d)
    BY <1>22 DEF RemoveFlow
  <2>2. d \in Attached => Len(flows') = Len(flows) - 1
    BY <1>0, <2>1, WithoutLeaves
  <2>3. ~(rpc = "waiting" /\ kind = "source_stream" /\ ~enable)
    BY <2>1 DEF IInv, SleepInv
  <2>4. proper' => Len(flows') <= down_flow_num - 1
    <3> SUFFICES ASSUME proper' PROVE Len(flows') <= down_flow_num - 1
      OBVIOUS
    <3>1. proper /\ d \in Attached
      BY <2>1, Zenon
    <3>2. Len(flows) <= down_flow_num
      BY <2>1, <3>1 DEF IInv, SleepInv
    <3>3. Len(flows') = Len(flows) - 1
      BY <2>2, <3>1
    <3> QED BY <1>0, <3>2, <3>3
  <2>5. rpc = "waiting" => down_flow_num = 0
    BY DEF IInv, SleepInv
  <2> QED BY <2>1, <2>3, <2>4, <2>5 DEF SleepInv
<1> QED
    BY <1>1, <1>2, <1>3, <1>4, <1>5, <1>6, <1>7, <1>8, <1>9, <1>10, <1>11,
       <1>12, <1>13, <1>14, <1>15, <1>16, <1>17, <1>18, <1>19, <1>20, <1>21,
       <1>22
    DEF Next, Reader, Application

\* Steps that leave the lists alone.
LEMMA ListKept ==
  ASSUME ListInv, UNCHANGED <<flows, todo, late>> PROVE ListInv'
<1>1. Attached' = Attached
  BY DEF Attached
<1> QED BY <1>1 DEF ListInv, Listed, Unique

\* Every step keeps what is known of the lists.
LEMMA ListStep ==
  ASSUME IInv, [Next]_vars PROVE ListInv'
<1>1. CASE ReaderStart
  <2>1. UNCHANGED <<flows, todo, late>>
    BY <1>1 DEF ReaderStart, streamVars, sendVars, history
  <2> QED BY <2>1, ListKept DEF IInv
<1>2. CASE ReaderLoop
  <2>1. UNCHANGED <<flows, todo, late>>
    BY <1>2 DEF ReaderLoop, streamVars, sendVars, history
  <2> QED BY <2>1, ListKept DEF IInv
<1>3. CASE ReaderEof
  <2>1. UNCHANGED <<flows, todo, late>>
    BY <1>3 DEF ReaderEof, streamVars, sendVars, history
  <2> QED BY <2>1, ListKept DEF IInv
<1>4. CASE ReaderRead
  <2>1. UNCHANGED <<flows, todo, late>>
    BY <1>4 DEF ReaderRead, streamVars, sendVars, history
  <2> QED BY <2>1, ListKept DEF IInv
<1>5. CASE ReaderReadsNull
  <2>1. UNCHANGED <<flows, todo, late>>
    BY <1>5 DEF ReaderReadsNull, streamVars, sendVars, history
  <2> QED BY <2>1, ListKept DEF IInv
<1>6. CASE ReaderNoMemory
  <2>1. UNCHANGED <<flows, todo, late>>
    BY <1>6 DEF ReaderNoMemory, streamVars, sendVars, history
  <2> QED BY <2>1, ListKept DEF IInv
<1>7. CASE ReaderFails
  <2>1. UNCHANGED <<flows, todo, late>>
    BY <1>7 DEF ReaderFails, streamVars, sendVars, history
  <2> QED BY <2>1, ListKept DEF IInv
<1>8. CASE ReaderSend
  <2>1. UNCHANGED <<flows, todo, late>>
    BY <1>8 DEF ReaderSend, streamVars, sendVars, history
  <2> QED BY <2>1, ListKept DEF IInv
<1>9. CASE ReaderProcess
  <2>1. UNCHANGED <<flows, todo, late>>
    BY <1>9 DEF ReaderProcess, streamVars, sendVars, history
  <2> QED BY <2>1, ListKept DEF IInv
<1>10. CASE ReaderCopy
  <2>1. todo = << >> /\ todo' = flows /\ flows' = flows /\ late' = late
    BY <1>10 DEF IInv, ThreadInv, ReaderCopy, history
  <2>2. Attached' = Attached /\ Listed(todo') = Attached
    BY <2>1 DEF Attached, Listed
  <2>3. Unique(flows') /\ Unique(todo')
    BY <2>1 DEF IInv, ListInv
  <2>4. ASSUME NEW d \in Down
        PROVE  /\ d \in Attached => late[d] = 0
               /\ late[d] = 0 \/ (late[d] = 1 /\ d \notin Attached)
    BY DEF IInv, ListInv
  <2>5. Listed(todo)' = Listed(todo') /\ Unique(todo)' = Unique(todo') /\ Unique(flows)' = Unique(flows')
    BY DEF Listed, Unique
  <2> QED BY <2>1, <2>2, <2>3, <2>4, <2>5 DEF ListInv
<1>11. CASE ReaderSendDown
  <2> DEFINE h == Head(todo)
  <2>1. /\ Unique(Tail(todo)) /\ h \in Down /\ h \notin Listed(Tail(todo))
        /\ Listed(todo) = Listed(Tail(todo)) \cup {h}
    BY <1>11, TailListed DEF IInv, TypeOK, ListInv, ReaderSendDown
  <2>2. todo' = Tail(todo) /\ flows' = flows
    BY <1>11 DEF ReaderSendDown
  <2>3. late' = late \/ (h \notin Attached /\ late' = [late EXCEPT ![h] = @ + 1])
    BY <1>11 DEF ReaderSendDown, history
  <2>4. Listed(todo)' = Listed(todo') /\ Unique(todo)' = Unique(todo') /\ Unique(flows)' = Unique(flows)
    BY <2>2 DEF Listed, Unique
  <2>5. Attached' = Attached
    BY <2>2 DEF Attached
  <2> HIDE DEF h
  <2>6. Unique(flows)' /\ Unique(todo)'
    BY <2>1, <2>2, <2>4 DEF IInv, ListInv
  <2>7. ASSUME NEW d \in Down
        PROVE  /\ d \in Attached => late'[d] = 0
               /\ late'[d] = 0 \/ (late'[d] = 1 /\ d \notin Listed(Tail(todo)))
    <3>1. /\ d \in Attached => late[d] = 0
          /\ late[d] = 0 \/ (late[d] = 1 /\ d \notin Listed(todo))
      BY DEF IInv, ListInv
    <3>2. CASE late' = late
      BY <2>1, <3>1, <3>2
    <3>3. CASE h \notin Attached /\ late' = [late EXCEPT ![h] = @ + 1]
      <4>1. late \in [Down -> Nat]
        BY DEF IInv, TypeOK
      <4>2. CASE d = h
        <5>1. late[h] = 0
          BY <2>1, <3>1, <4>2
        <5>2. late'[d] = 1
          BY <3>3, <4>1, <4>2, <5>1
        <5> QED BY <2>1, <3>3, <4>2, <5>2
      <4>3. CASE d # h
        <5>1. late'[d] = late[d]
          BY <3>3, <4>1, <4>3
        <5> QED BY <2>1, <3>1, <5>1
      <4> QED BY <4>2, <4>3
    <3> QED BY <2>3, <3>2, <3>3
  <2> QED BY <2>2, <2>4, <2>5, <2>6, <2>7 DEF ListInv
<1>12. CASE ReaderSentDown
  <2>1. UNCHANGED <<flows, todo, late>>
    BY <1>12 DEF ReaderSentDown, streamVars, sendVars, history
  <2> QED BY <2>1, ListKept DEF IInv
<1>13. CASE Destroy
  <2>1. UNCHANGED <<flows, todo, late>>
    BY <1>13 DEF Destroy, streamVars, sendVars, history
  <2> QED BY <2>1, ListKept DEF IInv
<1>14. CASE CountAdded
  <2>1. UNCHANGED <<flows, todo, late>>
    BY <1>14 DEF CountAdded, streamVars, sendVars, history
  <2> QED BY <2>1, ListKept DEF IInv
<1>15. CASE CountRemoved
  <2>1. UNCHANGED <<flows, todo, late>>
    BY <1>15 DEF CountRemoved, streamVars, sendVars, history
  <2> QED BY <2>1, ListKept DEF IInv
<1>16. CASE DestroyStop
  <2>1. UNCHANGED <<flows, todo, late>>
    BY <1>16 DEF DestroyStop, streamVars, sendVars, history
  <2> QED BY <2>1, ListKept DEF IInv
<1>17. CASE DestroyIoCtrl
  <2>1. UNCHANGED <<flows, todo, late>>
    BY <1>17 DEF DestroyIoCtrl, streamVars, sendVars, history
  <2> QED BY <2>1, ListKept DEF IInv
<1>18. CASE DestroyNotify
  <2>1. UNCHANGED <<flows, todo, late>>
    BY <1>18 DEF DestroyNotify, streamVars, sendVars, history
  <2> QED BY <2>1, ListKept DEF IInv
<1>19. CASE DestroyJoin
  <2>1. UNCHANGED <<flows, todo, late>>
    BY <1>19 DEF DestroyJoin, streamVars, sendVars, history
  <2> QED BY <2>1, ListKept DEF IInv
<1>20. CASE UNCHANGED vars
  <2>1. UNCHANGED <<flows, todo, late>>
    BY <1>20 DEF vars, streamVars, sendVars, history
  <2> QED BY <2>1, ListKept DEF IInv
<1>21. ASSUME NEW d \in Down, AddFlow(d) PROVE ListInv'
  <2>1. todo' = todo
    BY <1>21 DEF AddFlow, sendVars
  <2>2. late \in [Down -> Nat] /\ flows \in Seq(Down) /\ Unique(flows) /\ Unique(todo)
    BY DEF IInv, TypeOK, ListInv
  <2>3. /\ Attached = Listed(flows) /\ Attached' = Listed(flows')
        /\ Unique(flows)' = Unique(flows') /\ Unique(todo)' = Unique(todo)
        /\ Listed(todo)' = Listed(todo)
    BY <2>1 DEF Attached, Listed, Unique
  <2>4. /\ Unique(flows')
        /\ \/ Attached' = Attached /\ late' = late
           \/ Attached' = Attached \cup {d} /\ late' = [late EXCEPT ![d] = 0]
    <3>1. CASE d \in Attached
      BY <1>21, <2>2, <2>3, <3>1 DEF AddFlow
    <3>2. CASE d \notin Attached
      <4>1. flows' = Append(flows, d) /\ late' = [late EXCEPT ![d] = 0]
        BY <1>21, <3>2 DEF AddFlow
      <4>2. Unique(Append(flows, d)) /\ Listed(Append(flows, d)) = Listed(flows) \cup {d}
        BY <2>2, <2>3, <3>2, AppendListed
      <4> QED BY <2>3, <4>1, <4>2
    <3> QED BY <3>1, <3>2
  <2>5. ASSUME NEW x \in Down
        PROVE  /\ x \in Attached' => late'[x] = 0
               /\ late'[x] = 0 \/ (late'[x] = 1 /\ x \notin Listed(todo))
    <3>2. /\ x \in Attached => late[x] = 0
          /\ late[x] = 0 \/ (late[x] = 1 /\ x \notin Listed(todo))
      BY DEF IInv, ListInv
    <3>3. CASE Attached' = Attached /\ late' = late
      BY <3>2, <3>3
    <3>4. CASE Attached' = Attached \cup {d} /\ late' = [late EXCEPT ![d] = 0]
      <4>1. late'[x] = IF x = d THEN 0 ELSE late[x]
        BY <2>2, <3>4
      <4> QED BY <3>2, <3>4, <4>1
    <3> QED BY <2>4, <3>3, <3>4
  <2> QED BY <2>2, <2>3, <2>4, <2>5 DEF ListInv
<1>22. ASSUME NEW d \in Down, RemoveFlow(d) PROVE ListInv'
  <2>1. todo' = todo /\ late' = late /\ flows' = Without(flows, d)
    BY <1>22 DEF RemoveFlow, sendVars
  <2>2. flows \in Seq(Down) /\ Unique(flows) /\ Unique(todo)
    BY DEF IInv, TypeOK, ListInv
  <2>3. /\ Attached = Listed(flows) /\ Attached' = Listed(flows')
        /\ Unique(flows)' = Unique(flows') /\ Unique(todo)' = Unique(todo)
        /\ Listed(todo)' = Listed(todo)
    BY <2>1 DEF Attached, Listed, Unique
  <2>4. Unique(flows') /\ Listed(flows') = Listed(flows) \ {d}
    BY <2>1, <2>2, WithoutLeaves
  <2>5. ASSUME NEW x \in Down
        PROVE  /\ x \in Attached' => late'[x] = 0
               /\ late'[x] = 0 \/ (late'[x] = 1 /\ x \notin Listed(todo))
    <3>2. /\ x \in Attached => late[x] = 0
          /\ late[x] = 0 \/ (late[x] = 1 /\ x \notin Listed(todo))
      BY DEF IInv, ListInv
    <3> QED BY <2>1, <2>3, <2>4, <3>2
  <2> QED BY <2>2, <2>3, <2>4, <2>5 DEF ListInv
<1> QED
    BY <1>1, <1>2, <1>3, <1>4, <1>5, <1>6, <1>7, <1>8, <1>9, <1>10, <1>11,
       <1>12, <1>13, <1>14, <1>15, <1>16, <1>17, <1>18, <1>19, <1>20, <1>21,
       <1>22
    DEF Next, Reader, Application

-----------------------------------------------------------------------------
(* Who has got what.                                                       *)

\* A step that gives nobody anything, with no frame under way before or after,
\* or the same one.
LEMMA StepKept ==
  ASSUME StepInv, UNCHANGED <<steady, flows, received, pos, frame, out, todo>>,
         \/ rpc' = rpc
         \/ {rpc, rpc'} \cap {"send", "process", "copy", "down"} = {},
         enable' => enable, Early' => Early
  PROVE  StepInv'
<1>1. Attached' = Attached
  BY DEF Attached
<1>2. \A d \in steady : Pending(d)' = Pending(d)
  BY DEF Pending, Listed
<1>3. Deaf => Deaf'
  BY DEF Deaf
<1>4. ASSUME NEW d \in steady'
      PROVE  (received[d] = IF Pending(d) THEN pos - 1 ELSE pos)' \/ Deaf'
  <2>1. (received[d] = IF Pending(d) THEN pos - 1 ELSE pos) \/ Deaf
    BY DEF StepInv
  <2> QED BY <1>2, <1>3, <2>1
<1>5. /\ rpc' \in {"send", "process"} => frame' \in {Null, pos'}
      /\ rpc' \in {"copy", "down"} => out' \in {Null, pos'}
      /\ steady' \subseteq Attached'
  BY <1>1 DEF StepInv
<1> QED BY <1>4, <1>5 DEF StepInv

\* A step of the reader that moves the frame under way on.
LEMMA StepMoves ==
  ASSUME StepInv, UNCHANGED <<steady, flows, received, pos>>,
         rpc' \in {"send", "process"} => frame' \in {Null, pos'},
         rpc' \in {"copy", "down"} => out' \in {Null, pos'},
         \A d \in steady : Deaf' \/ (~Deaf /\ (Pending(d)' <=> Pending(d)))
  PROVE  StepInv'
<1>1. Attached' = Attached
  BY DEF Attached
<1>4. ASSUME NEW d \in steady'
      PROVE  (received[d] = IF Pending(d) THEN pos - 1 ELSE pos)' \/ Deaf'
  <2>1. (received[d] = IF Pending(d) THEN pos - 1 ELSE pos) \/ Deaf
    BY DEF StepInv
  <2> QED BY <2>1
<1>5. steady' \subseteq Attached'
  BY <1>1 DEF StepInv
<1> QED BY <1>4, <1>5 DEF StepInv

\* Every step keeps what is known of the frames.
LEMMA FrameStep ==
  ASSUME IInv, [Next]_vars PROVE StepInv'
<1>1. CASE ReaderStart
  <2>1. /\ UNCHANGED <<steady, flows, received, pos, frame, out, todo>>
        /\ \/ rpc' = rpc
           \/ {rpc, rpc'} \cap {"send", "process", "copy", "down"} = {}
        /\ enable' => enable
        /\ Early' => Early
    BY <1>1 DEF ReaderStart, streamVars, sendVars, history, Early, WakeReader
  <2> QED BY <2>1, StepKept DEF IInv
<1>2. CASE ReaderLoop
  <2>1. /\ UNCHANGED <<steady, flows, received, pos, frame, out, todo>>
        /\ \/ rpc' = rpc
           \/ {rpc, rpc'} \cap {"send", "process", "copy", "down"} = {}
        /\ enable' => enable
        /\ Early' => Early
    BY <1>2 DEF ReaderLoop, streamVars, sendVars, history, Early, WakeReader
  <2> QED BY <2>1, StepKept DEF IInv
<1>3. CASE ReaderEof
  <2>1. /\ UNCHANGED <<steady, flows, received, pos, frame, out, todo>>
        /\ \/ rpc' = rpc
           \/ {rpc, rpc'} \cap {"send", "process", "copy", "down"} = {}
        /\ enable' => enable
        /\ Early' => Early
    BY <1>3 DEF ReaderEof, streamVars, sendVars, history, Early, WakeReader
  <2> QED BY <2>1, StepKept DEF IInv
<1>4. CASE ReaderRead
  <2>1. /\ rpc = "read" /\ rpc' = "send" /\ pos' = pos + 1 /\ frame' = pos'
        /\ UNCHANGED <<steady, flows, received, enable, apc>>
    BY <1>4 DEF ReaderRead, history
  <2>2. pos \in Nat
    <3>1. pos \in 0..MaxFrames
      BY DEF IInv, TypeOK
    <3> QED BY <3>1
  <2>3. Attached' = Attached
    BY <2>1 DEF Attached
  <2>4. ASSUME NEW d \in steady'
        PROVE  (received[d] = IF Pending(d) THEN pos - 1 ELSE pos)' \/ Deaf'
    <3>1. (received[d] = IF Pending(d) THEN pos - 1 ELSE pos) \/ Deaf
      BY <2>1 DEF IInv, StepInv
    <3>2. Pending(d)' /\ ~Pending(d)
      BY <2>1, <2>2 DEF Pending, Null
    <3>3. Deaf => Deaf'
      BY <2>1 DEF Deaf, Early
    <3> QED BY <2>1, <2>2, <3>1, <3>2, <3>3
  <2> QED BY <2>1, <2>3, <2>4 DEF IInv, StepInv
<1>5. CASE ReaderReadsNull
  <2>1. /\ rpc = "read" /\ rpc' = "send" /\ frame' = Null
        /\ UNCHANGED <<steady, flows, received, enable, apc, pos>>
    BY <1>5 DEF ReaderReadsNull, history
  <2>2. \A d \in steady : Pending(d)' <=> Pending(d)
    BY <2>1 DEF Pending
  <2>3. Deaf => Deaf'
    BY <2>1 DEF Deaf, Early
  <2> QED BY <2>1, <2>2, <2>3, StepMoves DEF IInv
<1>6. CASE ReaderNoMemory
  <2>1. /\ UNCHANGED <<steady, flows, received, pos, frame, out, todo>>
        /\ \/ rpc' = rpc
           \/ {rpc, rpc'} \cap {"send", "process", "copy", "down"} = {}
        /\ enable' => enable
        /\ Early' => Early
    BY <1>6 DEF ReaderNoMemory, streamVars, sendVars, history, Early, WakeReader
  <2> QED BY <2>1, StepKept DEF IInv
<1>7. CASE ReaderFails
  <2>1. /\ UNCHANGED <<steady, flows, received, pos, frame, out, todo>>
        /\ \/ rpc' = rpc
           \/ {rpc, rpc'} \cap {"send", "process", "copy", "down"} = {}
        /\ enable' => enable
        /\ Early' => Early
    BY <1>7 DEF ReaderFails, streamVars, sendVars, history, Early, WakeReader
  <2> QED BY <2>1, StepKept DEF IInv
<1>8. CASE ReaderSend
  <2>1. /\ rpc = "send" /\ rpc' = (IF enable THEN "process" ELSE "loop")
        /\ UNCHANGED <<steady, flows, received, enable, apc, pos, frame>>
    BY <1>8 DEF ReaderSend, streamVars, history
  <2>2. CASE enable
    <3>1. ~Deaf /\ rpc' = "process"
      BY <2>1, <2>2 DEF Deaf
    <3>2. \A d \in steady : Pending(d)' <=> Pending(d)
      BY <2>1, <3>1 DEF Pending
    <3>3. frame' \in {Null, pos'}
      BY <2>1 DEF IInv, StepInv
    <3> QED BY <2>1, <3>1, <3>2, <3>3, StepMoves DEF IInv
  <2>3. CASE ~enable
    <3>1. rpc' = "loop" /\ Deaf'
      BY <2>1, <2>3 DEF IInv, ThreadInv, Deaf, Early
    <3> QED BY <2>1, <3>1, StepMoves DEF IInv
  <2> QED BY <2>2, <2>3
<1>9. CASE ReaderProcess
  <2>1. /\ rpc = "process" /\ rpc' = "copy" /\ out' = (IF enable THEN frame ELSE Null)
        /\ UNCHANGED <<steady, flows, received, enable, apc, pos>>
    BY <1>9 DEF ReaderProcess, streamVars, history
  <2>2. out' \in {Null, pos'}
    BY <2>1 DEF IInv, StepInv
  <2>3. CASE enable
    <3>1. ~Deaf /\ out' = frame
      BY <2>1, <2>3 DEF Deaf
    <3>2. \A d \in steady : Pending(d)' <=> Pending(d)
      BY <2>1, <3>1 DEF Pending
    <3> QED BY <2>1, <2>2, <3>1, <3>2, StepMoves DEF IInv
  <2>4. CASE ~enable
    <3>1. out' = Null /\ Deaf'
      BY <2>1, <2>4 DEF IInv, ThreadInv, Deaf, Early
    <3> QED BY <2>1, <2>2, <3>1, StepMoves DEF IInv
  <2> QED BY <2>3, <2>4
<1>10. CASE ReaderCopy
  <2>1. /\ rpc = "copy" /\ rpc' = "down" /\ out' = out /\ todo' = flows
        /\ UNCHANGED <<steady, flows, received, enable, apc, pos>>
    BY <1>10 DEF ReaderCopy, streamVars, history
  <2>2. out' \in {Null, pos'}
    BY <2>1 DEF IInv, StepInv
  <2>3. Deaf => Deaf'
    BY <2>1 DEF Deaf, Early
  <2>4. \A d \in steady : d \in Listed(todo)'
    BY <2>1 DEF IInv, StepInv, Attached, Listed
  <2>5. \A d \in steady : Pending(d)' <=> Pending(d)
    BY <2>1, <2>4 DEF Pending
  <2> QED BY <2>1, <2>2, <2>3, <2>5, StepMoves DEF IInv
<1>11. CASE ReaderSendDown
  <2> DEFINE h == Head(todo)
  <2>1. /\ h \in Down /\ h \notin Listed(Tail(todo))
        /\ Listed(todo) = Listed(Tail(todo)) \cup {h}
    BY <1>11, TailListed DEF IInv, TypeOK, ListInv, ReaderSendDown
  <2>2. /\ rpc = "down" /\ rpc' = "down" /\ out' = out /\ todo' = Tail(todo)
        /\ UNCHANGED <<flows, enable, apc, pos>>
    BY <1>11 DEF ReaderSendDown, streamVars
  <2>3. out' \in {Null, pos'} /\ Listed(todo)' = Listed(Tail(todo)) /\ Attached' = Attached
    BY <2>2 DEF IInv, StepInv, Listed, Attached
  <2>4. CASE out = Null
    <3>1. UNCHANGED <<steady, received>>
      BY <1>11, <2>4 DEF ReaderSendDown, history
    <3>2. \A d \in steady : ~Pending(d)' /\ ~Pending(d)
      BY <2>2, <2>4 DEF Pending
    <3>3. Deaf => Deaf'
      BY <2>2 DEF Deaf, Early
    <3> QED BY <2>2, <2>3, <3>1, <3>2, <3>3, StepMoves DEF IInv
  <2>5. CASE out # Null
    <3>1. /\ received' = [received EXCEPT ![h] = out]
          /\ steady' = IF h \in Attached THEN steady \cup {h} ELSE steady
      BY <1>11, <2>5 DEF ReaderSendDown
    <3>2. received \in [Down -> 0..MaxFrames] /\ steady \subseteq Down
      BY DEF IInv, TypeOK
    <3>3. out = pos /\ ~Deaf
      BY <2>2, <2>5 DEF IInv, StepInv, Deaf
    <3>4. steady' \subseteq Attached'
      BY <2>3, <3>1 DEF IInv, StepInv
    <3> HIDE DEF h
    <3>5. ASSUME NEW d \in steady'
          PROVE  (received[d] = IF Pending(d) THEN pos - 1 ELSE pos)' \/ Deaf'
      <4>1. CASE d = h
        <5>1. received'[d] = pos
          BY <2>1, <3>1, <3>2, <3>3, <4>1
        <5>2. ~Pending(d)'
          BY <2>1, <2>2, <2>3, <4>1 DEF Pending
        <5> QED BY <2>2, <5>1, <5>2
      <4>2. CASE d # h
        <5>1. d \in steady /\ received'[d] = received[d]
          BY <3>1, <3>2, <4>2
        <5>2. received[d] = IF Pending(d) THEN pos - 1 ELSE pos
          BY <3>3, <5>1 DEF IInv, StepInv
        <5>3. Pending(d)' <=> Pending(d)
          BY <2>1, <2>2, <2>3, <4>2 DEF Pending
        <5> QED BY <2>2, <5>1, <5>2, <5>3
      <4> QED BY <4>1, <4>2
    <3> QED BY <2>2, <2>3, <3>4, <3>5 DEF StepInv
  <2> QED BY <2>4, <2>5
<1>12. CASE ReaderSentDown
  <2>1. /\ rpc = "down" /\ rpc' = "loop" /\ todo = << >>
        /\ UNCHANGED <<steady, flows, received, enable, apc, pos>>
    BY <1>12 DEF ReaderSentDown, streamVars, history
  <2>2. Deaf => Deaf'
    BY <2>1 DEF Deaf, Early
  <2>3. \A d \in steady : ~Pending(d)' /\ ~Pending(d)
    BY <2>1 DEF Pending, Listed
  <2> QED BY <2>1, <2>2, <2>3, StepMoves DEF IInv
<1>13. CASE Destroy
  <2>1. /\ UNCHANGED <<steady, flows, received, pos, frame, out, todo>>
        /\ \/ rpc' = rpc
           \/ {rpc, rpc'} \cap {"send", "process", "copy", "down"} = {}
        /\ enable' => enable
        /\ Early' => Early
    BY <1>13 DEF Destroy, streamVars, sendVars, history, Early, WakeReader
  <2> QED BY <2>1, StepKept DEF IInv
<1>14. CASE CountAdded
  <2>1. /\ UNCHANGED <<steady, flows, received, pos, frame, out, todo>>
        /\ \/ rpc' = rpc
           \/ {rpc, rpc'} \cap {"send", "process", "copy", "down"} = {}
        /\ enable' => enable
        /\ Early' => Early
    BY <1>14 DEF CountAdded, streamVars, sendVars, history, Early, WakeReader
  <2> QED BY <2>1, StepKept DEF IInv
<1>15. CASE CountRemoved
  <2>1. /\ UNCHANGED <<steady, flows, received, pos, frame, out, todo>>
        /\ \/ rpc' = rpc
           \/ {rpc, rpc'} \cap {"send", "process", "copy", "down"} = {}
        /\ enable' => enable
        /\ Early' => Early
    BY <1>15 DEF CountRemoved, streamVars, sendVars, history, Early, WakeReader
  <2> QED BY <2>1, StepKept DEF IInv
<1>16. CASE DestroyStop
  <2>1. /\ UNCHANGED <<steady, flows, received, pos, frame, out, todo>>
        /\ \/ rpc' = rpc
           \/ {rpc, rpc'} \cap {"send", "process", "copy", "down"} = {}
        /\ enable' => enable
        /\ Early' => Early
    BY <1>16 DEF DestroyStop, streamVars, sendVars, history, Early, WakeReader
  <2> QED BY <2>1, StepKept DEF IInv
<1>17. CASE DestroyIoCtrl
  <2>1. /\ UNCHANGED <<steady, flows, received, pos, frame, out, todo>>
        /\ \/ rpc' = rpc
           \/ {rpc, rpc'} \cap {"send", "process", "copy", "down"} = {}
        /\ enable' => enable
        /\ Early' => Early
    BY <1>17 DEF DestroyIoCtrl, streamVars, sendVars, history, Early, WakeReader
  <2> QED BY <2>1, StepKept DEF IInv
<1>18. CASE DestroyNotify
  <2>1. /\ UNCHANGED <<steady, flows, received, pos, frame, out, todo>>
        /\ \/ rpc' = rpc
           \/ {rpc, rpc'} \cap {"send", "process", "copy", "down"} = {}
        /\ enable' => enable
        /\ Early' => Early
    BY <1>18 DEF DestroyNotify, streamVars, sendVars, history, Early, WakeReader
  <2> QED BY <2>1, StepKept DEF IInv
<1>19. CASE DestroyJoin
  <2>1. /\ UNCHANGED <<steady, flows, received, pos, frame, out, todo>>
        /\ \/ rpc' = rpc
           \/ {rpc, rpc'} \cap {"send", "process", "copy", "down"} = {}
        /\ enable' => enable
        /\ Early' => Early
    BY <1>19 DEF DestroyJoin, streamVars, sendVars, history, Early, WakeReader
  <2> QED BY <2>1, StepKept DEF IInv
<1>20. CASE UNCHANGED vars
  <2>1. /\ UNCHANGED <<steady, flows, received, pos, frame, out, todo>>
        /\ \/ rpc' = rpc
           \/ {rpc, rpc'} \cap {"send", "process", "copy", "down"} = {}
        /\ enable' => enable
        /\ Early' => Early
    BY <1>20 DEF vars, streamVars, sendVars, history, Early, WakeReader
  <2> QED BY <2>1, StepKept DEF IInv
<1>21. ASSUME NEW d \in Down, AddFlow(d) PROVE StepInv'
  <2>1. UNCHANGED <<rpc, enable, received, pos, frame, out, todo>> /\ Early /\ Early'
    BY <1>21 DEF AddFlow, streamVars, sendVars, Early
  <2>2. \A x \in steady : Pending(x)' <=> Pending(x)
    BY <2>1 DEF Pending, Listed
  <2>3. ~Deaf
    BY <2>1 DEF Deaf
  <2>4. /\ rpc' \in {"send", "process"} => frame' \in {Null, pos'}
        /\ rpc' \in {"copy", "down"} => out' \in {Null, pos'}
    BY <2>1 DEF IInv, StepInv
  <2>5. steady' \subseteq steady /\ steady' \subseteq Attached'
    <3>1. steady' = steady /\ steady \subseteq Attached
      BY <1>21 DEF AddFlow, IInv, StepInv
    <3>2. Attached \subseteq Attached'
      <4>1. flows \in Seq(Down) /\ Unique(flows)
        BY DEF IInv, TypeOK, ListInv
      <4>2. Attached = Listed(flows) /\ Attached' = Listed(flows')
        BY DEF Attached, Listed
      <4>3. CASE d \in Attached
        BY <1>21, <4>2, <4>3 DEF AddFlow
      <4>4. CASE d \notin Attached
        <5>1. flows' = Append(flows, d)
          BY <1>21, <4>4 DEF AddFlow
        <5>2. Listed(Append(flows, d)) = Listed(flows) \cup {d}
          BY <4>1, <4>2, <4>4, AppendListed
        <5> QED BY <4>2, <5>1, <5>2
      <4> QED BY <4>3, <4>4
    <3> QED BY <3>1, <3>2
  <2>6. ASSUME NEW x \in steady'
        PROVE  (received[x] = IF Pending(x) THEN pos - 1 ELSE pos)' \/ Deaf'
    <3>1. x \in steady
      BY <2>5
    <3>2. received[x] = IF Pending(x) THEN pos - 1 ELSE pos
      BY <2>3, <3>1 DEF IInv, StepInv
    <3> QED BY <2>1, <2>2, <3>1, <3>2
  <2> QED BY <2>4, <2>5, <2>6 DEF StepInv
<1>22. ASSUME NEW d \in Down, RemoveFlow(d) PROVE StepInv'
  <2>1. UNCHANGED <<rpc, enable, received, pos, frame, out, todo>> /\ Early /\ Early'
    BY <1>22 DEF RemoveFlow, streamVars, sendVars, Early
  <2>2. \A x \in steady : Pending(x)' <=> Pending(x)
    BY <2>1 DEF Pending, Listed
  <2>3. ~Deaf
    BY <2>1 DEF Deaf
  <2>4. /\ rpc' \in {"send", "process"} => frame' \in {Null, pos'}
        /\ rpc' \in {"copy", "down"} => out' \in {Null, pos'}
    BY <2>1 DEF IInv, StepInv
  <2>5. steady' \subseteq steady /\ steady' \subseteq Attached'
    <3>1. steady' = steady \ {d} /\ steady \subseteq Attached /\ flows' = Without(flows, d)
      BY <1>22 DEF RemoveFlow, IInv, StepInv
    <3>2. flows \in Seq(Down) /\ Unique(flows)
      BY DEF IInv, TypeOK, ListInv
    <3>3. Attached = Listed(flows) /\ Attached' = Listed(flows')
      BY DEF Attached, Listed
    <3>4. Listed(Without(flows, d)) = Listed(flows) \ {d}
      BY <3>2, WithoutLeaves
    <3> QED BY <3>1, <3>3, <3>4
  <2>6. ASSUME NEW x \in steady'
        PROVE  (received[x] = IF Pending(x) THEN pos - 1 ELSE pos)' \/ Deaf'
    <3>1. x \in steady
      BY <2>5
    <3>2. received[x] = IF Pending(x) THEN pos - 1 ELSE pos
      BY <2>3, <3>1 DEF IInv, StepInv
    <3> QED BY <2>1, <2>2, <3>1, <3>2
  <2> QED BY <2>4, <2>5, <2>6 DEF StepInv
<1> QED
    BY <1>1, <1>2, <1>3, <1>4, <1>5, <1>6, <1>7, <1>8, <1>9, <1>10, <1>11,
       <1>12, <1>13, <1>14, <1>15, <1>16, <1>17, <1>18, <1>19, <1>20, <1>21,
       <1>22
    DEF Next, Reader, Application

-----------------------------------------------------------------------------
(* The theorems.                                                           *)

\* The invariant holds in every reachable state.
THEOREM Invariance == Spec => []IInv
<1>1. Init => IInv
  <2> SUFFICES ASSUME Init PROVE IInv
    OBVIOUS
  <2>1. Loops \in Nat /\ MaxFrames \in Nat /\ 0 \in 0..Loops /\ MaxAttach \in Nat
    <3>1. Loops \in Nat /\ 0 \in 0..Loops
      BY FramesAssumption DEF Loops
    <3> QED BY <3>1, Rounds, MaxAttachAssumption
  <2>2. TypeOK
    <3>1. /\ 0 \in 0..MaxFrames /\ Loops \in -1..Loops /\ 0 \in -MaxAttach..MaxAttach
          /\ 0 \in 0..MaxAttach
      BY <2>1
    <3>2. << >> \in Seq(Down)
      OBVIOUS
    <3> HIDE DEF MaxFrames, Loops
    <3> QED BY <3>1, <3>2 DEF Init, TypeOK, Null
  <2>3. ReadInv
    <3>1. End(Loops) \in Nat
      <4>1. Loops \in 0..Loops
        BY <2>1
      <4> QED BY <4>1, Rounds
    <3> QED BY <2>1, <3>1 DEF Init, ReadInv
  <2>4. CountInv /\ ThreadInv /\ SleepInv
    <3>1. Len(flows) = 0
      BY EmptySeq DEF Init
    <3> QED BY <2>1, <3>1 DEF Init, CountInv, ThreadInv, SleepInv, Early
  <2>5. ListInv
    <3>1. Unique(flows) /\ Unique(todo) /\ Attached = {}
      BY DEF Init, Unique, Attached
    <3> QED BY <3>1 DEF Init, ListInv
  <2>6. StepInv
    BY DEF Init, StepInv
  <2> QED BY <2>2, <2>3, <2>4, <2>5, <2>6 DEF IInv
<1>2. IInv /\ [Next]_vars => IInv'
  <2> SUFFICES ASSUME IInv, [Next]_vars PROVE IInv'
    OBVIOUS
  <2>1. TypeOK' /\ ReadInv' /\ CountInv'
    BY TypeStep, ReadStep, CountStep
  <2>2. ThreadInv' /\ SleepInv' /\ ListInv' /\ StepInv'
    BY ThreadStep, SleepStep, ListStep, FrameStep
  <2> QED BY <2>1, <2>2 DEF IInv
<1> QED BY <1>1, <1>2, PTL DEF Spec

\* The types of the state: no more is read than there is, the file is repeated
\* as often as asked, and down_flow_num stays within what was called.
THEOREM TypeCorrect == Spec => []TypeOK
<1>1. IInv => TypeOK
  BY DEF IInv
<1> QED BY <1>1, Invariance, PTL

\* A removed down flow gets one more frame at most, the one being sent.
THEOREM AtMostOneLate == Spec => []OneLateFrame
<1>1. IInv => OneLateFrame
  BY DEF IInv, ListInv, OneLateFrame
<1> QED BY <1>1, Invariance, PTL

\* No reader sleeps while a flow is attached, or on a stream while it is
\* destroyed, without a notify to come.
THEOREM SleepersAreWoken == Spec => []SleeperIsWoken
<1>1. IInv => SleeperIsWoken
  <2> SUFFICES ASSUME IInv, rpc = "waiting"
               PROVE  /\ proper /\ flows # << >> => apc = "added"
                      /\ kind = "source_stream" /\ ~enable => apc \in {"ioctl", "notify"}
    BY DEF SleeperIsWoken
  <2>1. down_flow_num = 0 /\ flows \in Seq(Down)
    BY DEF IInv, SleepInv, TypeOK
  <2>2. flows # << >> => Len(flows) \in Nat /\ Len(flows) > 0
    BY <2>1, EmptySeq, LenProperties
  <2>3. proper /\ flows # << >> => apc = "added"
    BY <2>1, <2>2 DEF IInv, SleepInv
  <2> QED BY <2>3 DEF IInv, SleepInv
<1> QED BY <1>1, Invariance, PTL

\* At the end of the stream the flows that stayed attached have every frame.
THEOREM AllFramesSent == Spec => []AllFrames
<1>1. IInv => AllFrames
  <2> SUFFICES ASSUME IInv, rpc = "exit", pos = MaxFrames, Early, NEW d \in steady
               PROVE  received[d] = MaxFrames
    BY DEF AllFrames, Early
  <2>1. (received[d] = IF Pending(d) THEN pos - 1 ELSE pos) \/ Deaf
    BY DEF IInv, StepInv
  <2>2. ~Deaf /\ ~Pending(d)
    BY DEF Deaf, Pending
  <2> QED BY <2>1, <2>2
<1> QED BY <1>1, Invariance, PTL

\* A flow that stays attached misses no frame, whoever else comes and goes.
THEOREM NoGaps == Spec => NoGap
<1>1. IInv /\ [Next]_vars =>
        [\A d \in steady : received'[d] # received[d] => received'[d] = received[d] + 1]_vars
  <2> SUFFICES ASSUME IInv, Next, NEW d \in steady, received'[d] # received[d]
               PROVE  received'[d] = received[d] + 1
    OBVIOUS
  <2>1. ReaderSendDown
    BY DEF Next, Reader, Application, vars, history, ReaderStart, ReaderLoop, ReaderEof, ReaderRead,
           ReaderReadsNull, ReaderNoMemory, ReaderFails, ReaderSend, ReaderProcess, ReaderCopy,
           ReaderSentDown, AddFlow, RemoveFlow, Destroy, CountAdded, CountRemoved, DestroyStop,
           DestroyIoCtrl, DestroyNotify, DestroyJoin
  <2>2. rpc = "down" /\ out # Null /\ todo # << >> /\ received' = [received EXCEPT ![Head(todo)] = out]
    BY <2>1 DEF ReaderSendDown, history
  <2>3. received \in [Down -> 0..MaxFrames] /\ d \in Down /\ pos \in 0..MaxFrames
    BY DEF IInv, TypeOK
  <2>4. d = Head(todo) /\ received'[d] = out
    BY <2>2, <2>3
  <2>5. out = pos /\ ~Deaf
    BY <2>2 DEF IInv, StepInv, Deaf
  <2>6. d \in Listed(todo)
    BY <2>2, <2>4, TailListed DEF IInv, TypeOK, ListInv
  <2>7. Pending(d)
    BY <2>2, <2>6 DEF Pending
  <2>8. received[d] = pos - 1 /\ pos \in Int
    BY <2>3, <2>5, <2>7 DEF IInv, StepInv
  <2> QED BY <2>4, <2>5, <2>8
<1> QED BY <1>1, Invariance, PTL DEF Spec, NoGap

=============================================================================
