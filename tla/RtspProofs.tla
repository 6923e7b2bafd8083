------------------------------ MODULE RtspProofs ------------------------------
(***************************************************************************)
(* What holds of the RTSP source for every number of clients, frames,      *)
(* sources and starts, every size of the pipe and of the groups, and every *)
(* limit of the list.                                                      *)
(***************************************************************************)
EXTENDS RtspSource, WellFoundedInduction, SequenceTheorems, TLAPS

-----------------------------------------------------------------------------
(* Greatest and least elements: Max and Min are choices, so they mean      *)
(* something only once there is something to choose.                       *)

Less == {ss \in Nat \X Nat : ss[1] < ss[2]}

\* The order of the numbers is well-founded.
LEMMA LessWellFounded == IsWellFoundedOn(Less, Nat)
BY NatLessThanWellFounded DEF OpToRel, Less

\* A smaller number is less.
LEMMA LessIsLess == \A x, y \in Nat : x < y => <<x, y>> \in Less
BY DEF Less

\* A non-empty set of numbers has a least element, and Min is it.
LEMMA LeastElement ==
  ASSUME NEW S, S \subseteq Nat, S # {}
  PROVE  Min(S) \in S /\ \A y \in S : Min(S) <= y
<1>1. PICK x \in S : \A y \in S : <<y, x>> \notin Less
  BY LessWellFounded, WFMin
<1>2. \A y \in S : x <= y
  <2> SUFFICES ASSUME NEW y \in S PROVE x <= y
    OBVIOUS
  <2>1. x \in Nat /\ y \in Nat
    OBVIOUS
  <2>2. ~(y < x)
    BY <1>1, <2>1, LessIsLess
  <2> QED BY <2>1, <2>2
<1> QED BY <1>2 DEF Min

\* A non-empty set of numbers up to n has a greatest element, and Max is it.
LEMMA GreatestElement ==
  ASSUME NEW n \in Nat, NEW S, S \subseteq 1..n, S # {}
  PROVE  Max(S) \in S /\ \A y \in S : Max(S) >= y
<1> DEFINE T == {t \in Nat : \E s \in S : t = n - s}
<1>1. T \subseteq Nat /\ T # {}
  <2>1. PICK s \in S : TRUE
    OBVIOUS
  <2>2. n - s \in T
    BY <2>1
  <2> QED BY <2>2
<1>2. PICK m \in T : \A y \in T : <<y, m>> \notin Less
  BY <1>1, LessWellFounded, WFMin
<1>3. PICK x \in S : m = n - x
  BY <1>2
<1>4. \A y \in S : x >= y
  <2> SUFFICES ASSUME NEW y \in S PROVE x >= y
    OBVIOUS
  <2>1. n - y \in T /\ n - y \in Nat /\ m \in Nat
    OBVIOUS
  <2>2. ~(n - y < m)
    BY <1>2, <2>1, LessIsLess
  <2> QED BY <1>3, <2>2
<1> QED BY <1>4 DEF Max

-----------------------------------------------------------------------------
(* What a reduction leaves.                                                *)

Intras(list) == {i \in DOMAIN list : list[i].kind = "intra"}
Others(list) == {i \in DOMAIN list : list[i].kind # "extra"}

\* list without its elements from a up to b, b excluded.
Erase(list, a, b) == SubSeq(list, 1, a - 1) \o SubSeq(list, b, Len(list))

\* With an I frame in a long list the reduction erases from the first buffer
\* that is not extra data to just before the last I frame.
LEMMA ReducedErases ==
  ASSUME NEW list \in Seq(Buffer), Len(list) >= MAX_CACHE_NUMBER, Intras(list) # {}
  PROVE  \E a, b \in 1..Len(list) :
           /\ a <= b
           /\ Reduced(list) = Erase(list, a, b)
           /\ list[b].kind = "intra"
           /\ \A i \in 1..Len(list) : i < a => list[i].kind = "extra"
           /\ \A i \in 1..Len(list) : i > b => list[i].kind # "intra"
<1> DEFINE a == Min(Others(list))
           b == Max(Intras(list))
<1>0. Len(list) \in Nat /\ DOMAIN list = 1..Len(list)
  OBVIOUS
<1>1. ~(Len(list) < MAX_CACHE_NUMBER \/ Intras(list) = {})
  BY <1>0, CacheAssumption
<1>2. Intras(list) \subseteq 1..Len(list)
  BY <1>0 DEF Intras
<1>3. b \in Intras(list) /\ \A i \in Intras(list) : i <= b
  BY <1>0, <1>1, <1>2, GreatestElement
<1>4. Intras(list) \subseteq Others(list) /\ Others(list) \subseteq 1..Len(list)
  BY <1>0 DEF Intras, Others
<1>5. a \in Others(list) /\ \A i \in Others(list) : a <= i
  BY <1>3, <1>4, <1>0, LeastElement
<1>6. a \in 1..Len(list) /\ b \in 1..Len(list) /\ a <= b
  BY <1>2, <1>3, <1>4, <1>5
<1>7. Reduced(list) = Erase(list, a, b)
  BY <1>1 DEF Reduced, Intras, Others, Erase
<1>8. list[b].kind = "intra"
  BY <1>3 DEF Intras
<1>9. \A i \in 1..Len(list) : list[i].kind # "extra" => a <= i
  BY <1>0, <1>5 DEF Others
<1>10. \A i \in 1..Len(list) : list[i].kind = "intra" => i <= b
  BY <1>0, <1>3 DEF Intras
<1> HIDE DEF a, b
<1>12. \A i \in 1..Len(list) : i < a => list[i].kind = "extra"
  BY <1>6, <1>9
<1>13. \A i \in 1..Len(list) : i > b => list[i].kind # "intra"
  BY <1>6, <1>10
<1> QED BY <1>6, <1>7, <1>8, <1>12, <1>13, Zenon

\* The reduction does so or nothing at all.
LEMMA ReducedShape ==
  ASSUME NEW list \in Seq(Buffer), Reduced(list) # list
  PROVE  \E a, b \in 1..Len(list) :
           /\ a <= b
           /\ Reduced(list) = Erase(list, a, b)
           /\ list[b].kind = "intra"
           /\ \A i \in 1..Len(list) : i < a => list[i].kind = "extra"
           /\ \A i \in 1..Len(list) : i > b => list[i].kind # "intra"
<1>1. ~(Len(list) < MAX_CACHE_NUMBER) /\ Intras(list) # {}
  BY DEF Reduced, Intras
<1>2. Len(list) >= MAX_CACHE_NUMBER
  BY <1>1, CacheAssumption
<1> QED BY <1>1, <1>2, ReducedErases

\* Erasing from a up to b, element by element.
LEMMA Erased ==
  ASSUME NEW S, NEW list \in Seq(S), NEW a \in 1..Len(list), NEW b \in 1..Len(list), a <= b
  PROVE  LET r == Erase(list, a, b) IN
         /\ r \in Seq(S) /\ Len(r) = Len(list) - (b - a)
         /\ \A i \in 1..Len(r) : r[i] = IF i < a THEN list[i] ELSE list[i + (b - a)]
<1> DEFINE front == SubSeq(list, 1, a - 1)
           back  == SubSeq(list, b, Len(list))
           r     == Erase(list, a, b)
<1>1. front \in Seq(S) /\ Len(front) = a - 1 /\ \A i \in 1..(a - 1) : front[i] = list[i]
  BY SubSeqProperties
<1>2. /\ back \in Seq(S) /\ Len(back) = Len(list) - b + 1
      /\ \A i \in 1..(Len(list) - b + 1) : back[i] = list[b + i - 1]
  BY SubSeqProperties
<1>0. r = front \o back
  BY DEF Erase
<1> HIDE DEF front, back, r
<1>3. /\ r \in Seq(S) /\ Len(r) = Len(front) + Len(back)
      /\ \A i \in 1..Len(r) : r[i] = IF i <= Len(front) THEN front[i] ELSE back[i - Len(front)]
  <2>1. /\ front \o back \in Seq(S) /\ Len(front \o back) = Len(front) + Len(back)
        /\ \A i \in 1..Len(front) + Len(back) :
             (front \o back)[i] = IF i <= Len(front) THEN front[i] ELSE back[i - Len(front)]
    BY <1>1, <1>2, ConcatProperties
  <2> QED BY <1>0, <2>1, Zenon
<1>4. Len(r) = Len(list) - (b - a)
  <2>1. Len(list) \in Nat /\ a \in Nat /\ b \in Nat
    OBVIOUS
  <2> QED BY <2>1, <1>1, <1>2, <1>3
<1>5. ASSUME NEW i \in 1..Len(r)
      PROVE  r[i] = IF i < a THEN list[i] ELSE list[i + (b - a)]
  <2>1. CASE i < a
    BY <2>1, <1>1, <1>3
  <2>2. CASE i >= a
    <3>1. i - (a - 1) \in 1..(Len(list) - b + 1)
      BY <2>2, <1>4
    <3>2. r[i] = back[i - (a - 1)]
      BY <2>2, <1>1, <1>3
    <3>3. b + (i - (a - 1)) - 1 = i + (b - a)
      OBVIOUS
    <3> QED BY <2>2, <3>1, <3>2, <3>3, <1>2
  <2> QED BY <2>1, <2>2
<1> QED BY <1>3, <1>4, <1>5 DEF r

\* A reduction leaves a list that is not longer, and an I frame if it did
\* anything at all.
LEMMA ReducedKeeps ==
  ASSUME NEW list \in Seq(Buffer)
  PROVE  /\ Reduced(list) \in Seq(Buffer)
         /\ Len(Reduced(list)) <= Len(list)
         /\ Reduced(list) = list \/ Intras(Reduced(list)) # {}
<1>1. CASE Reduced(list) = list
  BY <1>1
<1>2. CASE Reduced(list) # list
  <2>1. PICK a, b \in 1..Len(list) :
          /\ a <= b
          /\ Reduced(list) = Erase(list, a, b)
          /\ list[b].kind = "intra"
    BY <1>2, ReducedShape
  <2> DEFINE r == Erase(list, a, b)
  <2>2. /\ r \in Seq(Buffer) /\ Len(r) = Len(list) - (b - a)
        /\ \A i \in 1..Len(r) : r[i] = IF i < a THEN list[i] ELSE list[i + (b - a)]
    BY <2>1, Erased
  <2> HIDE DEF r
  <2>3. a \in 1..Len(r) /\ a + (b - a) = b
    BY <2>1, <2>2
  <2>4. r[a] = list[b]
    BY <2>2, <2>3
  <2>5. a \in Intras(r)
    BY <2>1, <2>2, <2>3, <2>4 DEF Intras
  <2>6. r \in Seq(Buffer) /\ Len(r) <= Len(list) /\ Intras(r) # {}
    BY <2>1, <2>2, <2>5
  <2> QED BY <2>1, <2>6 DEF r
<1> QED BY <1>1, <1>2

-----------------------------------------------------------------------------
(* Types, sessions, and what the pipe says of the list.                    *)

\* Types, each boolean by itself.
TypeInv ==
  /\ frames \in 0..MaxFrames /\ extras \in 0..MaxExtras /\ since_intra \in 1..Gop
  /\ cached_buffers \in Seq(Buffer) /\ pipe \in 0..PipeSize
  /\ users \subseteq Clients /\ kSessionIdList \subseteq users
  /\ sources \in 0..MaxSources /\ starts \in 0..MaxStarts /\ shown \in Buffer
  /\ connecting \in BOOLEAN /\ pushing \in BOOLEAN /\ source \in BOOLEAN
  /\ asking \in BOOLEAN /\ got_iframe \in BOOLEAN /\ popping \in BOOLEAN
  /\ crashed \in BOOLEAN

\* The input is connected while somebody plays; the source is there while
\* somebody has a stream and asks at most while it is there.
SessionInv ==
  /\ connecting = (kSessionIdList # {})
  /\ source = (users # {})
  /\ asking => source
  /\ source => sources > 0
  /\ popping => sources > 0

\* The first source: until it has seen an I frame there is one in the list, or
\* no reduction has left an int too many.
FirstInv ==
  /\ sources = 0 => ~got_iframe
  /\ sources <= 1 /\ ~got_iframe =>
       \/ Intras(cached_buffers) # {}
       \/ Len(cached_buffers) = pipe + AsNat(pushing) + AsNat(popping)
  /\ FirstSourceSafe

IInv == TypeInv /\ SessionInv /\ Announced /\ FirstInv

\* The last buffer of a list.
LEMMA IntrasAppend ==
  ASSUME NEW list \in Seq(Buffer), NEW b \in Buffer, Intras(list) # {}
  PROVE  Intras(Append(list, b)) # {}
<1>1. PICK i \in 1..Len(list) : list[i].kind = "intra"
  BY DEF Intras
<1>2. Append(list, b)[i] = list[i] /\ i \in DOMAIN Append(list, b)
  BY AppendProperties
<1> QED BY <1>1, <1>2 DEF Intras

\* An I frame that is not the first buffer is still there when that is gone.
LEMMA IntrasTail ==
  ASSUME NEW list \in Seq(Buffer), Intras(list) # {}, Head(list).kind # "intra"
  PROVE  Intras(Tail(list)) # {}
<1>1. PICK i \in 1..Len(list) : list[i].kind = "intra"
  BY DEF Intras
<1>2. i # 1 /\ list # << >>
  BY <1>1
<1>3. i - 1 \in DOMAIN Tail(list) /\ Tail(list)[i - 1] = list[i]
  BY <1>2, HeadTailProperties
<1> QED BY <1>1, <1>3 DEF Intras

\* What a push makes of the list.
LEMMA PushedList ==
  ASSUME NEW list \in Seq(Buffer), NEW b \in Buffer
  PROVE  LET l == Append(Reduced(list), b) IN
         /\ l \in Seq(Buffer) /\ Len(l) <= Len(list) + 1
         /\ Intras(l) # {} \/ (Intras(list) = {} /\ Len(l) = Len(list) + 1)
<1> DEFINE l == Append(Reduced(list), b)
<1>1. /\ Reduced(list) \in Seq(Buffer) /\ Len(Reduced(list)) <= Len(list)
      /\ Reduced(list) = list \/ Intras(Reduced(list)) # {}
  BY ReducedKeeps
<1>2. l \in Seq(Buffer) /\ Len(l) = Len(Reduced(list)) + 1
  BY <1>1, AppendProperties
<1>3. Intras(Reduced(list)) # {} => Intras(l) # {}
  BY <1>1, IntrasAppend
<1>4. Len(l) <= Len(list) + 1
  BY <1>1, <1>2
<1>5. Intras(l) # {} \/ (Intras(list) = {} /\ Len(l) = Len(list) + 1)
  BY <1>1, <1>2, <1>3
<1> QED BY <1>2, <1>4, <1>5

\* The numbers of the flags.
LEMMA Flags ==
  /\ AsNat(TRUE) = 1 /\ AsNat(FALSE) = 0
  /\ \A b \in BOOLEAN : AsNat(b) \in {0, 1}
BY DEF AsNat

\* A push, of a frame or of extra data.
LEMMA PushInv ==
  ASSUME IInv, NEW buffer \in Buffer, ~pushing, Push(buffer)
  PROVE  /\ cached_buffers' \in Seq(Buffer) /\ pushing' \in BOOLEAN
         /\ Announced' /\ FirstInv'
<1> DEFINE l == cached_buffers'
<1>1. /\ l \in Seq(Buffer) /\ Len(l) <= Len(cached_buffers) + 1
      /\ Intras(l) # {} \/ (Intras(cached_buffers) = {} /\ Len(l) = Len(cached_buffers) + 1)
  BY PushedList DEF Push, IInv, TypeInv
<1>2. /\ pipe' = pipe /\ popping' = popping /\ pushing' = TRUE
      /\ sources' = sources /\ got_iframe' = got_iframe /\ crashed' = crashed
  BY DEF Push, sessionVars, readVars
<1>3. /\ AsNat(pushing) = 0 /\ AsNat(pushing') = 1 /\ AsNat(popping') = AsNat(popping)
      /\ AsNat(popping) \in {0, 1} /\ pipe \in Nat
  <2>1. pushing = FALSE /\ popping \in BOOLEAN
    BY DEF IInv, TypeInv
  <2>2. AsNat(pushing) = 0 /\ AsNat(pushing') = 1 /\ AsNat(popping') = AsNat(popping)
    BY <1>2, <2>1, Flags, Zenon
  <2>3. AsNat(popping) \in {0, 1}
    BY <2>1, Flags, Zenon
  <2>4. pipe \in Nat
    BY PipeAssumption DEF IInv, TypeInv
  <2> QED BY <2>2, <2>3, <2>4
<1>4. Announced'
  <2>1. Len(cached_buffers) <= pipe + AsNat(pushing) + AsNat(popping)
    BY DEF IInv, Announced
  <2>2. Len(l) <= pipe' + AsNat(pushing') + AsNat(popping')
    <3>1. Len(cached_buffers) \in Nat /\ Len(l) \in Nat
      BY <1>1 DEF IInv, TypeInv
    <3> QED BY <1>1, <1>2, <1>3, <2>1, <3>1
  <2> QED BY <2>2 DEF Announced
<1>5. FirstInv'
  <2>1. ASSUME sources <= 1, ~got_iframe, Intras(l) = {}
        PROVE  Len(l) = pipe' + AsNat(pushing') + AsNat(popping')
    <3>1. Len(cached_buffers) = pipe + AsNat(pushing) + AsNat(popping)
      BY <1>1, <2>1 DEF IInv, FirstInv
    <3> QED BY <1>1, <1>2, <1>3, <2>1, <3>1
  <2> QED BY <1>2, <2>1 DEF IInv, FirstInv, FirstSourceSafe
<1> QED BY <1>1, <1>2, <1>4, <1>5

\* Nothing that these invariants read changes but numbers that count.
LEMMA Elsewhere ==
  ASSUME IInv, UNCHANGED <<queueVars, pushing, popping, crashed>>,
         sources' = sources /\ got_iframe' = got_iframe
  PROVE  Announced' /\ FirstInv'
BY DEF IInv, Announced, FirstInv, FirstSourceSafe, queueVars, Intras

\* The encoder's steps keep the invariant.
LEMMA EncoderInv == IInv /\ Encoder => IInv'
<1> SUFFICES ASSUME IInv, Encoder PROVE IInv'
  OBVIOUS
<1>1. ASSUME NEW kind \in {"intra", "pred"}, PushFrame(kind) PROVE IInv'
  <2> DEFINE b == [kind |-> kind, id |-> frames + 1]
  <2>1. /\ frames' \in 0..MaxFrames /\ since_intra' \in 1..Gop /\ extras' \in 0..MaxExtras
        /\ frames + 1 \in 0..MaxFrames
    <3>1. /\ frames \in Nat /\ frames < MaxFrames /\ frames' = frames + 1
          /\ kind = "pred" => since_intra < Gop
          /\ since_intra' = IF kind = "intra" THEN 1 ELSE since_intra + 1
          /\ since_intra \in 1..Gop /\ Gop \in Nat \ {0} /\ MaxFrames \in Nat
          /\ extras' = extras
      BY <1>1, BoundsAssumption DEF PushFrame, IInv, TypeInv
    <3>2. since_intra' \in 1..Gop
      BY <3>1
    <3> QED BY <3>1, <3>2 DEF IInv, TypeInv
  <2>2. b \in Buffer
    BY <2>1, <1>1 DEF Buffer, Kinds
  <2>3. ~pushing /\ (Push(b) \/ UNCHANGED <<queueVars, pushing, sessionVars, readVars>>)
    BY <1>1 DEF PushFrame
  <2>4. CASE Push(b)
    <3>1. cached_buffers' \in Seq(Buffer) /\ pushing' \in BOOLEAN /\ Announced' /\ FirstInv'
      BY <2>2, <2>3, <2>4, PushInv
    <3>2. UNCHANGED <<pipe, sessionVars, readVars>>
      BY <2>4 DEF Push
    <3> QED BY <2>1, <3>1, <3>2 DEF IInv, TypeInv, SessionInv, sessionVars, readVars
  <2>5. CASE UNCHANGED <<queueVars, pushing, sessionVars, readVars>>
    <3>1. Announced' /\ FirstInv'
      BY <2>5, Elsewhere DEF sessionVars, readVars
    <3> QED BY <2>1, <2>5, <3>1
            DEF IInv, TypeInv, SessionInv, sessionVars, readVars, queueVars
  <2> QED BY <2>3, <2>4, <2>5
<1>2. ASSUME PushExtra PROVE IInv'
  <2>1. NoFrame \in Buffer /\ NoFrame = [kind |-> "extra", id |-> 0]
    BY BoundsAssumption DEF NoFrame, Buffer, Kinds
  <2>2. /\ ~pushing /\ Push(NoFrame) /\ extras < MaxExtras /\ extras' = extras + 1
        /\ UNCHANGED <<frames, since_intra>>
    BY <1>2, <2>1 DEF PushExtra
  <2>3. cached_buffers' \in Seq(Buffer) /\ pushing' \in BOOLEAN /\ Announced' /\ FirstInv'
    BY <2>1, <2>2, PushInv
  <2>4. UNCHANGED <<pipe, sessionVars, readVars>>
    BY <2>2 DEF Push
  <2>5. extras' \in 0..MaxExtras
    BY <2>2, BoundsAssumption DEF IInv, TypeInv
  <2> QED BY <2>2, <2>3, <2>4, <2>5 DEF IInv, TypeInv, SessionInv, sessionVars, readVars
<1> QED BY <1>1, <1>2 DEF Encoder

\* The write to the pipe: the int is in the pipe instead of under way.
LEMMA WriteInv == IInv /\ Write => IInv'
<1> SUFFICES ASSUME IInv, Write PROVE IInv'
  OBVIOUS
<1>1. /\ pushing = TRUE /\ pushing' = FALSE /\ pipe' = pipe + 1 /\ pipe < PipeSize
      /\ UNCHANGED <<encoderVars, cached_buffers, sessionVars, readVars>>
  BY DEF Write, IInv, TypeInv
<1>2. pipe' + AsNat(pushing') = pipe + AsNat(pushing) /\ pipe' \in 0..PipeSize
  <2>1. AsNat(pushing) = 1 /\ AsNat(pushing') = 0
    BY <1>1, Flags, Zenon
  <2>2. pipe \in 0..PipeSize /\ pipe' = pipe + 1 /\ pipe < PipeSize
    BY <1>1 DEF IInv, TypeInv
  <2> QED BY <2>1, <2>2, PipeAssumption
<1>3. pushing' \in BOOLEAN
  BY <1>1
<1>4. Intras(cached_buffers)' = Intras(cached_buffers) /\ popping' = popping
  BY <1>1 DEF Intras, readVars
<1>5. Announced' /\ FirstInv'
  BY <1>1, <1>2, <1>4
     DEF IInv, Announced, FirstInv, FirstSourceSafe, sessionVars, readVars
<1> QED BY <1>1, <1>2, <1>3, <1>5
        DEF IInv, TypeInv, SessionInv, encoderVars, sessionVars, readVars

\* The sessions: what the first source has seen is forgotten only when another
\* takes its place.
LEMMA SessionsInv ==
  ASSUME IInv, NEW c \in Clients, Setup(c) \/ Play(c) \/ Teardown(c)
  PROVE  IInv'
<1>1. CASE Setup(c)
  <2>1. /\ UNCHANGED <<encoderVars, queueVars, pushing, connecting, kSessionIdList,
                       asking, starts, popping, crashed>>
        /\ users' = users \cup {c} /\ source' = TRUE
        /\ got_iframe' = (source /\ got_iframe)
        /\ shown' = IF source THEN shown ELSE NoFrame
    BY <1>1 DEF Setup
  <2>2. /\ sources \in 0..MaxSources /\ sources' \in 0..MaxSources /\ sources' > 0
        /\ sources' >= sources /\ (~source => sources' = sources + 1)
    <3>1. sources \in 0..MaxSources /\ MaxSources \in Nat
      BY BoundsAssumption DEF IInv, TypeInv
    <3>2. CASE source
      BY <1>1, <3>1, <3>2 DEF Setup, IInv, SessionInv
    <3>3. CASE ~source
      BY <1>1, <3>1, <3>3 DEF Setup
    <3> QED BY <3>2, <3>3
  <2>3. NoFrame \in Buffer
    BY BoundsAssumption DEF NoFrame, Buffer, Kinds
  <2>4. TypeInv'
    BY <2>1, <2>2, <2>3 DEF IInv, TypeInv, encoderVars, queueVars
  <2>5. SessionInv'
    BY <2>1, <2>2 DEF IInv, SessionInv
  <2>6. Announced'
    BY <2>1 DEF IInv, Announced, queueVars
  <2>7. sources' <= 1 /\ ~got_iframe' => sources <= 1 /\ ~got_iframe
    <3>1. CASE source
      <4>1. sources' = sources
        BY <1>1, <3>1 DEF Setup
      <4>2. ~got_iframe' => ~got_iframe
        BY <2>1, <3>1, Zenon
      <4> QED BY <4>1, <4>2
    <3>2. CASE ~source
      <4>1. sources' <= 1 => sources = 0
        BY <2>2, <3>2
      <4> QED BY <4>1, <2>2 DEF IInv, FirstInv
    <3> QED BY <3>1, <3>2
  <2>8. sources' # 0 /\ (sources > 1 => sources' > 1)
    BY <2>2
  <2>9. FirstInv'
    BY <2>1, <2>7, <2>8 DEF IInv, FirstInv, FirstSourceSafe, Intras, queueVars
  <2> QED BY <2>4, <2>5, <2>6, <2>9 DEF IInv
<1>2. CASE Play(c)
  <2>1. /\ UNCHANGED <<encoderVars, queueVars, pushing, users, source, sources, readVars>>
        /\ c \in users /\ asking' = TRUE /\ kSessionIdList' = kSessionIdList \cup {c}
        /\ connecting' = (connecting \/ kSessionIdList = {})
    BY <1>2 DEF Play
  <2>2. starts' \in 0..MaxStarts
    <3>1. starts \in 0..MaxStarts /\ MaxStarts \in Nat
      BY BoundsAssumption DEF IInv, TypeInv
    <3> QED BY <1>2, <3>1 DEF Play
  <2>3. TypeInv'
    BY <2>1, <2>2 DEF IInv, TypeInv, encoderVars, queueVars, readVars
  <2>4. SessionInv'
    BY <2>1 DEF IInv, SessionInv, TypeInv, readVars
  <2>5. Announced' /\ FirstInv'
    BY <2>1, Elsewhere DEF readVars
  <2> QED BY <2>3, <2>4, <2>5 DEF IInv
<1>3. CASE Teardown(c)
  <2>1. /\ UNCHANGED <<encoderVars, queueVars, pushing, sources, starts, readVars>>
        /\ users' = users \ {c} /\ kSessionIdList' = kSessionIdList \ {c}
        /\ connecting' = (connecting /\ kSessionIdList' # {})
        /\ source' = (users' # {}) /\ asking' = (asking /\ users' # {}) /\ c \in users
    BY <1>3 DEF Teardown
  <2>2. TypeInv'
    BY <2>1 DEF IInv, TypeInv, encoderVars, queueVars, readVars
  <2>3. SessionInv'
    BY <2>1 DEF IInv, SessionInv, TypeInv, readVars
  <2>4. Announced' /\ FirstInv'
    BY <2>1, Elsewhere DEF readVars
  <2> QED BY <2>2, <2>3, <2>4 DEF IInv
<1> QED BY <1>1, <1>2, <1>3

\* Reading the pipe: the int is popped with instead of in the pipe.
LEMMA ReadPipeInv == IInv /\ ReadPipe => IInv'
<1> SUFFICES ASSUME IInv, ReadPipe PROVE IInv'
  OBVIOUS
<1>1. /\ popping = FALSE /\ popping' = TRUE /\ asking /\ pipe > 0 /\ pipe' = pipe - 1
      /\ UNCHANGED <<encoderVars, cached_buffers, pushing, sessionVars, got_iframe, crashed, shown>>
  BY DEF ReadPipe, Idle, IInv, TypeInv
<1>2. AsNat(popping) = 0 /\ AsNat(popping') = 1
  BY <1>1, Flags, Zenon
<1>3. AsNat(pushing') = AsNat(pushing) /\ AsNat(pushing) \in {0, 1}
  <2>1. pushing \in BOOLEAN
    BY DEF IInv, TypeInv
  <2> QED BY <1>1, <2>1, Flags, Zenon
<1>4. pipe' \in 0..PipeSize /\ pipe \in Nat
  BY <1>1, PipeAssumption DEF IInv, TypeInv
<1>5. pipe' + AsNat(pushing') + AsNat(popping') = pipe + AsNat(pushing) + AsNat(popping)
  BY <1>1, <1>2, <1>3, <1>4
<1>6. Intras(cached_buffers)' = Intras(cached_buffers)
  BY <1>1 DEF Intras
<1>7. Announced' /\ FirstInv'
  BY <1>1, <1>5, <1>6 DEF IInv, Announced, FirstInv, FirstSourceSafe, sessionVars
<1>8. TypeInv'
  BY <1>1, <1>4 DEF IInv, TypeInv, encoderVars, sessionVars
<1>9. SessionInv'
  BY <1>1 DEF IInv, SessionInv, sessionVars
<1> QED BY <1>7, <1>8, <1>9 DEF IInv

\* Popping a buffer.
LEMMA PopBufferInv == IInv /\ PopBuffer => IInv'
<1> SUFFICES ASSUME IInv, PopBuffer PROVE IInv'
  OBVIOUS
<1> DEFINE l == cached_buffers
<1>1. /\ popping = TRUE /\ popping' = FALSE /\ l # << >> /\ cached_buffers' = Tail(l)
      /\ got_iframe' = (got_iframe \/ Head(l).kind = "intra")
      /\ shown' = IF got_iframe' /\ Head(l).kind # "extra" THEN Head(l) ELSE shown
      /\ UNCHANGED <<encoderVars, pipe, pushing, sessionVars, crashed>>
  BY DEF PopBuffer, Popping, IInv, TypeInv
<1>2. /\ l \in Seq(Buffer) /\ Head(l) \in Buffer /\ Tail(l) \in Seq(Buffer)
      /\ Len(Tail(l)) = Len(l) - 1 /\ Len(l) \in Nat
  BY <1>1, HeadTailProperties DEF IInv, TypeInv
<1>3. AsNat(popping) = 1 /\ AsNat(popping') = 0
  BY <1>1, Flags, Zenon
<1>4. AsNat(pushing') = AsNat(pushing) /\ AsNat(pushing) \in {0, 1}
  <2>1. pushing \in BOOLEAN
    BY DEF IInv, TypeInv
  <2> QED BY <1>1, <2>1, Flags, Zenon
<1>5. pipe' = pipe /\ pipe \in Nat
  BY <1>1, PipeAssumption DEF IInv, TypeInv
<1>6. Announced'
  <2>1. Len(l) <= pipe + AsNat(pushing) + AsNat(popping)
    BY DEF IInv, Announced
  <2>2. Len(cached_buffers') <= pipe' + AsNat(pushing') + AsNat(popping')
    BY <1>1, <1>2, <1>3, <1>4, <1>5, <2>1
  <2> QED BY <2>2 DEF Announced
<1>7. TypeInv'
  <2>1. shown' \in Buffer
    BY <1>1, <1>2 DEF IInv, TypeInv
  <2>2. got_iframe' \in BOOLEAN /\ popping' \in BOOLEAN
    BY <1>1
  <2> QED BY <1>1, <1>2, <2>1, <2>2 DEF IInv, TypeInv, encoderVars, sessionVars
<1>8. SessionInv'
  BY <1>1 DEF IInv, SessionInv, sessionVars
<1>9. FirstInv'
  <2>1. sources # 0 /\ sources' = sources /\ crashed' = crashed
    BY <1>1, BoundsAssumption DEF IInv, TypeInv, SessionInv, sessionVars
  <2>2. ASSUME sources <= 1, ~got_iframe', Intras(Tail(l)) = {}
        PROVE  Len(Tail(l)) = pipe' + AsNat(pushing') + AsNat(popping')
    <3>1. ~got_iframe /\ Head(l).kind # "intra"
      BY <1>1, <2>2
    <3>2. Intras(l) = {}
      BY <1>2, <2>2, <3>1, IntrasTail
    <3>3. Len(l) = pipe + AsNat(pushing) + AsNat(popping)
      BY <2>2, <3>1, <3>2 DEF IInv, FirstInv
    <3> QED BY <1>2, <1>3, <1>4, <1>5, <3>3
  <2> QED BY <1>1, <2>1, <2>2 DEF IInv, FirstInv, FirstSourceSafe
<1> QED BY <1>6, <1>7, <1>8, <1>9 DEF IInv

\* Popping from an empty list: the first source has seen an I frame.
LEMMA PopNothingInv == IInv /\ PopNothing => IInv'
<1> SUFFICES ASSUME IInv, PopNothing PROVE IInv'
  OBVIOUS
<1>1. /\ popping = TRUE /\ popping' = FALSE /\ cached_buffers = << >>
      /\ crashed' = ~got_iframe
      /\ UNCHANGED <<encoderVars, queueVars, pushing, sessionVars, got_iframe, shown>>
  BY DEF PopNothing, Popping, IInv, TypeInv
<1>2. AsNat(popping) = 1 /\ AsNat(popping') = 0
  BY <1>1, Flags, Zenon
<1>3. AsNat(pushing') = AsNat(pushing) /\ AsNat(pushing) \in {0, 1} /\ pipe \in Nat /\ pipe' = pipe
  <2>1. pushing \in BOOLEAN /\ pipe \in Nat
    BY PipeAssumption DEF IInv, TypeInv
  <2>2. AsNat(pushing') = AsNat(pushing) /\ AsNat(pushing) \in {0, 1}
    BY <1>1, <2>1, Flags, Zenon
  <2> QED BY <1>1, <2>1, <2>2 DEF queueVars
<1>4. Len(cached_buffers) = 0 /\ Intras(cached_buffers) = {} /\ cached_buffers' = cached_buffers
  BY <1>1 DEF Intras, queueVars
<1>5. Announced'
  BY <1>2, <1>3, <1>4 DEF Announced
<1>6. got_iframe \/ sources > 1
  <2>1. 0 # pipe + AsNat(pushing) + AsNat(popping)
    BY <1>2, <1>3
  <2>2. sources \in Nat
    BY BoundsAssumption DEF IInv, TypeInv
  <2> QED BY <2>1, <2>2, <1>4 DEF IInv, FirstInv
<1>7. sources' = sources /\ sources > 0 /\ got_iframe' = got_iframe /\ sources \in Nat
  BY <1>1, BoundsAssumption DEF IInv, TypeInv, SessionInv, sessionVars
<1>8. FirstInv'
  <2>1. ~(sources <= 1 /\ ~got_iframe) /\ sources # 0
    BY <1>6, <1>7
  <2>2. crashed' => sources' > 1
    BY <1>1, <1>6, <1>7
  <2> QED BY <1>7, <2>1, <2>2 DEF FirstInv, FirstSourceSafe
<1>9. TypeInv' /\ SessionInv'
  BY <1>1 DEF IInv, TypeInv, SessionInv, encoderVars, sessionVars, queueVars
<1> QED BY <1>5, <1>8, <1>9 DEF IInv

\* The invariant holds in every reachable state.
THEOREM Invariance == Spec => []IInv
<1>1. Init => IInv
  <2> SUFFICES ASSUME Init PROVE IInv
    OBVIOUS
  <2>1. TypeInv
    <3>1. NoFrame \in Buffer
      BY BoundsAssumption DEF NoFrame, Buffer, Kinds
    <3>2. /\ frames \in 0..MaxFrames /\ extras \in 0..MaxExtras /\ since_intra \in 1..Gop
          /\ pipe \in 0..PipeSize /\ sources \in 0..MaxSources /\ starts \in 0..MaxStarts
          /\ cached_buffers \in Seq(Buffer)
      BY BoundsAssumption, PipeAssumption DEF Init
    <3> QED BY <3>1, <3>2 DEF Init, TypeInv
  <2>2. SessionInv
    BY DEF Init, SessionInv
  <2>3. AsNat(pushing) = 0 /\ AsNat(popping) = 0
    BY Flags, Zenon DEF Init
  <2>4. Len(cached_buffers) = 0 /\ pipe = 0
    BY DEF Init
  <2>5. Announced /\ FirstInv
    BY <2>3, <2>4 DEF Init, Announced, FirstInv, FirstSourceSafe
  <2> QED BY <2>1, <2>2, <2>5 DEF IInv
<1>2. IInv /\ [Next]_vars => IInv'
  <2> SUFFICES ASSUME IInv, [Next]_vars PROVE IInv'
    OBVIOUS
  <2>1. CASE UNCHANGED vars
    <3>1. Announced' /\ FirstInv'
      BY <2>1, Elsewhere DEF vars, readVars, sessionVars
    <3> QED BY <2>1, <3>1 DEF IInv, TypeInv, SessionInv, vars, encoderVars, queueVars,
                              sessionVars, readVars
  <2>2. CASE Next
    BY <2>2, EncoderInv, WriteInv, SessionsInv, ReadPipeInv, PopBufferInv, PopNothingInv DEF Next
  <2> QED BY <2>1, <2>2
<1> QED BY <1>1, <1>2, PTL DEF Spec

\* The type of the state, for every bound.
THEOREM TypeCorrect == Spec => []TypeOK
<1>1. IInv => TypeOK
  BY DEF IInv, TypeInv, TypeOK
<1> QED BY <1>1, Invariance, PTL

\* Every buffer of the list is announced, whatever reductions leave.
THEOREM BuffersAnnounced == Spec => []Announced
<1>1. IInv => Announced
  BY DEF IInv
<1> QED BY <1>1, Invariance, PTL

\* The first source never dereferences a null buffer.
THEOREM FirstSourceIsSafe == Spec => []FirstSourceSafe
<1>1. IInv => FirstSourceSafe
  BY DEF IInv, FirstInv
<1> QED BY <1>1, Invariance, PTL
=============================================================================
