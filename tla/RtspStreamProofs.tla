--------------------------- MODULE RtspStreamProofs ---------------------------
(***************************************************************************)
(* What the RTSP source hands on can be decoded as long as the input has   *)
(* been started once, and how long its list can become, for every number   *)
(* of clients, frames, sources and starts, every size of the groups and    *)
(* every limit of the list.                                                *)
(***************************************************************************)
EXTENDS RtspProofs, FiniteSetTheorems

-----------------------------------------------------------------------------
(* Frames in a list.                                                       *)

IsFrame(b) == b.kind # "extra"

\* Behind a frame, a P frame comes after the frame it refers to.
Linked(list) ==
  \A i, j \in 1..Len(list) :
    i < j /\ IsFrame(list[i]) /\ list[j].kind = "pred" =>
      \E k \in i..(j - 1) : IsFrame(list[k]) /\ list[j].id = list[k].id + 1

\* When last has been handed on, a P frame refers to it or to one before it
\* in the list.
Follows(list, last) ==
  \A j \in 1..Len(list) :
    list[j].kind = "pred" =>
      \/ list[j].id = last.id + 1
      \/ \E k \in 1..(j - 1) : IsFrame(list[k]) /\ list[j].id = list[k].id + 1

\* From any frame on, the list leads to frame n.
Reaches(list, n) ==
  \A i \in 1..Len(list) :
    IsFrame(list[i]) => \E k \in i..Len(list) : IsFrame(list[k]) /\ list[k].id = n

\* When last has been handed on, it or one in the list is frame n.
ReachesFrom(list, last, n) ==
  last.id = n \/ \E k \in 1..Len(list) : IsFrame(list[k]) /\ list[k].id = n

\* How an erased list corresponds to the list.
LEMMA ErasedFrames ==
  ASSUME NEW list \in Seq(Buffer), NEW a \in 1..Len(list), NEW b \in 1..Len(list), a <= b,
         \A i \in 1..Len(list) : i < a => list[i].kind = "extra",
         NEW r, r = Erase(list, a, b)
  PROVE  /\ r \in Seq(Buffer) /\ Len(r) = Len(list) - (b - a) /\ a \in 1..Len(r)
         /\ \A i \in 1..Len(r) : i >= a => r[i] = list[i + (b - a)]
         /\ \A i \in 1..Len(r) : IsFrame(r[i]) => i >= a
<1>1. /\ r \in Seq(Buffer) /\ Len(r) = Len(list) - (b - a)
      /\ \A i \in 1..Len(r) : r[i] = IF i < a THEN list[i] ELSE list[i + (b - a)]
  BY Erased
<1>2. a \in 1..Len(r)
  BY <1>1
<1>3. \A i \in 1..Len(r) : i >= a => r[i] = list[i + (b - a)]
  BY <1>1
<1>4. ASSUME NEW i \in 1..Len(r), i < a PROVE ~IsFrame(r[i])
  <2>1. i \in 1..Len(list)
    BY <1>1
  <2>2. r[i] = list[i] /\ list[i].kind = "extra"
    BY <1>1, <1>4, <2>1
  <2> QED BY <2>2 DEF IsFrame
<1>5. \A i \in 1..Len(r) : IsFrame(r[i]) => i >= a
  BY <1>1, <1>4
<1> QED BY <1>1, <1>2, <1>3, <1>5

\* What Linked says of two places.
LEMMA LinkedAt ==
  ASSUME NEW list, Linked(list), NEW x \in 1..Len(list), NEW y \in 1..Len(list), x < y,
         IsFrame(list[x]), list[y].kind = "pred"
  PROVE  \E m \in x..(y - 1) : IsFrame(list[m]) /\ list[y].id = list[m].id + 1
BY DEF Linked

\* A reduction keeps a list linked and what it leads to.
LEMMA ReducedStream ==
  ASSUME NEW list \in Seq(Buffer), NEW last, NEW n, Linked(list)
  PROVE  LET r == Reduced(list) IN
         /\ Linked(r)
         /\ Follows(list, last) => Follows(r, last)
         /\ Reaches(list, n) => Reaches(r, n)
         /\ Reaches(list, n) /\ ReachesFrom(list, last, n) => ReachesFrom(r, last, n)
<1>1. CASE Reduced(list) = list
  BY <1>1
<1>2. CASE Reduced(list) # list
  <2>1. PICK a, b \in 1..Len(list) :
          /\ a <= b /\ Reduced(list) = Erase(list, a, b) /\ list[b].kind = "intra"
          /\ \A i \in 1..Len(list) : i < a => list[i].kind = "extra"
    BY <1>2, ReducedShape
  <2> DEFINE r == Reduced(list)
             d == b - a
  <2>2. /\ r \in Seq(Buffer) /\ Len(r) = Len(list) - d /\ a \in 1..Len(r)
        /\ \A i \in 1..Len(r) : i >= a => r[i] = list[i + d]
        /\ \A i \in 1..Len(r) : IsFrame(r[i]) => i >= a
    BY <2>1, ErasedFrames
  <2>3. d \in Nat /\ a + d = b /\ Len(list) \in Nat /\ a \in Nat \ {0} /\ b \in 1..Len(list)
    BY <2>1
  <2>4. IsFrame(list[b])
    BY <2>1 DEF IsFrame
  <2> HIDE DEF r, d
  <2>5. ASSUME NEW i \in 1..Len(r), NEW j \in 1..Len(r), i < j, IsFrame(r[i]), r[j].kind = "pred"
        PROVE  \E k \in i..(j - 1) : IsFrame(r[k]) /\ r[j].id = r[k].id + 1
    <3>1. i >= a /\ j >= a
      BY <2>2, <2>3, <2>5
    <3>2. /\ i + d \in 1..Len(list) /\ j + d \in 1..Len(list) /\ i + d < j + d
          /\ r[i] = list[i + d] /\ r[j] = list[j + d]
      BY <2>2, <2>3, <2>5, <3>1
    <3> PICK x \in 1..Len(list), y \in 1..Len(list) : x = i + d /\ y = j + d
      BY <3>2
    <3>3. PICK m \in x..(y - 1) : IsFrame(list[m]) /\ list[y].id = list[m].id + 1
      <4>1. x < y /\ IsFrame(list[x]) /\ list[y].kind = "pred"
        BY <2>5, <3>2
      <4> QED BY <4>1, LinkedAt
    <3>4. m - d \in i..(j - 1) /\ m - d \in 1..Len(r) /\ m - d >= a /\ (m - d) + d = m
      BY <2>2, <2>3, <3>1, <3>3
    <3>5. r[m - d] = list[m]
      BY <2>2, <3>4
    <3> QED BY <3>2, <3>3, <3>4, <3>5
  <2>6. Linked(r)
    BY <2>5 DEF Linked
  <2>7. ASSUME NEW j \in 1..Len(r), r[j].kind = "pred"
        PROVE  \E k \in 1..(j - 1) : IsFrame(r[k]) /\ r[j].id = r[k].id + 1
    <3>1. r[a] = list[b]
      <4>1. a >= a /\ a \in 1..Len(r)
        BY <2>2, <2>3
      <4>2. r[a] = list[a + d]
        BY <2>2, <4>1
      <4> QED BY <2>3, <4>2
    <3>2. j > a
      <4>1. IsFrame(r[j])
        BY <2>7 DEF IsFrame
      <4>2. j # a
        BY <2>1, <2>7, <3>1
      <4> QED BY <2>2, <2>3, <4>1, <4>2
    <3>3. PICK k \in a..(j - 1) : IsFrame(r[k]) /\ r[j].id = r[k].id + 1
      BY <2>2, <2>4, <2>5, <2>7, <3>1, <3>2
    <3>4. k \in 1..(j - 1)
      BY <2>3, <3>3
    <3> QED BY <3>3, <3>4
  <2>8. Follows(r, last)
    BY <2>7 DEF Follows
  <2>9. ASSUME Reaches(list, n), NEW i \in 1..Len(r), IsFrame(r[i])
        PROVE  \E k \in i..Len(r) : IsFrame(r[k]) /\ r[k].id = n
    <3>1. i >= a /\ i + d \in 1..Len(list) /\ r[i] = list[i + d]
      BY <2>2, <2>3, <2>9
    <3>2. PICK m \in (i + d)..Len(list) : IsFrame(list[m]) /\ list[m].id = n
      BY <2>9, <3>1 DEF Reaches
    <3>3. m - d \in i..Len(r) /\ m - d \in 1..Len(r) /\ m - d >= a /\ (m - d) + d = m
      BY <2>2, <2>3, <3>1, <3>2
    <3>4. r[m - d] = list[m]
      BY <2>2, <3>3
    <3> QED BY <3>2, <3>3, <3>4
  <2>10. Reaches(list, n) => Reaches(r, n)
    BY <2>9 DEF Reaches
  <2>11. Reaches(list, n) => ReachesFrom(r, last, n)
    <3> SUFFICES ASSUME Reaches(list, n) PROVE ReachesFrom(r, last, n)
      OBVIOUS
    <3>1. IsFrame(r[a])
      BY <2>2, <2>3, <2>4
    <3>2. PICK k \in a..Len(r) : IsFrame(r[k]) /\ r[k].id = n
      BY <2>2, <2>9, <3>1
    <3>3. k \in 1..Len(r)
      BY <2>3, <3>2
    <3> QED BY <3>2, <3>3 DEF ReachesFrom
  <2> QED BY <2>6, <2>8, <2>10, <2>11 DEF r
<1> QED BY <1>1, <1>2

\* Extra data at the end of a list changes nothing.
LEMMA ExtraAppended ==
  ASSUME NEW list \in Seq(Buffer), NEW last, NEW n, NEW b \in Buffer, ~IsFrame(b)
  PROVE  LET l == Append(list, b) IN
         /\ Linked(list) => Linked(l)
         /\ Follows(list, last) => Follows(l, last)
         /\ Reaches(list, n) => Reaches(l, n)
         /\ ReachesFrom(list, last, n) => ReachesFrom(l, last, n)
<1> DEFINE l == Append(list, b)
<1>1. /\ Len(list) \in Nat /\ Len(l) = Len(list) + 1 /\ l[Len(list) + 1] = b
      /\ \A i \in 1..Len(list) : l[i] = list[i]
  BY AppendProperties
<1> HIDE DEF l
<1>2. ASSUME NEW i \in 1..Len(l), IsFrame(l[i]) PROVE i \in 1..Len(list)
  BY <1>1, <1>2
<1>3. ASSUME NEW i \in 1..Len(l), l[i].kind = "pred" PROVE i \in 1..Len(list)
  BY <1>2, <1>3 DEF IsFrame
<1>4. Linked(list) => Linked(l)
  <2> SUFFICES ASSUME Linked(list), NEW i \in 1..Len(l), NEW j \in 1..Len(l),
                      i < j, IsFrame(l[i]), l[j].kind = "pred"
               PROVE  \E k \in i..(j - 1) : IsFrame(l[k]) /\ l[j].id = l[k].id + 1
    BY DEF Linked
  <2>1. i \in 1..Len(list) /\ j \in 1..Len(list) /\ l[i] = list[i] /\ l[j] = list[j]
    BY <1>1, <1>2, <1>3
  <2>2. PICK k \in i..(j - 1) : IsFrame(list[k]) /\ list[j].id = list[k].id + 1
    BY <2>1 DEF Linked
  <2>3. k \in 1..Len(list)
    BY <1>1, <2>1, <2>2
  <2> QED BY <1>1, <2>1, <2>2, <2>3
<1>5. Follows(list, last) => Follows(l, last)
  <2> SUFFICES ASSUME Follows(list, last), NEW j \in 1..Len(l), l[j].kind = "pred"
               PROVE  \/ l[j].id = last.id + 1
                      \/ \E k \in 1..(j - 1) : IsFrame(l[k]) /\ l[j].id = l[k].id + 1
    BY DEF Follows
  <2>1. j \in 1..Len(list) /\ l[j] = list[j]
    BY <1>1, <1>3
  <2>2. \A k \in 1..(j - 1) : l[k] = list[k]
    BY <1>1, <2>1
  <2> QED BY <2>1, <2>2 DEF Follows
<1>6. Reaches(list, n) => Reaches(l, n)
  <2> SUFFICES ASSUME Reaches(list, n), NEW i \in 1..Len(l), IsFrame(l[i])
               PROVE  \E k \in i..Len(l) : IsFrame(l[k]) /\ l[k].id = n
    BY DEF Reaches
  <2>1. i \in 1..Len(list) /\ l[i] = list[i]
    BY <1>1, <1>2
  <2>2. PICK k \in i..Len(list) : IsFrame(list[k]) /\ list[k].id = n
    BY <2>1 DEF Reaches
  <2>3. k \in 1..Len(list) /\ k \in i..Len(l)
    BY <1>1, <2>1, <2>2
  <2> QED BY <1>1, <2>2, <2>3
<1>7. ReachesFrom(list, last, n) => ReachesFrom(l, last, n)
  <2>1. \A k \in 1..Len(list) : k \in 1..Len(l) /\ l[k] = list[k]
    BY <1>1
  <2> QED BY <2>1 DEF ReachesFrom
<1> QED BY <1>4, <1>5, <1>6, <1>7 DEF l

\* The next frame at the end of a list that leads to the frame before it.
LEMMA FrameAppended ==
  ASSUME NEW list \in Seq(Buffer), NEW last, NEW n \in Nat,
         NEW b \in Buffer, IsFrame(b), b.id = n + 1
  PROVE  LET l == Append(list, b) IN
         /\ Linked(list) /\ Reaches(list, n) => Linked(l)
         /\ Follows(list, last) /\ ReachesFrom(list, last, n) => Follows(l, last)
         /\ Reaches(l, n + 1) /\ ReachesFrom(l, last, n + 1)
<1> DEFINE l == Append(list, b)
           z == Len(list) + 1
<1>1. /\ Len(list) \in Nat /\ z = Len(list) + 1 /\ Len(l) = z /\ l[z] = b
      /\ z \in 1..Len(l) /\ \A i \in 1..Len(list) : l[i] = list[i]
  BY AppendProperties
<1> HIDE DEF l, z
<1>2. IsFrame(l[z]) /\ l[z].id = n + 1
  BY <1>1
<1>3. ASSUME Linked(list), Reaches(list, n) PROVE Linked(l)
  <2> SUFFICES ASSUME NEW i \in 1..Len(l), NEW j \in 1..Len(l),
                      i < j, IsFrame(l[i]), l[j].kind = "pred"
               PROVE  \E k \in i..(j - 1) : IsFrame(l[k]) /\ l[j].id = l[k].id + 1
    BY DEF Linked
  <2>1. i \in 1..Len(list) /\ l[i] = list[i]
    BY <1>1
  <2>2. CASE j = z
    <3>1. PICK k \in i..Len(list) : IsFrame(list[k]) /\ list[k].id = n
      BY <1>3, <2>1 DEF Reaches
    <3>2. k \in i..(j - 1) /\ l[k] = list[k]
      BY <1>1, <2>1, <2>2, <3>1
    <3> QED BY <1>2, <2>2, <3>1, <3>2
  <2>3. CASE j # z
    <3>1. j \in 1..Len(list) /\ l[j] = list[j]
      BY <1>1, <2>3
    <3>2. IsFrame(list[i]) /\ list[j].kind = "pred"
      BY <2>1, <3>1
    <3>3. PICK k \in i..(j - 1) : IsFrame(list[k]) /\ list[j].id = list[k].id + 1
      BY <1>3, <2>1, <3>1, <3>2, LinkedAt
    <3>4. l[k] = list[k]
      BY <1>1, <2>1, <3>1, <3>3
    <3> QED BY <3>1, <3>3, <3>4
  <2> QED BY <2>2, <2>3
<1>4. ASSUME Follows(list, last), ReachesFrom(list, last, n) PROVE Follows(l, last)
  <2> SUFFICES ASSUME NEW j \in 1..Len(l), l[j].kind = "pred", l[j].id # last.id + 1
               PROVE  \E k \in 1..(j - 1) : IsFrame(l[k]) /\ l[j].id = l[k].id + 1
    BY DEF Follows
  <2>1. CASE j = z
    <3>1. PICK k \in 1..Len(list) : IsFrame(list[k]) /\ list[k].id = n
      BY <1>2, <1>4, <2>1 DEF ReachesFrom
    <3>2. k \in 1..(j - 1) /\ l[k] = list[k]
      BY <1>1, <2>1, <3>1
    <3> QED BY <1>2, <2>1, <3>1, <3>2
  <2>2. CASE j # z
    <3>1. j \in 1..Len(list) /\ l[j] = list[j]
      BY <1>1, <2>2
    <3>2. PICK k \in 1..(j - 1) : IsFrame(list[k]) /\ list[j].id = list[k].id + 1
      BY <1>4, <3>1 DEF Follows
    <3>3. l[k] = list[k]
      BY <1>1, <3>1, <3>2
    <3> QED BY <3>1, <3>2, <3>3
  <2> QED BY <2>1, <2>2
<1>5. Reaches(l, n + 1)
  <2> SUFFICES ASSUME NEW i \in 1..Len(l)
               PROVE  \E k \in i..Len(l) : IsFrame(l[k]) /\ l[k].id = n + 1
    BY DEF Reaches
  <2>1. z \in i..Len(l)
    BY <1>1
  <2> QED BY <1>2, <2>1
<1>6. ReachesFrom(l, last, n + 1)
  BY <1>1, <1>2 DEF ReachesFrom
<1> QED BY <1>3, <1>4, <1>5, <1>6 DEF l

\* The first buffer is handed on, or passed over when it is extra data.
LEMMA Popped ==
  ASSUME NEW list \in Seq(Buffer), list # << >>, NEW last, NEW n
  PROVE  LET h == Head(list)
             t == Tail(list) IN
         /\ Linked(list) => Linked(t)
         /\ Linked(list) /\ IsFrame(h) => Follows(t, h)
         /\ Follows(list, last) /\ ~IsFrame(h) => Follows(t, last)
         /\ Reaches(list, n) => Reaches(t, n)
         /\ Reaches(list, n) /\ IsFrame(h) => ReachesFrom(t, h, n)
         /\ ReachesFrom(list, last, n) /\ ~IsFrame(h) => ReachesFrom(t, last, n)
         /\ Follows(list, last) /\ h.kind = "pred" => h.id = last.id + 1
<1> DEFINE h == Head(list)
           t == Tail(list)
<1>1. /\ Len(list) \in Nat /\ Len(list) > 0 /\ Len(t) = Len(list) - 1 /\ list[1] = h
      /\ \A i \in 1..Len(t) : t[i] = list[i + 1]
  BY HeadTailProperties
<1> HIDE DEF h, t
<1>2. 1 \in 1..Len(list)
  BY <1>1
<1>3. ASSUME Linked(list) PROVE Linked(t)
  <2> SUFFICES ASSUME NEW i \in 1..Len(t), NEW j \in 1..Len(t),
                      i < j, IsFrame(t[i]), t[j].kind = "pred"
               PROVE  \E k \in i..(j - 1) : IsFrame(t[k]) /\ t[j].id = t[k].id + 1
    BY DEF Linked
  <2> PICK x \in 1..Len(list), y \in 1..Len(list) : x = i + 1 /\ y = j + 1
    BY <1>1
  <2>1. x < y /\ IsFrame(list[x]) /\ list[y].kind = "pred" /\ t[j] = list[y]
    BY <1>1
  <2>2. PICK m \in x..(y - 1) : IsFrame(list[m]) /\ list[y].id = list[m].id + 1
    BY <1>3, <2>1, LinkedAt
  <2>3. m - 1 \in i..(j - 1) /\ m - 1 \in 1..Len(t) /\ (m - 1) + 1 = m
    BY <1>1, <2>2
  <2>4. t[m - 1] = list[m]
    BY <1>1, <2>3
  <2> QED BY <2>1, <2>2, <2>3, <2>4
<1>4. ASSUME Linked(list), IsFrame(h) PROVE Follows(t, h)
  <2> SUFFICES ASSUME NEW j \in 1..Len(t), t[j].kind = "pred", t[j].id # h.id + 1
               PROVE  \E k \in 1..(j - 1) : IsFrame(t[k]) /\ t[j].id = t[k].id + 1
    BY DEF Follows
  <2> PICK x \in 1..Len(list), y \in 1..Len(list) : x = 1 /\ y = j + 1
    BY <1>1, <1>2
  <2>1. x < y /\ IsFrame(list[x]) /\ list[y].kind = "pred" /\ t[j] = list[y] /\ list[x] = h
    BY <1>1, <1>4
  <2>2. PICK m \in x..(y - 1) : IsFrame(list[m]) /\ list[y].id = list[m].id + 1
    BY <1>4, <2>1, LinkedAt
  <2>3. m # 1
    BY <2>1, <2>2
  <2>4. m - 1 \in 1..(j - 1) /\ m - 1 \in 1..Len(t) /\ (m - 1) + 1 = m
    BY <1>1, <2>2, <2>3
  <2>5. t[m - 1] = list[m]
    BY <1>1, <2>4
  <2> QED BY <2>1, <2>2, <2>4, <2>5
<1>5. ASSUME Follows(list, last), ~IsFrame(h) PROVE Follows(t, last)
  <2> SUFFICES ASSUME NEW j \in 1..Len(t), t[j].kind = "pred", t[j].id # last.id + 1
               PROVE  \E k \in 1..(j - 1) : IsFrame(t[k]) /\ t[j].id = t[k].id + 1
    BY DEF Follows
  <2> PICK y \in 1..Len(list) : y = j + 1
    BY <1>1
  <2>1. list[y].kind = "pred" /\ t[j] = list[y]
    BY <1>1
  <2>2. PICK m \in 1..(y - 1) : IsFrame(list[m]) /\ list[y].id = list[m].id + 1
    BY <1>5, <2>1 DEF Follows
  <2>3. m # 1
    BY <1>1, <1>5, <2>2
  <2>4. m - 1 \in 1..(j - 1) /\ m - 1 \in 1..Len(t) /\ (m - 1) + 1 = m
    BY <1>1, <2>2, <2>3
  <2>5. t[m - 1] = list[m]
    BY <1>1, <2>4
  <2> QED BY <2>1, <2>2, <2>4, <2>5
<1>6. ASSUME Reaches(list, n) PROVE Reaches(t, n)
  <2> SUFFICES ASSUME NEW i \in 1..Len(t), IsFrame(t[i])
               PROVE  \E k \in i..Len(t) : IsFrame(t[k]) /\ t[k].id = n
    BY DEF Reaches
  <2> PICK x \in 1..Len(list) : x = i + 1
    BY <1>1
  <2>1. IsFrame(list[x])
    BY <1>1
  <2>2. PICK m \in x..Len(list) : IsFrame(list[m]) /\ list[m].id = n
    BY <1>6, <2>1 DEF Reaches
  <2>3. m - 1 \in i..Len(t) /\ m - 1 \in 1..Len(t) /\ (m - 1) + 1 = m
    BY <1>1, <2>2
  <2>4. t[m - 1] = list[m]
    BY <1>1, <2>3
  <2> QED BY <2>2, <2>3, <2>4
<1>7. ASSUME NEW k \in 1..Len(list), IsFrame(list[k]), list[k].id = n, k # 1
      PROVE  \E i \in 1..Len(t) : IsFrame(t[i]) /\ t[i].id = n
  <2>1. k - 1 \in 1..Len(t) /\ (k - 1) + 1 = k
    BY <1>1, <1>7
  <2>2. t[k - 1] = list[k]
    BY <1>1, <2>1
  <2> QED BY <1>7, <2>1, <2>2
<1>8. ASSUME Reaches(list, n), IsFrame(h) PROVE ReachesFrom(t, h, n)
  <2>1. PICK k \in 1..Len(list) : IsFrame(list[k]) /\ list[k].id = n
    BY <1>1, <1>2, <1>8 DEF Reaches
  <2>2. k = 1 => h.id = n
    BY <1>1, <2>1
  <2> QED BY <1>7, <2>1, <2>2 DEF ReachesFrom
<1>9. ASSUME ReachesFrom(list, last, n), ~IsFrame(h) PROVE ReachesFrom(t, last, n)
  <2>1. ASSUME NEW k \in 1..Len(list), IsFrame(list[k]) PROVE k # 1
    BY <1>1, <1>9, <2>1
  <2> QED BY <1>7, <1>9, <2>1 DEF ReachesFrom
<1>10. ASSUME Follows(list, last), h.kind = "pred" PROVE h.id = last.id + 1
  <2>1. 1..(1 - 1) = {}
    OBVIOUS
  <2> QED BY <1>1, <1>2, <1>10, <2>1 DEF Follows
<1> QED BY <1>3, <1>4, <1>5, <1>6, <1>8, <1>9, <1>10 DEF h, t

-----------------------------------------------------------------------------
(* The stream of a source that has been started once.                      *)

NoFrames(list) == \A i \in 1..Len(list) : ~IsFrame(list[i])

StreamInv ==
  /\ starts = 0 => ~connecting /\ ~got_iframe /\ NoFrames(cached_buffers)
  /\ starts <= 1 =>
       /\ Linked(cached_buffers)
       /\ got_iframe => Follows(cached_buffers, shown)
       /\ connecting => Reaches(cached_buffers, frames)
       /\ connecting /\ got_iframe => ReachesFrom(cached_buffers, shown, frames)

\* Without frames there is nothing to be linked and nothing to be reached.
LEMMA NoFramesNoLinks ==
  ASSUME NEW list, NoFrames(list), NEW n PROVE Linked(list) /\ Reaches(list, n)
BY DEF NoFrames, Linked, Reaches

\* Extra data leaves a list without frames one without frames.
LEMMA NoFramesPushed ==
  ASSUME NEW list \in Seq(Buffer), NoFrames(list), NEW b \in Buffer, ~IsFrame(b)
  PROVE  NoFrames(Append(Reduced(list), b))
<1>1. Reduced(list) = list
  <2> SUFFICES ASSUME Reduced(list) # list PROVE FALSE
    OBVIOUS
  <2>1. PICK i \in 1..Len(list) : list[i].kind = "intra"
    BY ReducedShape
  <2> QED BY <2>1 DEF NoFrames, IsFrame
<1>2. /\ Len(list) \in Nat /\ Len(Append(list, b)) = Len(list) + 1
      /\ Append(list, b)[Len(list) + 1] = b
      /\ \A i \in 1..Len(list) : Append(list, b)[i] = list[i]
  BY AppendProperties
<1>3. NoFrames(Append(list, b))
  <2> SUFFICES ASSUME NEW i \in 1..Len(list) + 1 PROVE ~IsFrame(Append(list, b)[i])
    BY <1>2 DEF NoFrames
  <2>1. CASE i \in 1..Len(list)
    BY <1>2, <2>1 DEF NoFrames
  <2>2. CASE i = Len(list) + 1
    BY <1>2, <2>2
  <2> QED BY <1>2, <2>1, <2>2
<1> QED BY <1>1, <1>3

\* A list without frames has none when its first buffer is gone.
LEMMA NoFramesPopped ==
  ASSUME NEW list \in Seq(Buffer), list # << >>, NoFrames(list)
  PROVE  NoFrames(Tail(list)) /\ ~IsFrame(Head(list))
<1>1. /\ Len(list) \in Nat /\ Len(list) > 0 /\ Len(Tail(list)) = Len(list) - 1
      /\ list[1] = Head(list) /\ \A i \in 1..Len(Tail(list)) : Tail(list)[i] = list[i + 1]
  BY HeadTailProperties
<1>2. \A i \in 1..Len(Tail(list)) : i + 1 \in 1..Len(list)
  BY <1>1
<1>3. 1 \in 1..Len(list)
  BY <1>1
<1> QED BY <1>1, <1>2, <1>3 DEF NoFrames

\* Pushing a frame.
LEMMA PushFrameStream ==
  ASSUME IInv, StreamInv, NEW kind \in {"intra", "pred"}, PushFrame(kind)
  PROVE  StreamInv'
<1> DEFINE l == cached_buffers
           b == [kind |-> kind, id |-> frames + 1]
<1>1. /\ l \in Seq(Buffer) /\ frames \in Nat /\ frames' = frames + 1
      /\ b \in Buffer /\ IsFrame(b) /\ b.id = frames + 1
  <2>1. frames \in Nat /\ frames < MaxFrames /\ frames' = frames + 1 /\ l \in Seq(Buffer)
    BY BoundsAssumption DEF IInv, TypeInv, PushFrame
  <2> QED BY <2>1, BoundsAssumption DEF Buffer, Kinds, IsFrame
<1>2. UNCHANGED <<sessionVars, readVars>>
  BY DEF PushFrame, Push
<1>3. CASE connecting
  <2>1. l' = Append(Reduced(l), b)
    BY <1>3 DEF PushFrame, Push
  <2>2. Reduced(l) \in Seq(Buffer)
    BY <1>1, ReducedKeeps
  <2>3. starts # 0
    BY <1>3 DEF StreamInv
  <2>4. ASSUME starts <= 1
        PROVE  /\ Linked(l') /\ Reaches(l', frames')
               /\ got_iframe => Follows(l', shown) /\ ReachesFrom(l', shown, frames')
    <3> DEFINE r == Reduced(l)
    <3>1. /\ Linked(l) /\ Reaches(l, frames)
          /\ got_iframe => Follows(l, shown) /\ ReachesFrom(l, shown, frames)
      BY <1>3, <2>4 DEF StreamInv
    <3>2. /\ Linked(r) /\ Reaches(r, frames)
          /\ got_iframe => Follows(r, shown) /\ ReachesFrom(r, shown, frames)
      BY <1>1, <3>1, ReducedStream
    <3> HIDE DEF r, b
    <3>3. /\ Linked(Append(r, b)) /\ Reaches(Append(r, b), frames + 1)
          /\ got_iframe => /\ Follows(Append(r, b), shown)
                           /\ ReachesFrom(Append(r, b), shown, frames + 1)
      BY <1>1, <2>2, <3>2, FrameAppended DEF r
    <3> QED BY <1>1, <2>1, <3>3 DEF r, b
  <2> QED BY <1>2, <2>3, <2>4 DEF StreamInv, sessionVars, readVars
<1>4. CASE ~connecting
  <2>1. l' = l
    BY <1>4 DEF PushFrame, queueVars
  <2> QED BY <1>2, <1>4, <2>1 DEF StreamInv, sessionVars, readVars
<1> QED BY <1>3, <1>4

\* Pushing extra data.
LEMMA PushExtraStream ==
  ASSUME IInv, StreamInv, PushExtra PROVE StreamInv'
<1> DEFINE l == cached_buffers
           b == [kind |-> "extra", id |-> 0]
           r == Reduced(l)
<1>1. l \in Seq(Buffer) /\ b \in Buffer /\ ~IsFrame(b)
  BY BoundsAssumption DEF IInv, TypeInv, Buffer, Kinds, IsFrame
<1>2. /\ l' = Append(r, b) /\ frames' = frames
      /\ UNCHANGED <<sessionVars, readVars>>
  BY DEF PushExtra, Push
<1>3. r \in Seq(Buffer)
  BY <1>1, ReducedKeeps
<1>4. NoFrames(l) => NoFrames(Append(r, b))
  BY <1>1, NoFramesPushed
<1>5. ASSUME starts <= 1
      PROVE  /\ Linked(l')
             /\ got_iframe => Follows(l', shown)
             /\ connecting => Reaches(l', frames)
             /\ connecting /\ got_iframe => ReachesFrom(l', shown, frames)
  <2>1. /\ Linked(r)
        /\ got_iframe => Follows(r, shown)
        /\ connecting => Reaches(r, frames)
        /\ connecting /\ got_iframe => ReachesFrom(r, shown, frames)
    BY <1>1, <1>5, ReducedStream DEF StreamInv
  <2> HIDE DEF r, b, l
  <2> QED BY <1>1, <1>2, <1>3, <2>1, ExtraAppended
<1> QED BY <1>2, <1>4, <1>5 DEF StreamInv, sessionVars, readVars

\* The sessions.
LEMMA SessionsStream ==
  ASSUME IInv, StreamInv, NEW c \in Clients, Setup(c) \/ Play(c) \/ Teardown(c)
  PROVE  StreamInv'
<1>1. cached_buffers' = cached_buffers /\ frames' = frames
  BY DEF Setup, Play, Teardown, queueVars, encoderVars
<1>2. CASE Setup(c)
  <2>1. /\ starts' = starts /\ connecting' = connecting
        /\ got_iframe' = (source /\ got_iframe) /\ shown' = IF source THEN shown ELSE NoFrame
    BY <1>2 DEF Setup
  <2>2. got_iframe' => got_iframe /\ shown' = shown
    BY <2>1
  <2> QED BY <1>1, <2>1, <2>2 DEF StreamInv
<1>3. CASE Play(c)
  <2>1. /\ got_iframe' = got_iframe /\ shown' = shown
        /\ connecting' = (connecting \/ kSessionIdList = {})
        /\ starts' = IF kSessionIdList = {} THEN starts + 1 ELSE starts
        /\ starts \in Nat /\ connecting = (kSessionIdList # {})
    BY <1>3, BoundsAssumption DEF Play, readVars, IInv, TypeInv, SessionInv
  <2>2. CASE kSessionIdList = {}
    <3>1. starts' # 0 /\ (starts' <= 1 => starts = 0)
      BY <2>1, <2>2
    <3>2. starts = 0 => /\ ~got_iframe
                        /\ Linked(cached_buffers) /\ Reaches(cached_buffers, frames)
      BY NoFramesNoLinks DEF StreamInv
    <3> QED BY <1>1, <2>1, <3>1, <3>2 DEF StreamInv
  <2>3. CASE kSessionIdList # {}
    <3>1. starts' = starts /\ connecting /\ connecting'
      BY <2>1, <2>3
    <3> QED BY <1>1, <2>1, <3>1 DEF StreamInv
  <2> QED BY <2>2, <2>3
<1>4. CASE Teardown(c)
  <2>1. /\ starts' = starts /\ (connecting' => connecting)
        /\ got_iframe' = got_iframe /\ shown' = shown
    BY <1>4 DEF Teardown, readVars
  <2> QED BY <1>1, <2>1 DEF StreamInv
<1> QED BY <1>2, <1>3, <1>4

\* Popping a buffer; what is shown then is decodable.
LEMMA PopBufferStream ==
  ASSUME IInv, StreamInv, PopBuffer
  PROVE  /\ StreamInv'
         /\ starts' <= 1 /\ shown' # shown /\ shown'.kind = "pred" => shown'.id = shown.id + 1
<1> DEFINE l == cached_buffers
           h == Head(l)
           t == Tail(l)
<1>1. /\ l \in Seq(Buffer) /\ l # << >> /\ l' = t
      /\ got_iframe' = (got_iframe \/ h.kind = "intra")
      /\ shown' = IF got_iframe' /\ h.kind # "extra" THEN h ELSE shown
      /\ starts' = starts /\ connecting' = connecting /\ frames' = frames
  BY DEF PopBuffer, IInv, TypeInv, sessionVars, encoderVars
<1>2. /\ Linked(l) => Linked(t)
      /\ Linked(l) /\ IsFrame(h) => Follows(t, h)
      /\ Follows(l, shown) /\ ~IsFrame(h) => Follows(t, shown)
      /\ Reaches(l, frames) => Reaches(t, frames)
      /\ Reaches(l, frames) /\ IsFrame(h) => ReachesFrom(t, h, frames)
      /\ ReachesFrom(l, shown, frames) /\ ~IsFrame(h) => ReachesFrom(t, shown, frames)
      /\ Follows(l, shown) /\ h.kind = "pred" => h.id = shown.id + 1
  BY <1>1, Popped
<1>3. NoFrames(l) => NoFrames(t) /\ ~IsFrame(h)
  BY <1>1, NoFramesPopped
<1>4. /\ IsFrame(h) <=> h.kind # "extra"
      /\ got_iframe' /\ IsFrame(h) => shown' = h
      /\ ~IsFrame(h) => shown' = shown
      /\ got_iframe => got_iframe'
      /\ got_iframe' /\ ~IsFrame(h) => got_iframe
  BY <1>1 DEF IsFrame
<1> HIDE DEF l, h, t
<1>5. starts = 0 => ~connecting' /\ ~got_iframe' /\ NoFrames(t)
  <2>1. starts = 0 => ~connecting /\ ~got_iframe /\ NoFrames(l)
    BY DEF StreamInv, l
  <2> QED BY <1>1, <1>3, <1>4, <2>1
<1>6. ASSUME starts <= 1
      PROVE  /\ Linked(t)
             /\ got_iframe' => Follows(t, shown')
             /\ connecting => Reaches(t, frames)
             /\ connecting /\ got_iframe' => ReachesFrom(t, shown', frames)
             /\ got_iframe /\ h.kind = "pred" => h.id = shown.id + 1
  <2>1. /\ Linked(l)
        /\ got_iframe => Follows(l, shown)
        /\ connecting => Reaches(l, frames)
        /\ connecting /\ got_iframe => ReachesFrom(l, shown, frames)
    BY <1>6 DEF StreamInv, l
  <2>2. CASE IsFrame(h)
    BY <1>2, <1>4, <2>1, <2>2
  <2>3. CASE ~IsFrame(h)
    BY <1>2, <1>4, <2>1, <2>3
  <2> QED BY <2>2, <2>3
<1>7. StreamInv'
  BY <1>1, <1>5, <1>6 DEF StreamInv, l
<1>8. ASSUME starts' <= 1, shown' # shown, shown'.kind = "pred" PROVE shown'.id = shown.id + 1
  <2>1. shown' = h /\ h.kind = "pred" /\ got_iframe'
    BY <1>1, <1>8
  <2>2. got_iframe
    BY <1>1, <2>1
  <2> QED BY <1>1, <1>6, <1>8, <2>1, <2>2
<1> QED BY <1>7, <1>8

\* The other steps leave the list and what has been shown alone.
LEMMA OtherStream ==
  ASSUME IInv, StreamInv, Write \/ ReadPipe \/ PopNothing \/ UNCHANGED vars
  PROVE  StreamInv' /\ shown' = shown
<1>1. UNCHANGED <<cached_buffers, frames, starts, connecting, got_iframe, shown>>
  BY DEF Write, ReadPipe, PopNothing, vars, encoderVars, queueVars, sessionVars, readVars
<1> QED BY <1>1 DEF StreamInv

\* Where a P frame is shown, it was popped.
LEMMA StreamStep ==
  ASSUME IInv, StreamInv, [Next]_vars
  PROVE  /\ StreamInv'
         /\ starts' <= 1 /\ shown' # shown /\ shown'.kind = "pred" => shown'.id = shown.id + 1
<1>1. ASSUME NEW kind \in {"intra", "pred"}, PushFrame(kind) PROVE StreamInv' /\ shown' = shown
  BY <1>1, PushFrameStream DEF PushFrame, Push, readVars
<1>2. ASSUME PushExtra PROVE StreamInv' /\ shown' = shown
  BY <1>2, PushExtraStream DEF PushExtra, Push, readVars
<1>3. ASSUME NEW c \in Clients, Setup(c) \/ Play(c) \/ Teardown(c)
      PROVE  StreamInv' /\ (shown' = shown \/ shown'.kind # "pred")
  <2>1. StreamInv'
    BY <1>3, SessionsStream
  <2>2. Setup(c) => shown' = shown \/ shown' = NoFrame
    BY DEF Setup
  <2>3. Play(c) \/ Teardown(c) => shown' = shown
    BY DEF Play, Teardown, readVars
  <2>4. NoFrame.kind # "pred"
    BY DEF NoFrame
  <2> QED BY <1>3, <2>1, <2>2, <2>3, <2>4
<1>4. CASE PopBuffer
  BY <1>4, PopBufferStream
<1>5. CASE Write \/ ReadPipe \/ PopNothing \/ UNCHANGED vars
  BY <1>5, OtherStream
<1> QED BY <1>1, <1>2, <1>3, <1>4, <1>5 DEF Next, Encoder

\* The stream of a source started once, in every reachable state.
THEOREM StreamInvariance == Spec => []StreamInv
<1>1. Init => StreamInv
  <2> SUFFICES ASSUME Init PROVE StreamInv
    OBVIOUS
  <2>1. cached_buffers = << >> /\ ~connecting /\ ~got_iframe /\ NoFrames(cached_buffers)
    BY DEF Init, NoFrames
  <2>2. Linked(cached_buffers)
    BY <2>1 DEF Linked
  <2> QED BY <2>1, <2>2 DEF StreamInv
<1>2. IInv /\ StreamInv /\ [Next]_vars => StreamInv'
  BY StreamStep
<1> QED BY <1>1, <1>2, Invariance, PTL DEF Spec

\* A P frame is handed on right after the frame it refers to, as long as the
\* input has been started once, whatever is reduced and whoever comes and goes.
THEOREM HandedOnDecodable == Spec => Decodable
<1>1. IInv /\ StreamInv /\ [Next]_vars =>
        [starts' <= 1 /\ shown' # shown /\ shown'.kind = "pred" => shown'.id = shown.id + 1]_vars
  BY StreamStep
<1> QED BY <1>1, Invariance, StreamInvariance, PTL DEF Spec, Decodable

-----------------------------------------------------------------------------
(* How long the list can become.                                           *)

\* The places of extra data, and of the frames from the last I frame on.
Extra(list)  == {i \in 1..Len(list) : ~IsFrame(list[i])}
Recent(list) ==
  {i \in 1..Len(list) : /\ IsFrame(list[i])
                        /\ \A j \in 1..Len(list) : j > i => list[j].kind # "intra"}

\* The P frames of n groups.
Groups(n) == n * (Gop - 1)

\* Extra data in the list has been sent; each start leaves at most the P frames
\* of one group behind the last I frame, and the current group is under way.
CountInv ==
  /\ Cardinality(Extra(cached_buffers)) <= extras
  /\ Cardinality(Recent(cached_buffers)) <= Groups(starts) + 1
  /\ connecting => /\ starts >= 1
                   /\ Cardinality(Recent(cached_buffers)) <= Groups(starts - 1) + since_intra
  /\ \/ Len(cached_buffers) <= MAX_CACHE_NUMBER
     \/ Len(cached_buffers) <= extras + Groups(starts) + 2

\* One group more.
LEMMA GroupsNext ==
  ASSUME NEW n \in Nat
  PROVE  Groups(n) \in Nat /\ Groups(n + 1) = Groups(n) + (Gop - 1)
<1>1. Gop - 1 \in Nat
  BY BoundsAssumption
<1>2. \A g \in Nat : n * g \in Nat /\ (n + 1) * g = n * g + g
  OBVIOUS
<1> QED BY <1>1, <1>2 DEF Groups

\* The numbers up to n are n.
LEMMA IntervalCount ==
  ASSUME NEW n \in Nat PROVE Cardinality(1..n) = n
<1>1. Cardinality(1..n) = IF 1 > n THEN 0 ELSE n - 1 + 1
  BY FS_Interval
<1> QED BY <1>1

\* Places can be counted.
LEMMA Counted ==
  ASSUME NEW list \in Seq(Buffer)
  PROVE  /\ IsFiniteSet(Extra(list)) /\ Cardinality(Extra(list)) \in Nat
         /\ IsFiniteSet(Recent(list)) /\ Cardinality(Recent(list)) \in Nat
<1>1. IsFiniteSet(1..Len(list))
  BY FS_Interval
<1>2. Extra(list) \in SUBSET (1..Len(list)) /\ Recent(list) \in SUBSET (1..Len(list))
  BY DEF Extra, Recent
<1>3. IsFiniteSet(Extra(list)) /\ IsFiniteSet(Recent(list))
  BY <1>1, <1>2, FS_Subset
<1> QED BY <1>3, FS_CardinalityType

\* A part of a set is not larger, one element makes it larger by one at most.
LEMMA NotMore ==
  ASSUME NEW S, NEW T, IsFiniteSet(T), NEW x
  PROVE  /\ S \subseteq T => Cardinality(S) <= Cardinality(T)
         /\ S \subseteq T \cup {x} => Cardinality(S) <= Cardinality(T) + 1
<1>1. S \subseteq T => Cardinality(S) <= Cardinality(T)
  BY FS_Subset
<1>2. IsFiniteSet(T \cup {x}) /\ Cardinality(T \cup {x}) <= Cardinality(T) + 1
  <2>1. /\ IsFiniteSet(T \cup {x})
        /\ Cardinality(T \cup {x}) = IF x \in T THEN Cardinality(T) ELSE Cardinality(T) + 1
    BY FS_AddElement
  <2>2. Cardinality(T) \in Nat
    BY FS_CardinalityType
  <2> QED BY <2>1, <2>2
<1>3. ASSUME S \subseteq T \cup {x} PROVE Cardinality(S) <= Cardinality(T) + 1
  <2>1. IsFiniteSet(S) /\ Cardinality(S) <= Cardinality(T \cup {x})
    BY <1>2, <1>3, FS_Subset
  <2>2. /\ Cardinality(S) \in Nat /\ Cardinality(T \cup {x}) \in Nat /\ Cardinality(T) \in Nat
    BY <1>2, <2>1, FS_CardinalityType
  <2> QED BY <1>2, <2>1, <2>2
<1> QED BY <1>1, <1>3

\* A reduction adds no place of either sort.
LEMMA ReducedCount ==
  ASSUME NEW list \in Seq(Buffer)
  PROVE  LET r == Reduced(list) IN
         /\ Cardinality(Extra(r)) <= Cardinality(Extra(list))
         /\ Cardinality(Recent(r)) <= Cardinality(Recent(list))
<1>1. CASE Reduced(list) = list
  BY <1>1, Counted
<1>2. CASE Reduced(list) # list
  <2>1. PICK a, b \in 1..Len(list) :
          /\ a <= b /\ Reduced(list) = Erase(list, a, b)
          /\ \A i \in 1..Len(list) : i < a => list[i].kind = "extra"
    BY <1>2, ReducedShape
  <2> DEFINE r == Reduced(list)
             d == b - a
             f == [i \in Extra(r) |-> IF i < a THEN i ELSE i + d]
             g == [i \in Recent(r) |-> i + d]
  <2>2. /\ r \in Seq(Buffer) /\ Len(r) = Len(list) - d /\ a \in 1..Len(r)
        /\ \A i \in 1..Len(r) : i >= a => r[i] = list[i + d]
        /\ \A i \in 1..Len(r) : IsFrame(r[i]) => i >= a
    BY <2>1, ErasedFrames
  <2>3. d \in Nat /\ Len(list) \in Nat /\ a \in Nat \ {0}
    BY <2>1
  <2> HIDE DEF r, d
  <2>4. f \in Injection(Extra(r), Extra(list))
    <3>1. ASSUME NEW i \in Extra(r) PROVE f[i] \in Extra(list)
      <4>1. i \in 1..Len(r) /\ ~IsFrame(r[i])
        BY DEF Extra
      <4>2. CASE i < a
        <5>1. i \in 1..Len(list) /\ list[i].kind = "extra"
          BY <2>1, <2>2, <2>3, <4>1, <4>2
        <5> QED BY <4>2, <5>1 DEF Extra, IsFrame
      <4>3. CASE i >= a
        <5>1. i + d \in 1..Len(list) /\ r[i] = list[i + d] /\ ~(i < a)
          BY <2>2, <2>3, <4>1, <4>3
        <5> QED BY <4>1, <5>1 DEF Extra
      <4> QED BY <2>3, <4>1, <4>2, <4>3
    <3>2. ASSUME NEW i \in Extra(r), NEW j \in Extra(r), f[i] = f[j] PROVE i = j
      <4>1. i \in Int /\ j \in Int
        BY DEF Extra
      <4> QED BY <2>3, <3>2, <4>1
    <3> QED BY <3>1, <3>2 DEF Injection, IsInjective
  <2>5. g \in Injection(Recent(r), Recent(list))
    <3>1. ASSUME NEW i \in Recent(r) PROVE i + d \in Recent(list)
      <4>1. /\ i \in 1..Len(r) /\ IsFrame(r[i])
            /\ \A j \in 1..Len(r) : j > i => r[j].kind # "intra"
        BY DEF Recent
      <4>2. i >= a /\ i + d \in 1..Len(list) /\ r[i] = list[i + d]
        BY <2>2, <2>3, <4>1
      <4>3. ASSUME NEW j \in 1..Len(list), j > i + d PROVE list[j].kind # "intra"
        <5>1. j - d \in 1..Len(r) /\ j - d > i /\ j - d >= a /\ (j - d) + d = j
          BY <2>2, <2>3, <4>1, <4>2, <4>3
        <5>2. r[j - d] = list[j]
          BY <2>2, <5>1
        <5> QED BY <4>1, <5>1, <5>2
      <4> QED BY <4>1, <4>2, <4>3 DEF Recent
    <3>2. ASSUME NEW i \in Recent(r), NEW j \in Recent(r), g[i] = g[j] PROVE i = j
      <4>1. i \in Int /\ j \in Int
        BY DEF Recent
      <4> QED BY <2>3, <3>2, <4>1
    <3> QED BY <3>1, <3>2 DEF Injection, IsInjective
  <2> HIDE DEF f, g
  <2>6. Cardinality(Extra(r)) <= Cardinality(Extra(list))
    BY <2>4, Counted, FS_Injection
  <2>7. Cardinality(Recent(r)) <= Cardinality(Recent(list))
    BY <2>5, Counted, FS_Injection
  <2> QED BY <2>6, <2>7 DEF r
<1> QED BY <1>1, <1>2

\* Once a long list has been reduced there is nothing but extra data and frames
\* from the last I frame on.
LEMMA ReducedCovered ==
  ASSUME NEW list \in Seq(Buffer), Len(list) >= MAX_CACHE_NUMBER
  PROVE  LET r == Reduced(list) IN
         Len(r) <= Cardinality(Extra(r)) + Cardinality(Recent(r))
<1> DEFINE r == Reduced(list)
<1>1. r \in Seq(Buffer)
  BY ReducedKeeps
<1>2. ASSUME NEW i \in 1..Len(r), IsFrame(r[i]), NEW j \in 1..Len(r), j > i
      PROVE  r[j].kind # "intra"
  <2>1. CASE Intras(list) = {}
    <3>1. r = list
      BY <2>1 DEF Reduced, Intras
    <3> QED BY <2>1, <3>1 DEF Intras
  <2>2. CASE Intras(list) # {}
    <3>1. PICK a, b \in 1..Len(list) :
            /\ a <= b /\ r = Erase(list, a, b)
            /\ \A k \in 1..Len(list) : k < a => list[k].kind = "extra"
            /\ \A k \in 1..Len(list) : k > b => list[k].kind # "intra"
      BY <2>2, ReducedErases
    <3>2. /\ r \in Seq(Buffer) /\ Len(r) = Len(list) - (b - a) /\ a \in 1..Len(r)
          /\ \A k \in 1..Len(r) : k >= a => r[k] = list[k + (b - a)]
          /\ \A k \in 1..Len(r) : IsFrame(r[k]) => k >= a
      BY <3>1, ErasedFrames
    <3> HIDE DEF r
    <3>3. i >= a
      BY <1>2, <3>2
    <3>4. j >= a /\ j + (b - a) \in 1..Len(list) /\ j + (b - a) > b
      BY <1>2, <3>1, <3>2, <3>3
    <3> QED BY <3>1, <3>2, <3>4
  <2> QED BY <2>1, <2>2
<1> HIDE DEF r
<1>3. 1..Len(r) = Extra(r) \cup Recent(r)
  BY <1>2 DEF Extra, Recent
<1>4. /\ IsFiniteSet(Extra(r)) /\ Cardinality(Extra(r)) \in Nat
      /\ IsFiniteSet(Recent(r)) /\ Cardinality(Recent(r)) \in Nat
  BY <1>1, Counted
<1>5. Cardinality(1..Len(r)) = Len(r)
  <2>1. Len(r) \in Nat
    BY <1>1
  <2> QED BY <2>1, IntervalCount
<1>6. /\ Cardinality(Extra(r) \cup Recent(r))
           = Cardinality(Extra(r)) + Cardinality(Recent(r)) - Cardinality(Extra(r) \cap Recent(r))
      /\ Cardinality(Extra(r) \cap Recent(r)) \in Nat
  <2>1. IsFiniteSet(Extra(r) \cap Recent(r))
    BY <1>4, FS_Subset
  <2> QED BY <1>4, <2>1, FS_Union, FS_CardinalityType
<1>7. Len(r) <= Cardinality(Extra(r)) + Cardinality(Recent(r))
  <2>1. Len(r) = Cardinality(Extra(r) \cup Recent(r))
    BY <1>3, <1>5
  <2> QED BY <1>4, <1>6, <2>1
<1> QED BY <1>7 DEF r

\* What one buffer more adds.
LEMMA AppendedCount ==
  ASSUME NEW list \in Seq(Buffer), NEW b \in Buffer
  PROVE  LET l == Append(list, b) IN
         /\ Cardinality(Extra(l)) <= Cardinality(Extra(list)) + (IF IsFrame(b) THEN 0 ELSE 1)
         /\ ~IsFrame(b) => Cardinality(Recent(l)) <= Cardinality(Recent(list))
         /\ Cardinality(Recent(l)) <= Cardinality(Recent(list)) + 1
         /\ b.kind = "intra" => Cardinality(Recent(l)) <= 1
<1> DEFINE l == Append(list, b)
           z == Len(list) + 1
<1>1. /\ Len(list) \in Nat /\ Len(l) = z /\ z = Len(list) + 1 /\ l[z] = b /\ l \in Seq(Buffer)
      /\ \A i \in 1..Len(list) : l[i] = list[i]
  BY AppendProperties
<1>2. /\ IsFiniteSet(Extra(list)) /\ Cardinality(Extra(list)) \in Nat
      /\ IsFiniteSet(Recent(list)) /\ Cardinality(Recent(list)) \in Nat
  BY Counted
<1> HIDE DEF l, z
<1>3. \A i \in 1..Len(l) : i = z \/ (i \in 1..Len(list) /\ l[i] = list[i])
  BY <1>1
<1>4. Extra(l) \subseteq Extra(list) \cup {z} /\ (IsFrame(b) => Extra(l) \subseteq Extra(list))
  BY <1>1, <1>3 DEF Extra
<1>5. \A j \in 1..Len(list) : j \in 1..Len(l) /\ l[j] = list[j]
  BY <1>1
<1>6. Recent(l) \subseteq Recent(list) \cup {z}
  <2> SUFFICES ASSUME NEW i \in Recent(l), i # z PROVE i \in Recent(list)
    OBVIOUS
  <2>1. /\ i \in 1..Len(l) /\ IsFrame(l[i])
        /\ \A j \in 1..Len(l) : j > i => l[j].kind # "intra"
    BY DEF Recent
  <2>2. i \in 1..Len(list) /\ l[i] = list[i]
    BY <1>3, <2>1
  <2>3. \A j \in 1..Len(list) : j > i => list[j].kind # "intra"
    BY <1>5, <2>1
  <2> QED BY <2>1, <2>2, <2>3 DEF Recent
<1>7. ~IsFrame(b) => Recent(l) \subseteq Recent(list)
  <2>1. ~IsFrame(b) => z \notin Recent(l)
    BY <1>1 DEF Recent
  <2> QED BY <1>6, <2>1
<1>8. b.kind = "intra" => Recent(l) \subseteq {} \cup {z}
  <2> SUFFICES ASSUME b.kind = "intra", NEW i \in Recent(l), i # z PROVE FALSE
    OBVIOUS
  <2>1. i \in 1..Len(l) /\ \A j \in 1..Len(l) : j > i => l[j].kind # "intra"
    BY DEF Recent
  <2>2. z \in 1..Len(l) /\ z > i
    BY <1>1, <2>1
  <2> QED BY <1>1, <2>1, <2>2
<1>9. IsFrame(b) => Cardinality(Extra(l)) <= Cardinality(Extra(list))
  BY <1>2, <1>4, NotMore
<1>10. Cardinality(Extra(l)) <= Cardinality(Extra(list)) + 1
  BY <1>2, <1>4, NotMore
<1>11. ~IsFrame(b) => Cardinality(Recent(l)) <= Cardinality(Recent(list))
  BY <1>2, <1>7, NotMore
<1>12. Cardinality(Recent(l)) <= Cardinality(Recent(list)) + 1
  BY <1>2, <1>6, NotMore
<1>13. b.kind = "intra" => Cardinality(Recent(l)) <= Cardinality({}) + 1
  BY <1>8, NotMore, FS_EmptySet
<1>14. Cardinality(Extra(l)) <= Cardinality(Extra(list)) + (IF IsFrame(b) THEN 0 ELSE 1)
  BY <1>2, <1>9, <1>10
<1>15. b.kind = "intra" => Cardinality(Recent(l)) <= 1
  BY <1>13, FS_EmptySet
<1> QED BY <1>11, <1>12, <1>14, <1>15 DEF l

\* Taking the first buffer away adds nothing.
LEMMA PoppedCount ==
  ASSUME NEW list \in Seq(Buffer), list # << >>
  PROVE  /\ Cardinality(Extra(Tail(list))) <= Cardinality(Extra(list))
         /\ Cardinality(Recent(Tail(list))) <= Cardinality(Recent(list))
<1> DEFINE t == Tail(list)
           f == [i \in Extra(t) |-> i + 1]
           g == [i \in Recent(t) |-> i + 1]
<1>1. /\ Len(list) \in Nat /\ Len(t) = Len(list) - 1
      /\ \A i \in 1..Len(t) : t[i] = list[i + 1]
  BY HeadTailProperties
<1> HIDE DEF t
<1>2. f \in Injection(Extra(t), Extra(list))
  <2>1. ASSUME NEW i \in Extra(t) PROVE i + 1 \in Extra(list)
    <3>1. i \in 1..Len(t) /\ ~IsFrame(t[i])
      BY DEF Extra
    <3>2. i + 1 \in 1..Len(list) /\ t[i] = list[i + 1]
      BY <1>1, <3>1
    <3> QED BY <3>1, <3>2 DEF Extra
  <2>2. ASSUME NEW i \in Extra(t), NEW j \in Extra(t), f[i] = f[j] PROVE i = j
    <3>1. i \in Int /\ j \in Int
      BY DEF Extra
    <3> QED BY <2>2, <3>1
  <2> QED BY <2>1, <2>2 DEF Injection, IsInjective
<1>3. g \in Injection(Recent(t), Recent(list))
  <2>1. ASSUME NEW i \in Recent(t) PROVE i + 1 \in Recent(list)
    <3>1. /\ i \in 1..Len(t) /\ IsFrame(t[i])
          /\ \A j \in 1..Len(t) : j > i => t[j].kind # "intra"
      BY DEF Recent
    <3>2. i + 1 \in 1..Len(list) /\ t[i] = list[i + 1]
      BY <1>1, <3>1
    <3>3. ASSUME NEW j \in 1..Len(list), j > i + 1 PROVE list[j].kind # "intra"
      <4>1. j - 1 \in 1..Len(t) /\ j - 1 > i /\ (j - 1) + 1 = j
        BY <1>1, <3>1, <3>3
      <4>2. t[j - 1] = list[j]
        BY <1>1, <4>1
      <4> QED BY <3>1, <4>1, <4>2
    <3> QED BY <3>1, <3>2, <3>3 DEF Recent
  <2>2. ASSUME NEW i \in Recent(t), NEW j \in Recent(t), g[i] = g[j] PROVE i = j
    <3>1. i \in Int /\ j \in Int
      BY DEF Recent
    <3> QED BY <2>2, <3>1
  <2> QED BY <2>1, <2>2 DEF Injection, IsInjective
<1> HIDE DEF f, g
<1>4. Cardinality(Extra(t)) <= Cardinality(Extra(list))
  BY <1>2, Counted, FS_Injection
<1>5. Cardinality(Recent(t)) <= Cardinality(Recent(list))
  BY <1>3, Counted, FS_Injection
<1> QED BY <1>4, <1>5 DEF t

\* What a push makes of the counts, and of the length.
LEMMA PushedCount ==
  ASSUME NEW list \in Seq(Buffer), NEW b \in Buffer
  PROVE  LET l == Append(Reduced(list), b) IN
         /\ l \in Seq(Buffer) /\ Cardinality(Extra(l)) \in Nat /\ Cardinality(Recent(l)) \in Nat
         /\ Cardinality(Extra(l)) <= Cardinality(Extra(list)) + (IF IsFrame(b) THEN 0 ELSE 1)
         /\ ~IsFrame(b) => Cardinality(Recent(l)) <= Cardinality(Recent(list))
         /\ Cardinality(Recent(l)) <= Cardinality(Recent(list)) + 1
         /\ b.kind = "intra" => Cardinality(Recent(l)) <= 1
         /\ \/ Len(l) <= MAX_CACHE_NUMBER
            \/ Len(l) <= Cardinality(Extra(list)) + Cardinality(Recent(list)) + 1
<1> DEFINE r == Reduced(list)
           l == Append(r, b)
<1>1. r \in Seq(Buffer) /\ Len(r) <= Len(list)
  BY ReducedKeeps
<1>2. /\ Cardinality(Extra(r)) <= Cardinality(Extra(list))
      /\ Cardinality(Recent(r)) <= Cardinality(Recent(list))
  BY ReducedCount
<1>3. Len(list) >= MAX_CACHE_NUMBER => Len(r) <= Cardinality(Extra(r)) + Cardinality(Recent(r))
  BY ReducedCovered
<1> HIDE DEF r
<1>4. l \in Seq(Buffer) /\ Len(l) = Len(r) + 1
  BY <1>1, AppendProperties
<1>5. /\ Cardinality(Extra(l)) <= Cardinality(Extra(r)) + (IF IsFrame(b) THEN 0 ELSE 1)
      /\ ~IsFrame(b) => Cardinality(Recent(l)) <= Cardinality(Recent(r))
      /\ Cardinality(Recent(l)) <= Cardinality(Recent(r)) + 1
      /\ b.kind = "intra" => Cardinality(Recent(l)) <= 1
  BY <1>1, AppendedCount
<1> HIDE DEF l
<1>6. /\ Cardinality(Extra(list)) \in Nat /\ Cardinality(Recent(list)) \in Nat
      /\ Cardinality(Extra(r)) \in Nat /\ Cardinality(Recent(r)) \in Nat
      /\ Cardinality(Extra(l)) \in Nat /\ Cardinality(Recent(l)) \in Nat
  BY <1>1, <1>4, Counted
<1>7. Cardinality(Extra(l)) <= Cardinality(Extra(list)) + (IF IsFrame(b) THEN 0 ELSE 1)
  BY <1>2, <1>5, <1>6
<1>8. /\ ~IsFrame(b) => Cardinality(Recent(l)) <= Cardinality(Recent(list))
      /\ Cardinality(Recent(l)) <= Cardinality(Recent(list)) + 1
  BY <1>2, <1>5, <1>6
<1>9. \/ Len(l) <= MAX_CACHE_NUMBER
      \/ Len(l) <= Cardinality(Extra(list)) + Cardinality(Recent(list)) + 1
  <2>1. Len(list) \in Nat /\ Len(r) \in Nat
    BY <1>1
  <2> QED BY <1>1, <1>2, <1>3, <1>4, <1>6, <2>1, CacheAssumption
<1> QED BY <1>4, <1>5, <1>6, <1>7, <1>8, <1>9 DEF l, r

\* The numbers of the counts.
LEMMA Numbers ==
  ASSUME IInv
  PROVE  /\ cached_buffers \in Seq(Buffer) /\ Len(cached_buffers) \in Nat
         /\ Cardinality(Extra(cached_buffers)) \in Nat /\ Cardinality(Recent(cached_buffers)) \in Nat
         /\ extras \in Nat /\ starts \in Nat /\ since_intra \in Nat \ {0} /\ since_intra <= Gop
         /\ Groups(starts) \in Nat
         /\ starts >= 1 => /\ Groups(starts - 1) \in Nat
                           /\ Groups(starts) = Groups(starts - 1) + (Gop - 1)
<1>1. /\ cached_buffers \in Seq(Buffer)
      /\ extras \in Nat /\ starts \in Nat /\ since_intra \in Nat \ {0} /\ since_intra <= Gop
  BY BoundsAssumption DEF IInv, TypeInv
<1>2. /\ Cardinality(Extra(cached_buffers)) \in Nat /\ Cardinality(Recent(cached_buffers)) \in Nat
      /\ Len(cached_buffers) \in Nat
  BY <1>1, Counted
<1>3. Groups(starts) \in Nat
  BY <1>1, GroupsNext
<1>4. ASSUME starts >= 1
      PROVE  Groups(starts - 1) \in Nat /\ Groups(starts) = Groups(starts - 1) + (Gop - 1)
  <2>1. starts - 1 \in Nat /\ (starts - 1) + 1 = starts
    BY <1>1, <1>4
  <2> QED BY <2>1, GroupsNext
<1> QED BY <1>1, <1>2, <1>3, <1>4

\* Pushing a frame.
LEMMA PushFrameCount ==
  ASSUME IInv, CountInv, NEW kind \in {"intra", "pred"}, PushFrame(kind)
  PROVE  CountInv'
<1> DEFINE l == cached_buffers
           b == [kind |-> kind, id |-> frames + 1]
<1>1. /\ b \in Buffer /\ IsFrame(b) /\ (kind = "intra" => b.kind = "intra")
      /\ extras' = extras /\ kind = "pred" => since_intra < Gop
      /\ since_intra' = IF kind = "intra" THEN 1 ELSE since_intra + 1
  <2>1. frames \in Nat /\ frames < MaxFrames /\ MaxFrames \in Nat
    BY BoundsAssumption DEF IInv, TypeInv, PushFrame
  <2> QED BY <2>1 DEF PushFrame, Buffer, Kinds, IsFrame
<1>2. starts' = starts /\ connecting' = connecting /\ extras' = extras
  BY DEF PushFrame, Push, sessionVars
<1>3. CASE connecting
  <2>1. l' = Append(Reduced(l), b)
    BY <1>3 DEF PushFrame, Push
  <2>2. /\ Cardinality(Extra(l')) \in Nat /\ Cardinality(Recent(l')) \in Nat
        /\ Cardinality(Extra(l')) <= Cardinality(Extra(l)) + (IF IsFrame(b) THEN 0 ELSE 1)
        /\ Cardinality(Recent(l')) <= Cardinality(Recent(l)) + 1
        /\ b.kind = "intra" => Cardinality(Recent(l')) <= 1
        /\ \/ Len(l') <= MAX_CACHE_NUMBER
           \/ Len(l') <= Cardinality(Extra(l)) + Cardinality(Recent(l)) + 1
        /\ Len(l') \in Nat
    <3>1. l \in Seq(Buffer)
      BY Numbers
    <3> QED BY <1>1, <2>1, <3>1, PushedCount
  <2> HIDE DEF b
  <2>3. /\ Cardinality(Extra(l)) <= extras /\ starts >= 1
        /\ Cardinality(Recent(l)) <= Groups(starts) + 1
        /\ Cardinality(Recent(l)) <= Groups(starts - 1) + since_intra
    BY <1>3 DEF CountInv
  <2>4. Cardinality(Extra(l')) <= extras
    BY <1>1, <2>2, <2>3, Numbers
  <2>5. Cardinality(Recent(l')) <= Groups(starts - 1) + since_intra'
    <3>1. CASE kind = "intra"
      <4>1. Cardinality(Recent(l')) <= 1 /\ since_intra' = 1
        BY <1>1, <2>2, <3>1
      <4> QED BY <2>2, <2>3, <4>1, Numbers
    <3>2. CASE kind = "pred"
      <4>1. since_intra' = since_intra + 1
        BY <1>1, <3>2
      <4> QED BY <2>2, <2>3, <4>1, Numbers
    <3> QED BY <3>1, <3>2
  <2>6. since_intra' <= Gop /\ since_intra' \in Nat
    <3>1. CASE kind = "intra"
      <4>1. since_intra' = 1
        BY <1>1, <3>1
      <4> QED BY <4>1, BoundsAssumption
    <3>2. CASE kind = "pred"
      <4>1. since_intra' = since_intra + 1 /\ since_intra < Gop
        BY <3>2 DEF PushFrame
      <4> QED BY <4>1, Numbers, BoundsAssumption
    <3> QED BY <3>1, <3>2
  <2>7. Cardinality(Recent(l')) <= Groups(starts) + 1
    <3>1. /\ Groups(starts) = Groups(starts - 1) + (Gop - 1)
          /\ Groups(starts - 1) \in Nat /\ Groups(starts) \in Nat
          /\ Gop \in Nat
      BY <2>3, Numbers, BoundsAssumption
    <3>2. since_intra' \in Nat /\ since_intra' <= Gop
      BY <2>6
    <3>3. /\ Cardinality(Recent(l')) \in Nat
          /\ Cardinality(Recent(l')) <= Groups(starts - 1) + since_intra'
      BY <2>2, <2>5
    <3>4. PICK r \in Nat, g \in Nat, h \in Nat, s \in Nat, n \in Nat :
             /\ r = Cardinality(Recent(l')) /\ g = Groups(starts - 1) /\ h = Groups(starts)
             /\ s = since_intra' /\ n = Gop
             /\ h = g + (n - 1) /\ r <= g + s /\ s <= n
      BY <3>1, <3>2, <3>3, Zenon
    <3>5. r <= h + 1
      BY <3>4
    <3> QED BY <3>4, <3>5
  <2>8. Len(l') <= MAX_CACHE_NUMBER \/ Len(l') <= extras + Groups(starts) + 2
    BY <2>2, <2>3, Numbers, CacheAssumption
  <2> QED BY <1>2, <2>3, <2>4, <2>5, <2>7, <2>8 DEF CountInv
<1>4. CASE ~connecting
  <2>1. l' = l
    BY <1>4 DEF PushFrame, queueVars
  <2> QED BY <1>2, <1>4, <2>1 DEF CountInv
<1> QED BY <1>3, <1>4

\* Pushing extra data.
LEMMA PushExtraCount ==
  ASSUME IInv, CountInv, PushExtra PROVE CountInv'
<1> DEFINE l == cached_buffers
           b == [kind |-> "extra", id |-> 0]
<1>1. b \in Buffer /\ ~IsFrame(b)
  BY BoundsAssumption DEF Buffer, Kinds, IsFrame
<1>2. /\ l' = Append(Reduced(l), b) /\ extras' = extras + 1
      /\ UNCHANGED <<starts, connecting, since_intra>>
  BY DEF PushExtra, Push, sessionVars
<1>3. /\ Cardinality(Extra(l')) \in Nat /\ Cardinality(Recent(l')) \in Nat
      /\ Cardinality(Extra(l')) <= Cardinality(Extra(l)) + (IF IsFrame(b) THEN 0 ELSE 1)
      /\ ~IsFrame(b) => Cardinality(Recent(l')) <= Cardinality(Recent(l))
      /\ \/ Len(l') <= MAX_CACHE_NUMBER
         \/ Len(l') <= Cardinality(Extra(l)) + Cardinality(Recent(l)) + 1
      /\ Len(l') \in Nat
  <2>1. l \in Seq(Buffer)
    BY Numbers
  <2> QED BY <1>1, <1>2, <2>1, PushedCount
<1> HIDE DEF b
<1>4. /\ Cardinality(Extra(l)) <= extras
      /\ Cardinality(Recent(l)) <= Groups(starts) + 1
      /\ connecting => /\ starts >= 1
                       /\ Cardinality(Recent(l)) <= Groups(starts - 1) + since_intra
  BY DEF CountInv
<1>5. Cardinality(Extra(l')) <= extras'
  BY <1>1, <1>2, <1>3, <1>4, Numbers
<1>6. Cardinality(Recent(l')) <= Groups(starts) + 1
  BY <1>1, <1>3, <1>4, Numbers
<1>7. connecting => /\ starts >= 1
                    /\ Cardinality(Recent(l')) <= Groups(starts - 1) + since_intra
  BY <1>1, <1>3, <1>4, Numbers
<1>8. Len(l') <= MAX_CACHE_NUMBER \/ Len(l') <= extras' + Groups(starts) + 2
  BY <1>2, <1>3, <1>4, Numbers, CacheAssumption
<1> QED BY <1>2, <1>5, <1>6, <1>7, <1>8 DEF CountInv

\* A start begins with a group under way.
LEMMA PlayCount ==
  ASSUME IInv, CountInv, NEW c \in Clients, Play(c) PROVE CountInv'
<1>1. /\ UNCHANGED <<cached_buffers, extras, since_intra>>
      /\ connecting' = (connecting \/ kSessionIdList = {})
      /\ starts' = IF kSessionIdList = {} THEN starts + 1 ELSE starts
      /\ connecting = (kSessionIdList # {})
  BY DEF Play, queueVars, encoderVars, IInv, SessionInv
<1>2. CASE kSessionIdList = {}
  <2>1. starts' = starts + 1 /\ Groups(starts + 1) = Groups(starts) + (Gop - 1) /\ Gop - 1 \in Nat
    BY <1>1, <1>2, Numbers, GroupsNext, BoundsAssumption
  <2>2. /\ Cardinality(Extra(cached_buffers)) <= extras
        /\ Cardinality(Recent(cached_buffers)) <= Groups(starts) + 1
        /\ \/ Len(cached_buffers) <= MAX_CACHE_NUMBER
           \/ Len(cached_buffers) <= extras + Groups(starts) + 2
    BY DEF CountInv
  <2>3. Cardinality(Recent(cached_buffers)) <= Groups(starts + 1) + 1
    BY <2>1, <2>2, Numbers
  <2>4. starts + 1 >= 1 /\ (starts + 1) - 1 = starts
    BY Numbers
  <2>5. Cardinality(Recent(cached_buffers)) <= Groups((starts + 1) - 1) + since_intra
    BY <2>2, <2>4, Numbers
  <2>6. \/ Len(cached_buffers) <= MAX_CACHE_NUMBER
        \/ Len(cached_buffers) <= extras + Groups(starts + 1) + 2
    BY <2>1, <2>2, Numbers, CacheAssumption
  <2> QED BY <1>1, <2>1, <2>2, <2>3, <2>4, <2>5, <2>6 DEF CountInv
<1>3. CASE kSessionIdList # {}
  <2>1. starts' = starts /\ connecting
    BY <1>1, <1>3
  <2> QED BY <1>1, <2>1 DEF CountInv
<1> QED BY <1>2, <1>3

\* Popping a buffer.
LEMMA PopBufferCount ==
  ASSUME IInv, CountInv, PopBuffer PROVE CountInv'
<1> DEFINE l == cached_buffers
<1>1. /\ l # << >> /\ l' = Tail(l)
      /\ UNCHANGED <<extras, starts, connecting, since_intra>>
  BY DEF PopBuffer, sessionVars, encoderVars
<1>2. l \in Seq(Buffer)
  BY Numbers
<1>3. l' \in Seq(Buffer) /\ Len(l') = Len(l) - 1
  BY <1>1, <1>2, HeadTailProperties
<1>4. /\ Cardinality(Extra(l')) <= Cardinality(Extra(l))
      /\ Cardinality(Recent(l')) <= Cardinality(Recent(l))
  BY <1>1, <1>2, PoppedCount
<1>5. Cardinality(Extra(l')) \in Nat /\ Cardinality(Recent(l')) \in Nat
  BY <1>3, Counted
<1>6. /\ Cardinality(Extra(l)) <= extras
      /\ Cardinality(Recent(l)) <= Groups(starts) + 1
      /\ connecting => /\ starts >= 1
                       /\ Cardinality(Recent(l)) <= Groups(starts - 1) + since_intra
      /\ Len(l) <= MAX_CACHE_NUMBER \/ Len(l) <= extras + Groups(starts) + 2
  BY DEF CountInv
<1>7. Cardinality(Extra(l')) <= extras /\ Cardinality(Recent(l')) <= Groups(starts) + 1
  BY <1>4, <1>5, <1>6, Numbers
<1>8. connecting => /\ starts >= 1
                    /\ Cardinality(Recent(l')) <= Groups(starts - 1) + since_intra
  BY <1>4, <1>5, <1>6, Numbers
<1>9. Len(l') <= MAX_CACHE_NUMBER \/ Len(l') <= extras + Groups(starts) + 2
  BY <1>3, <1>6, Numbers, CacheAssumption
<1> QED BY <1>1, <1>7, <1>8, <1>9 DEF CountInv

\* The counts, in every reachable state.
THEOREM CountInvariance == Spec => []CountInv
<1>1. Init => CountInv
  <2> SUFFICES ASSUME Init PROVE CountInv
    OBVIOUS
  <2>1. Extra(cached_buffers) = {} /\ Recent(cached_buffers) = {} /\ Len(cached_buffers) = 0
    BY DEF Init, Extra, Recent
  <2>2. Cardinality({}) = 0
    BY FS_EmptySet
  <2>3. extras = 0 /\ starts = 0 /\ connecting = FALSE
    BY DEF Init
  <2>4. Groups(starts) \in Nat
    BY <2>3, GroupsNext
  <2>5. /\ Cardinality(Extra(cached_buffers)) <= extras
        /\ Cardinality(Recent(cached_buffers)) <= Groups(starts) + 1
        /\ Len(cached_buffers) <= MAX_CACHE_NUMBER
    BY <2>1, <2>2, <2>3, <2>4, CacheAssumption
  <2> QED BY <2>3, <2>5 DEF CountInv
<1>2. IInv /\ CountInv /\ [Next]_vars => CountInv'
  <2> SUFFICES ASSUME IInv, CountInv, [Next]_vars PROVE CountInv'
    OBVIOUS
  <2>1. ASSUME NEW c \in Clients, Setup(c) \/ Teardown(c) PROVE CountInv'
    <3>1. UNCHANGED <<cached_buffers, extras, starts, since_intra>>
      BY <2>1 DEF Setup, Teardown, queueVars, encoderVars
    <3>2. connecting' => connecting
      <4>1. CASE Setup(c)
        <5>1. connecting' = connecting
          BY <4>1 DEF Setup
        <5> QED BY <5>1
      <4>2. CASE Teardown(c)
        <5>1. connecting' = (connecting /\ kSessionIdList' # {})
          BY <4>2 DEF Teardown
        <5> QED BY <5>1, Zenon
      <4> QED BY <2>1, <4>1, <4>2
    <3> QED BY <3>1, <3>2 DEF CountInv
  <2>2. CASE Write \/ ReadPipe \/ PopNothing \/ UNCHANGED vars
    <3>1. UNCHANGED <<cached_buffers, extras, starts, since_intra, connecting>>
      BY <2>2 DEF Write, ReadPipe, PopNothing, vars, encoderVars, queueVars, sessionVars
    <3> QED BY <3>1 DEF CountInv
  <2> QED BY <2>1, <2>2, PushFrameCount, PushExtraCount, PlayCount, PopBufferCount DEF Next, Encoder
<1> QED BY <1>1, <1>2, Invariance, PTL DEF Spec

\* The list is as long as what a reduction leaves, at most, however often the
\* input is started and whoever pops.
THEOREM ListBounded == Spec => []ListBound
<1>1. IInv /\ CountInv => ListBound
  <2> SUFFICES ASSUME IInv, CountInv PROVE ListBound
    OBVIOUS
  <2> DEFINE left == extras + starts * (Gop - 1) + 2
             S == {MAX_CACHE_NUMBER, left}
  <2>1. left = extras + Groups(starts) + 2
    BY DEF Groups
  <2>2. left \in Nat \ {0} /\ MAX_CACHE_NUMBER \in Nat \ {0}
    BY <2>1, Numbers, CacheAssumption
  <2>3. Len(cached_buffers) <= MAX_CACHE_NUMBER \/ Len(cached_buffers) <= left
    BY <2>1 DEF CountInv
  <2> HIDE DEF left
  <2>4. S \subseteq 1..(MAX_CACHE_NUMBER + left) /\ S # {} /\ MAX_CACHE_NUMBER + left \in Nat
    BY <2>2
  <2>5. Max(S) \in S /\ \A y \in S : Max(S) >= y
    BY <2>4, GreatestElement
  <2>6. Max(S) >= MAX_CACHE_NUMBER /\ Max(S) >= left /\ Max(S) \in Nat
    BY <2>2, <2>5
  <2> HIDE DEF S
  <2>7. Len(cached_buffers) <= Max(S)
    BY <2>2, <2>3, <2>6, Numbers
  <2> QED BY <2>7 DEF ListBound, S, left
<1> QED BY <1>1, Invariance, CountInvariance, PTL
=============================================================================
