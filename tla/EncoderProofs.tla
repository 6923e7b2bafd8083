---------------------------- MODULE EncoderProofs ----------------------------
(***************************************************************************)
(* What holds of EncoderFlow for every rate and limit of rates, every set  *)
(* of masks, and any number of frames, requests, failures and rounds. The  *)
(* invariant IInv has four parts: types, together with where the clients   *)
(* can be while the encoder is in which state; what the configuration and  *)
(* the lists of changes are at each stage; who holds references to the MPP *)
(* context; and how the two output queues stay in step.                    *)
(* A second one, SendInv, says where every frame is on its way to slot 0,  *)
(* in which order, and what each call of encode has sent down.             *)
(***************************************************************************)
EXTENDS EncoderFlow, FiniteSetTheorems, SequenceTheorems, TLAPS

-----------------------------------------------------------------------------
(* The invariant.                                                          *)

Buffers == [kind : {"null", "empty", "extra", "packet", "bare", "copy"}, n : Int]
Changes == [id : Nat, mask : SUBSET Kinds, bps : Nat]
Limits  == [target : Int, max : Int, min : Int]
Drivers == [rc : Limits, fps : Int, qp : Int]
Configs == [bps : Int, fps : Int, qp : Int]
Contexts == [created : BOOLEAN, refs : Int, destroyed : Nat, initFailed : BOOLEAN]

\* Before MPP is asked for a rate, and before the configuration is kept.
Early      == {"params", "media", "create", "prep", "control"}
Unfinished == {"codec", "extra"}

FlowTypes ==
  /\ client \in {"flow", "direct"} /\ extra_output \in BOOLEAN
  /\ client = "direct" => ~extra_output
  /\ enable \in BOOLEAN /\ quit \in BOOLEAN /\ ret \in BOOLEAN
  /\ quit => ~enable
  /\ pc \in {"none", "while", "fetch", "process", "encode", "set0", "set1", "send0", "send1",
             "done"}
  /\ client = "direct" => pc \in {"none", "process", "encode"}
  /\ src \in 0..MaxFrames /\ sent \in 0..MaxFrames
  /\ client = "direct" /\ pc = "process" => src # 0
  /\ inq \in Seq(1..MaxFrames) /\ Len(inq) <= InputCache
  /\ dst \in Buffers
  /\ cached_buffers \in [Slots -> Seq(Buffers)]
  /\ received \in [Slots -> Seq(Buffers)]
  /\ flows \in [Slots -> BOOLEAN] /\ early \in [Slots -> BOOLEAN]
  /\ rounds \in Nat
  /\ released \in 0..Len(received[0])

EncoderTypes ==
  /\ stage \in Early \union Unfinished \union {"configured", "failed", "gone"}
  /\ coding \in AllCodings
  /\ extra_data \in Nat
  /\ faults \in 0..MaxFaults
  /\ pending \in Seq(Int) /\ Len(pending) <= faults
  /\ ctx \in Contexts
  /\ driver \in Drivers
  /\ config \in Configs
  /\ requests \in Nat /\ change_list \in Seq(Changes) /\ applied \in Seq(Nat)

\* The encoder is used only when it is configured.
InUse ==
  pc # "none" => stage = "configured" \/ (pc = "done" /\ stage = "gone")

TypeInv == FlowTypes /\ EncoderTypes /\ InUse

\* The configuration and the changes.
ChangesInv ==
  /\ stage \in Early => config = NoConfig /\ driver = NoDriver
  /\ stage \in Unfinished => config = NoConfig /\ driver.fps = 0 /\ driver.qp = 0
  /\ stage = "configured" => config = Kept(driver)
  /\ \A i \in DOMAIN change_list : change_list[i].id \in 1..requests
  /\ \A i, j \in DOMAIN change_list : i < j => change_list[i].id < change_list[j].id
  /\ \A i \in DOMAIN applied : applied[i] <= requests
  /\ \A i, j \in DOMAIN applied : i < j => applied[i] < applied[j]
  /\ \A i \in DOMAIN applied, j \in DOMAIN change_list : applied[i] < change_list[j].id

\* The references to the context: the encoder's, those of the buffers cached and
\* not released, with a packet or without one, and that of an output on its way
\* to the queue.
Owner == IF stage \in {"prep", "control", "configured"} \union Unfinished THEN 1 ELSE 0
InHand == IF pc = "set0" /\ KeepsContext(dst) THEN 1 ELSE 0

\* Destroyed when the last reference went, twice only if mpp_init failed.
CtxState(c) ==
  /\ ~c.created => c.refs = 0 /\ c.destroyed = 0 /\ ~c.initFailed
  /\ c.initFailed => c.refs = 0 /\ c.destroyed = 2
  /\ c.created /\ ~c.initFailed => c.destroyed = IF c.refs = 0 THEN 1 ELSE 0

CtxInv ==
  /\ ctx.refs = Owner + InHand + Held(cached_buffers[0]) + Unreleased
  /\ CtxState(ctx)
  /\ stage \in {"params", "media", "create"} => ~ctx.created
  /\ stage \notin {"params", "media", "create", "failed"} => ctx.created /\ ~ctx.initFailed
  /\ pc = "none" \/ client = "direct" => cached_buffers[0] = <<>>
  /\ stage = "gone" => cached_buffers[0] = <<>>

\* What slot 1 gets for a buffer of slot 0; two sequences of such buffers.
Mate(b) == IF b.kind \in {"extra", "null"} THEN Null ELSE Empty
Match(s, t) == Len(s) = Len(t) /\ \A i \in 1..Len(s) : t[i] = Mate(s[i])

\* The queues match between two calls of SetOutput and SendDown, and do until
\* the flow is disabled: then they may not, but nothing more goes down.
QueuesMatch ==
  /\ pc = "none" => cached_buffers[0] = <<>> /\ cached_buffers[1] = <<>>
  /\ pc \in {"while", "fetch", "process", "encode", "set0", "send0", "done"} /\ enable =>
       Match(cached_buffers[0], cached_buffers[1])
  /\ pc = "encode" => ret
  /\ pc = "set0" => ret /\ dst.kind \notin {"extra", "null"}
  /\ pc = "set1" /\ enable => ret
  /\ pc = "set1" /\ ret => Match(cached_buffers[0], Append(cached_buffers[1], Empty))
  /\ pc = "send0" /\ ret => Match(cached_buffers[0], cached_buffers[1])
  /\ pc = "send1" /\ enable /\ ~ret => Match(cached_buffers[0], cached_buffers[1])
  /\ pc = "send1" /\ ret => cached_buffers[0] = <<>>

\* Nothing goes down before the first round.
NothingYet ==
  /\ rounds = 0 => received[0] = <<>> /\ received[1] = <<>>
  /\ rounds = 0 => pc \in {"none", "while", "fetch", "done"}
  /\ pc = "none" => rounds = 0

\* What went down matches, but that slot 1 is served after slot 0.
SentMatch ==
  (\A s \in Slots : early[s] /\ flows[s]) =>
    /\ pc # "send1" => Match(received[0], received[1])
    /\ pc = "send1" /\ ret => Match(received[0], received[1] \o cached_buffers[1])
    /\ pc = "send1" /\ ~ret => Match(received[0], Append(received[1], Null))

PairInv == client = "flow" /\ extra_output => QueuesMatch /\ NothingYet /\ SentMatch

IInv == TypeInv /\ ChangesInv /\ CtxInv /\ PairInv

-----------------------------------------------------------------------------
(* The operators of MppEncoder.                                            *)

\* The limits computed for any target are around it, once it is worth a rate.
LEMMA CalcMppBpsLimits ==
  ASSUME NEW bps \in Nat
  PROVE  /\ CalcMppBps(bps) \in Limits
         /\ CalcMppBps(bps).target >= MinBps =>
              /\ CalcMppBps(bps).min <= CalcMppBps(bps).target
              /\ CalcMppBps(bps).target <= CalcMppBps(bps).max
<1>1. MinBps \in Nat /\ MaxBps \in Nat
  BY MppEncoderAssumption
<1>2. /\ (bps * 17) \div 16 \in Int /\ (bps * 17) \div 16 >= bps
      /\ (bps * 3) \div 2 \in Int /\ (bps * 3) \div 2 >= bps
      /\ (bps * 15) \div 16 \in Int /\ (bps * 15) \div 16 <= bps
      /\ bps \div 2 \in Int /\ bps \div 2 <= bps
  OBVIOUS
<1>3. CASE bps > MaxBps
  BY <1>1, <1>3 DEF CalcMppBps, Refused, Limits
<1>4. CASE ~(bps > MaxBps)
  <2> DEFINE hi == IF rc_mode = "cbr" THEN (bps * 17) \div 16 ELSE (bps * 3) \div 2
             lo == IF rc_mode = "cbr" THEN (bps * 15) \div 16 ELSE bps \div 2
  <2>1. hi \in Int /\ lo \in Int /\ hi >= bps /\ lo <= bps
    BY <1>2
  <2>2. CalcMppBps(bps) = [target |-> bps, max |-> AtMost(hi, MaxBps),
                           min |-> AtLeast(lo, MinBps)]
    BY <1>4 DEF CalcMppBps
  <2> HIDE DEF hi, lo
  <2> QED BY <1>1, <1>4, <2>1, <2>2 DEF Limits, AtMost, AtLeast
<1> QED BY <1>3, <1>4

\* What MPP is told by a change has the type of a driver.
LEMMA ToldType ==
  ASSUME driver \in Drivers, NEW c \in Changes
  PROVE  Told(c) \in Drivers /\ Kept(Told(c)) \in Configs
<1>1. CalcMppBps(c.bps) \in Limits /\ c.id \in Int
  BY CalcMppBpsLimits DEF Changes
<1>2. Told(c) \in Drivers
  BY <1>1 DEF Told, Drivers
<1> QED BY <1>2 DEF Kept, Drivers, Configs, Limits

\* PeekChange yields the oldest change, but perhaps for the value.
LEMMA PeekedType ==
  ASSUME change_list \in Seq(Changes), change_list # <<>>, NEW c \in Peeked
  PROVE  c \in Changes /\ c.id = Head(change_list).id
<1>1. Head(change_list) \in Changes
  BY HeadTailProperties
<1>2. Rates \subseteq Nat
  BY MppEncoderAssumption
<1> QED BY <1>1, <1>2 DEF Peeked, Changes

\* What is left when references are dropped.
LEMMA DropType ==
  ASSUME NEW c \in Contexts, NEW n \in Int
  PROVE  /\ Drop(c, n) \in Contexts
         /\ Drop(c, n).created = c.created /\ Drop(c, n).initFailed = c.initFailed
         /\ Drop(c, n).refs = c.refs - n
         /\ Drop(c, n).destroyed = c.destroyed + IF c.created /\ n > 0 /\ c.refs = n THEN 1 ELSE 0
<1> DEFINE d == IF c.created /\ n > 0 /\ c.refs = n THEN 1 ELSE 0
<1>1. d \in Nat
  OBVIOUS
<1>2. Drop(c, n) = [c EXCEPT !.refs = c.refs - n, !.destroyed = c.destroyed + d]
  BY DEF Drop
<1>3. c.refs - n \in Int /\ c.destroyed \in Nat
  BY DEF Contexts
<1> HIDE DEF d
<1>4. c.destroyed + d \in Nat
  BY <1>1, <1>3
<1>5. /\ Drop(c, n) \in Contexts
      /\ Drop(c, n).created = c.created /\ Drop(c, n).initFailed = c.initFailed
      /\ Drop(c, n).refs = c.refs - n /\ Drop(c, n).destroyed = c.destroyed + d
  BY <1>2, <1>3, <1>4 DEF Contexts
<1> QED BY <1>5 DEF d

\* The last reference is dropped.
LEMMA DropLast ==
  ASSUME NEW c \in Contexts, c.created, c.refs = 1
  PROVE  /\ Drop(c, 1).refs = 0 /\ Drop(c, 1).destroyed = c.destroyed + 1
         /\ Drop(c, 1).created /\ Drop(c, 1).initFailed = c.initFailed
<1>1. Drop(c, 1).refs = c.refs - 1
  BY DropType
<1>2. Drop(c, 1).destroyed = c.destroyed + 1
  <2>1. (IF c.created /\ 1 > 0 /\ c.refs = 1 THEN 1 ELSE 0) = 1
    OBVIOUS
  <2>2. Drop(c, 1).destroyed = c.destroyed + IF c.created /\ 1 > 0 /\ c.refs = 1 THEN 1 ELSE 0
    BY DropType
  <2> QED BY <2>1, <2>2
<1>3. Drop(c, 1).created = c.created /\ Drop(c, 1).initFailed = c.initFailed
  <2>1. 1 \in Int
    OBVIOUS
  <2> QED BY <2>1, DropType, Zenon
<1>4. Drop(c, 1).created
  BY <1>3
<1>5. Drop(c, 1).refs = 0
  BY <1>1
<1> QED BY <1>2, <1>3, <1>4, <1>5

\* A context that MPP has just created.
LEMMA CreatedType ==
  ASSUME NEW c \in Contexts, NEW f, f = Created(c)
  PROVE  /\ f \in Contexts
         /\ f.created /\ f.refs = 1 /\ f.destroyed = c.destroyed /\ f.initFailed = c.initFailed
<1>1. 1 \in Int /\ f = [c EXCEPT !.created = TRUE, !.refs = 1]
  BY DEF Created
<1>2. f \in Contexts
  BY <1>1, Zenon DEF Contexts
<1>3. f.created
  BY <1>1, Zenon DEF Contexts
<1>4. f.refs = 1 /\ f.destroyed = c.destroyed /\ f.initFailed = c.initFailed
  BY <1>1 DEF Contexts
<1> QED BY <1>2, <1>3, <1>4

\* The context of which mpp_init fails.
LEMMA InitFailedType ==
  ASSUME NEW c \in Contexts, NEW f, f = [c EXCEPT !.destroyed = 1, !.initFailed = TRUE]
  PROVE  /\ f \in Contexts
         /\ f.created = c.created /\ f.refs = c.refs /\ f.destroyed = 1 /\ f.initFailed
<1>1. 1 \in Nat
  OBVIOUS
<1>2. f \in Contexts
  BY <1>1, Zenon DEF Contexts
<1>3. f.initFailed
  BY Zenon DEF Contexts
<1>4. f.created = c.created /\ f.refs = c.refs /\ f.destroyed = 1
  BY DEF Contexts
<1> QED BY <1>2, <1>3, <1>4

-----------------------------------------------------------------------------
(* How many references to the context are held in a sequence of buffers.   *)

\* The buffers of a sequence that keep the context are finitely many.
LEMMA HeldNat ==
  ASSUME NEW s \in Seq(Buffers)
  PROVE  /\ Held(s) \in Nat
         /\ IsFiniteSet({i \in DOMAIN s : KeepsContext(s[i])})
<1>1. DOMAIN s = 1..Len(s) /\ Len(s) \in Nat
  OBVIOUS
<1>2. IsFiniteSet(1..Len(s))
  BY <1>1, FS_Interval
<1>3. IsFiniteSet({i \in DOMAIN s : KeepsContext(s[i])})
  BY <1>1, <1>2, FS_Subset
<1> QED BY <1>3, FS_CardinalityType DEF Held

\* None is held in a sequence of other buffers, the empty one for example.
LEMMA HeldNone ==
  ASSUME NEW s, \A i \in DOMAIN s : ~KeepsContext(s[i])
  PROVE  Held(s) = 0
<1>1. {i \in DOMAIN s : KeepsContext(s[i])} = {}
  OBVIOUS
<1> QED BY <1>1, FS_EmptySet DEF Held

\* The empty sequence holds none.
LEMMA HeldEmpty == Held(<<>>) = 0
<1>1. DOMAIN <<>> = {}
  OBVIOUS
<1> QED BY <1>1, HeldNone

\* The references of two sequences are those of the one and those of the other.
LEMMA HeldConcat ==
  ASSUME NEW s \in Seq(Buffers), NEW t \in Seq(Buffers)
  PROVE  Held(s \o t) = Held(s) + Held(t)
<1> DEFINE In(q)  == {i \in DOMAIN q : KeepsContext(q[i])}
           there  == {i \in Len(s) + 1..Len(s) + Len(t) : KeepsContext(t[i - Len(s)])}
           f      == [i \in In(t) |-> i + Len(s)]
<1>1. /\ DOMAIN s = 1..Len(s) /\ DOMAIN t = 1..Len(t) /\ Len(s) \in Nat /\ Len(t) \in Nat
      /\ DOMAIN (s \o t) = 1..Len(s) + Len(t)
      /\ \A i \in 1..Len(s) + Len(t) :
           (s \o t)[i] = IF i <= Len(s) THEN s[i] ELSE t[i - Len(s)]
  OBVIOUS
<1>2. In(s \o t) = In(s) \union there /\ In(s) \cap there = {}
  BY <1>1
<1>3. f \in [In(t) -> there] /\ \A i, j \in In(t) : f[i] = f[j] => i = j
  BY <1>1
<1>4. \A j \in there : \E i \in In(t) : f[i] = j
  <2> TAKE j \in there
  <2>1. j - Len(s) \in In(t) /\ f[j - Len(s)] = j
    BY <1>1
  <2> QED BY <2>1
<1>5. ExistsBijection(In(t), there)
  BY <1>3, <1>4
     DEF ExistsBijection, Bijection, Injection, Surjection, IsInjective
<1>6. IsFiniteSet(In(s)) /\ IsFiniteSet(In(t))
  BY HeldNat
<1>7. IsFiniteSet(there) /\ Cardinality(there) = Cardinality(In(t))
  BY <1>5, <1>6, FS_Bijection
<1>8. Cardinality(In(s)) \in Nat /\ Cardinality(there) \in Nat
  BY <1>6, <1>7, FS_CardinalityType
<1> HIDE DEF there, In
<1>9. Cardinality(In(s) \union there)
        = Cardinality(In(s)) + Cardinality(there) - Cardinality(In(s) \cap there)
  BY <1>6, <1>7, FS_Union
<1>10. Cardinality(In(s) \cap there) = 0
  BY <1>2, FS_EmptySet
<1>11. Cardinality(In(s \o t)) = Cardinality(In(s)) + Cardinality(In(t))
  BY <1>2, <1>7, <1>8, <1>9, <1>10
<1> QED BY <1>11 DEF Held, In

\* A single buffer holds one reference or none.
LEMMA HeldOne ==
  ASSUME NEW b \in Buffers
  PROVE  Held(<<b>>) = IF KeepsContext(b) THEN 1 ELSE 0
<1>1. DOMAIN <<b>> = {1} /\ <<b>>[1] = b
  OBVIOUS
<1>2. CASE KeepsContext(b)
  <2>1. {i \in DOMAIN <<b>> : KeepsContext(<<b>>[i])} = {1}
    BY <1>1, <1>2
  <2> QED BY <1>2, <2>1, FS_Singleton DEF Held
<1>3. CASE ~KeepsContext(b)
  BY <1>1, <1>3, HeldNone
<1> QED BY <1>2, <1>3

\* A buffer that is queued adds what it holds.
LEMMA HeldAppend ==
  ASSUME NEW s \in Seq(Buffers), NEW b \in Buffers
  PROVE  Held(Append(s, b)) = Held(s) + IF KeepsContext(b) THEN 1 ELSE 0
<1>1. Append(s, b) = s \o <<b>> /\ <<b>> \in Seq(Buffers)
  BY AppendIsConcat
<1> QED BY <1>1, HeldOne, HeldConcat

\* What is sent on is added to what is not released ...
LEMMA UnreleasedConcat ==
  ASSUME NEW r \in Seq(Buffers), NEW t \in Seq(Buffers), NEW k \in 0..Len(r)
  PROVE  Held(SubSeq(r \o t, k + 1, Len(r \o t))) = Held(SubSeq(r, k + 1, Len(r))) + Held(t)
<1> DEFINE rest  == SubSeq(r, k + 1, Len(r))
           rest2 == SubSeq(r \o t, k + 1, Len(r \o t))
<1>1. /\ Len(r) \in Nat /\ Len(t) \in Nat
      /\ r \o t \in Seq(Buffers) /\ Len(r \o t) = Len(r) + Len(t)
      /\ \A i \in 1..Len(r) + Len(t) :
           (r \o t)[i] = IF i <= Len(r) THEN r[i] ELSE t[i - Len(r)]
  OBVIOUS
<1>2. /\ rest \in Seq(Buffers) /\ Len(rest) = Len(r) - k
      /\ \A i \in 1..Len(r) - k : rest[i] = r[k + i]
  BY <1>1
<1>3. /\ rest2 \in Seq(Buffers) /\ Len(rest2) = Len(r) + Len(t) - k
      /\ \A i \in 1..Len(r) + Len(t) - k : rest2[i] = (r \o t)[k + i]
  BY <1>1
<1> HIDE DEF rest, rest2
<1>4. /\ rest \o t \in Seq(Buffers) /\ Len(rest \o t) = Len(rest) + Len(t)
      /\ \A i \in 1..Len(rest) + Len(t) :
           (rest \o t)[i] = IF i <= Len(rest) THEN rest[i] ELSE t[i - Len(rest)]
  BY <1>2, ConcatProperties
<1>5. Len(rest2) = Len(rest \o t)
  BY <1>1, <1>2, <1>3, <1>4
<1>6. \A i \in 1..Len(rest2) : rest2[i] = (rest \o t)[i]
  BY <1>1, <1>2, <1>3, <1>4
<1>7. rest2 = rest \o t
  BY <1>3, <1>4, <1>5, <1>6, SeqEqual
<1> QED BY <1>2, <1>7, HeldConcat DEF rest, rest2

\* ... and what is released is taken away.
LEMMA UnreleasedNext ==
  ASSUME NEW r \in Seq(Buffers), NEW k \in 0..Len(r), k < Len(r)
  PROVE  Held(SubSeq(r, k + 1, Len(r))) =
           (IF KeepsContext(r[k + 1]) THEN 1 ELSE 0) + Held(SubSeq(r, k + 2, Len(r)))
<1>1. /\ Len(r) \in Nat /\ k + 1 \in 1..Len(r) /\ r[k + 1] \in Buffers
      /\ SubSeq(r, k + 2, Len(r)) \in Seq(Buffers)
  OBVIOUS
<1>2. SubSeq(r, k + 1, Len(r)) = <<r[k + 1]>> \o SubSeq(r, (k + 1) + 1, Len(r))
  BY <1>1, SubSeqRecursiveFirst
<1>3. (k + 1) + 1 = k + 2
  OBVIOUS
<1>4. <<r[k + 1]>> \in Seq(Buffers)
  BY <1>1
<1>5. Held(<<r[k + 1]>>) = IF KeepsContext(r[k + 1]) THEN 1 ELSE 0
  BY <1>1, HeldOne
<1> QED BY <1>1, <1>2, <1>3, <1>4, <1>5, HeldConcat

-----------------------------------------------------------------------------
(* Types.                                                                  *)

\* The kinds of buffer the two clients make.
LEMMA BufferTypes ==
  /\ Null \in Buffers /\ Empty \in Buffers /\ Bare \in Buffers
  /\ \A i \in Int : Packet(i) \in Buffers /\ Copy(i) \in Buffers /\ Extra(i) \in Buffers
BY DEF Null, Empty, Bare, Packet, Copy, Extra, Buffers

\* The types hold of the initial states.
LEMMA InitType ==
  ASSUME Init
  PROVE  TypeInv
<1> USE MppEncoderAssumption, EncoderFlowAssumption DEF Init, EncoderInit
<1>1. <<>> \in Seq(Buffers) /\ Len(<<>>) = 0 /\ <<>> \in Seq(1..MaxFrames)
  OBVIOUS
<1>2. /\ cached_buffers \in [Slots -> Seq(Buffers)] /\ received \in [Slots -> Seq(Buffers)]
      /\ released \in 0..Len(received[0])
  BY <1>1 DEF Slots
<1>3. flows \in [Slots -> BOOLEAN] /\ early \in [Slots -> BOOLEAN]
  OBVIOUS
<1>4. /\ client \in {"flow", "direct"} /\ extra_output \in BOOLEAN
      /\ client = "direct" => ~extra_output
      /\ enable \in BOOLEAN /\ quit \in BOOLEAN /\ ret \in BOOLEAN
  OBVIOUS
<1>5. src \in 0..MaxFrames /\ sent \in 0..MaxFrames /\ Len(inq) <= InputCache
  BY <1>1
<1>6. FlowTypes
  BY <1>1, <1>2, <1>3, <1>4, <1>5, BufferTypes DEF FlowTypes
<1>7. EncoderTypes
  BY DEF EncoderTypes, Early, Unfinished, Contexts, Drivers, Limits, Refused, NoDriver,
         Configs, NoConfig
<1> QED BY <1>6, <1>7 DEF TypeInv, InUse

\* A call that takes a change keeps the types, and the encoder as it is.
LEMMA TakeChangeType ==
  ASSUME EncoderTypes, NEW frameLost \in BOOLEAN, TakeChange(frameLost),
         UNCHANGED <<stage, typeVars, pending, ctx>>
  PROVE  EncoderTypes'
<1>1. CASE change_list = <<>>
  BY <1>1 DEF TakeChange, EncoderTypes, typeVars, changeVars, confVars
<1>2. CASE change_list # <<>>
  <2>1. change_list \in Seq(Changes) /\ driver \in Drivers /\ applied \in Seq(Nat)
    BY DEF EncoderTypes
  <2>2. PICK c \in Peeked :
           /\ IF Accepts(c) /\ frameLost THEN Fault ELSE UNCHANGED faults
           /\ Apply(c, ~frameLost)
           /\ change_list' = Remaining
           /\ applied' = IF frameLost THEN applied ELSE Append(applied, Head(change_list).id)
           /\ UNCHANGED requests
    BY <1>2 DEF TakeChange
  <2>3. Told(c) \in Drivers /\ Kept(Told(c)) \in Configs
    BY <1>2, <2>1, <2>2, PeekedType, ToldType
  <2>4. driver' \in Drivers /\ config' \in Configs
    BY <2>2, <2>3 DEF Apply, EncoderTypes
  <2>5. Tail(change_list) \in Seq(Changes) /\ Head(change_list) \in Changes
    BY <1>2, <2>1, HeadTailProperties
  <2>6. Head(change_list).id \in Nat
    BY <2>5 DEF Changes
  <2>7. change_list' \in Seq(Changes) /\ applied' \in Seq(Nat)
    BY <2>1, <2>2, <2>5, <2>6 DEF Remaining
  <2>8. faults' \in 0..MaxFaults /\ faults' >= faults
    BY <2>2, MppEncoderAssumption DEF Fault, EncoderTypes
  <2>9. Len(pending) \in Nat
    BY DEF EncoderTypes
  <2> QED BY <2>2, <2>4, <2>7, <2>8, <2>9 DEF EncoderTypes, typeVars
<1> QED BY <1>1, <1>2

\* So does the encoding of a frame.
LEMMA EncodeType ==
  ASSUME EncoderTypes, NEW frame \in Int, NEW outcome, Encode(frame, outcome),
         ctx' \in Contexts
  PROVE  EncoderTypes'
<1>1. /\ pending \in Seq(Int) /\ Len(pending) \in Nat /\ faults \in Nat
      /\ Append(pending, frame) \in Seq(Int) /\ Len(Append(pending, frame)) = Len(pending) + 1
      /\ Tail(Append(pending, frame)) \in Seq(Int)
      /\ Len(Tail(Append(pending, frame))) = Len(pending)
  <2>1. pending \in Seq(Int) /\ faults \in Nat
    BY MppEncoderAssumption DEF EncoderTypes
  <2> DEFINE a == Append(pending, frame)
  <2>2. a \in Seq(Int) /\ Len(a) = Len(pending) + 1 /\ a # <<>> /\ Len(pending) \in Nat
    BY <2>1
  <2> HIDE DEF a
  <2>3. Tail(a) \in Seq(Int) /\ Len(Tail(a)) = Len(pending)
    BY <2>2
  <2> QED BY <2>1, <2>2, <2>3 DEF a
<1>2. faults \in 0..MaxFaults /\ MaxFaults \in Nat /\ Len(pending) <= faults
  BY MppEncoderAssumption DEF EncoderTypes
<1> DEFINE a == Append(pending, frame)
<1>3. \/ pending' \in {pending, Tail(a)} /\ (Fault \/ UNCHANGED faults)
      \/ pending' = a /\ Fault
  BY DEF Encode, NotPrepared, NotAccepted, NotReturned, LostInside, Encoded
<1> HIDE DEF a
<1>4. faults' \in 0..MaxFaults /\ (Fault => faults' = faults + 1)
  BY <1>2, <1>3 DEF Fault
<1>5. CASE pending' = a /\ Fault
  BY <1>1, <1>2, <1>4, <1>5 DEF a, Encode, EncoderTypes, typeVars, changeVars, confVars
<1>6. CASE pending' \in {pending, Tail(a)} /\ (Fault \/ UNCHANGED faults)
  <2>1. faults' >= faults
    BY <1>2, <1>6 DEF Fault
  <2>3. pending' \in Seq(Int) /\ Len(pending') = Len(pending)
    BY <1>1, <1>6 DEF a
  <2>2. Len(pending') <= faults'
    BY <1>1, <1>2, <1>4, <2>1, <2>3
  <2> QED BY <1>4, <2>2, <2>3 DEF Encode, EncoderTypes, typeVars, changeVars, confVars
<1> QED BY <1>3, <1>5, <1>6

\* What a slot has been sent only gets longer.
LEMMA SentType ==
  ASSUME NEW s \in Seq(Buffers), NEW t \in Seq(Buffers), NEW b \in Buffers,
         NEW r \in {s, s \o t, Append(s, b)}
  PROVE  r \in Seq(Buffers) /\ Len(r) >= Len(s)
<1>1. Len(s) \in Nat /\ Len(t) \in Nat
  OBVIOUS
<1>2. CASE r = s \o t
  <2>1. r \in Seq(Buffers) /\ Len(r) = Len(s) + Len(t)
    BY <1>2, ConcatProperties
  <2> QED BY <1>1, <2>1
<1>3. CASE r = Append(s, b)
  <2>1. r \in Seq(Buffers) /\ Len(r) = Len(s) + 1
    BY <1>3, AppendProperties
  <2> QED BY <1>1, <2>1
<1> QED BY <1>1, <1>2, <1>3

\* Every step keeps the types of the flow's variables, and with quit the flow
\* stays disabled.
LEMMA FlowTypesStep ==
  ASSUME FlowTypes, EncoderTypes, InUse, Next
  PROVE  FlowTypes'
<1> USE MppEncoderAssumption, EncoderFlowAssumption
<1>1. /\ cached_buffers[0] \in Seq(Buffers) /\ cached_buffers[1] \in Seq(Buffers)
      /\ received[0] \in Seq(Buffers) /\ received[1] \in Seq(Buffers)
      /\ Len(received[0]) \in Nat
  BY DEF FlowTypes, Slots
<1>2. inq \in Seq(1..MaxFrames) /\ Len(inq) \in 0..InputCache /\ InputCache \in Nat
  BY DEF FlowTypes
<1>3. CASE ParseParams \/ ParseMediaConfigFromMap \/ ConstructEncoder \/ Request
  BY <1>3 DEF ParseParams, ParseMediaConfigFromMap, ConstructEncoder, Request, FlowTypes,
              flowVars, inVars, workVars, outVars, wireVars
<1>4. CASE Install
  <2>1. Extras \in Seq(Buffers) /\ [i \in DOMAIN Extras |-> Null] \in Seq(Buffers)
    <3>1. extra_data \in Nat /\ DOMAIN Extras = 1..extra_data
      BY DEF EncoderTypes, Extras
    <3>2. \A i \in 1..extra_data : Extra(i) \in Buffers
      BY <3>1, BufferTypes
    <3> QED BY <3>1, <3>2, BufferTypes DEF Extras
  <2>2. cached_buffers' \in [Slots -> Seq(Buffers)]
    BY <1>4, <2>1 DEF Install
  <2> QED BY <1>4, <2>2 DEF Install, FlowTypes, inVars, wireVars
<1>5. CASE While
  BY <1>5 DEF While, FlowTypes, inVars, outVars, wireVars
<1>6. CASE Fetch
  <2>1. CASE ~enable
    BY <1>6, <2>1 DEF Fetch, FlowTypes, outVars, wireVars
  <2>2. CASE enable
    <3>1. inq # <<>> /\ inq' = Tail(inq) /\ src' = Head(inq)
      BY <1>6, <2>2 DEF Fetch, FlowTypes
    <3>2. inq' \in Seq(1..MaxFrames) /\ Len(inq') = Len(inq) - 1 /\ src' \in 1..MaxFrames
      BY <1>2, <3>1, HeadTailProperties
    <3>3. Len(inq') <= InputCache
      BY <1>2, <3>2
    <3> QED BY <1>6, <3>2, <3>3 DEF Fetch, FlowTypes, outVars, wireVars
  <2> QED BY <2>1, <2>2 DEF FlowTypes
<1>7. CASE ProcessNothing
  BY <1>7, BufferTypes DEF ProcessNothing, FlowTypes, inVars, outVars, wireVars
<1>8. CASE ProcessChange
  BY <1>8 DEF ProcessChange, FlowTypes, inVars, outVars, wireVars
<1>9. CASE ProcessFrame
  <2>1. PICK outcome \in NoPacket..sent :
          IF outcome = Failed
            THEN ret' = FALSE /\ pc' = "send0" /\ UNCHANGED <<dst, ctx>>
            ELSE /\ ret' = TRUE /\ pc' = "set0"
                 /\ dst' = IF outcome = NoPacket THEN Bare ELSE Packet(outcome)
                 /\ ctx' = WithPacket(ctx)
    BY <1>9 DEF ProcessFrame
  <2>2. dst' \in Buffers /\ ret' \in BOOLEAN /\ pc' \in {"send0", "set0"}
    <3>1. outcome \in Int /\ dst \in Buffers
      BY DEF NoPacket, FlowTypes
    <3> QED BY <2>1, <3>1, BufferTypes
  <2> QED BY <1>9, <2>2 DEF ProcessFrame, FlowTypes, inVars, outVars, wireVars
<1>10. CASE SetOutput0
  <2>1. cached_buffers' \in [Slots -> Seq(Buffers)]
    BY <1>1, <1>10 DEF SetOutput0, FlowTypes, Slots
  <2> QED BY <1>10, <2>1 DEF SetOutput0, FlowTypes, inVars, wireVars
<1>11. CASE SetOutput1
  <2>1. cached_buffers' \in [Slots -> Seq(Buffers)]
    BY <1>1, <1>11, BufferTypes DEF SetOutput1, FlowTypes, Slots
  <2> QED BY <1>11, <2>1 DEF SetOutput1, FlowTypes, inVars, wireVars
<1>12. ASSUME NEW s \in Slots, Down(s)
       PROVE  /\ cached_buffers' \in [Slots -> Seq(Buffers)]
              /\ received' \in [Slots -> Seq(Buffers)]
              /\ released \in 0..Len(received'[0])
  <2>1. cached_buffers[s] \in Seq(Buffers) /\ received[s] \in Seq(Buffers)
    BY DEF FlowTypes
  <2>2. cached_buffers' \in [Slots -> Seq(Buffers)]
    BY <1>12, <2>1 DEF Down, FlowTypes
  <2> DEFINE r == IF ~flows[s] THEN received[s] ELSE IF ret
                    THEN received[s] \o cached_buffers[s] ELSE Append(received[s], Null)
  <2>3. received' = [received EXCEPT ![s] = r]
    BY <1>12 DEF Down
  <2>4. r \in {received[s], received[s] \o cached_buffers[s], Append(received[s], Null)}
    OBVIOUS
  <2> HIDE DEF r
  <2>5. r \in Seq(Buffers) /\ Len(r) >= Len(received[s])
    BY <2>1, <2>4, BufferTypes, SentType
  <2>6. received' \in [Slots -> Seq(Buffers)]
    BY <2>3, <2>5 DEF FlowTypes
  <2>7. Len(received'[0]) >= Len(received[0]) /\ Len(received'[0]) \in Nat
    BY <1>1, <2>3, <2>5 DEF FlowTypes, Slots
  <2> QED BY <1>1, <2>2, <2>6, <2>7 DEF FlowTypes
<1>13. CASE SendDown0
  BY <1>12, <1>13, BufferTypes DEF SendDown0, FlowTypes, inVars, wireVars, Slots
<1>14. CASE SendDown1
  BY <1>12, <1>14 DEF SendDown1, FlowTypes, inVars, wireVars, Slots
<1>15. CASE SendInput
  <2>1. sent \in 0..MaxFrames /\ sent' = sent + 1 /\ sent' \in 1..MaxFrames
    BY <1>15 DEF SendInput, FlowTypes
  <2> DEFINE q == IF Full THEN Tail(inq) ELSE inq
  <2>2. q \in Seq(1..MaxFrames) /\ Len(q) + 1 <= InputCache
    <3>1. CASE Full
      <4>1. inq # <<>>
        BY <1>2, <3>1 DEF Full
      <4> QED BY <1>2, <3>1, <4>1, HeadTailProperties
    <3>2. CASE ~Full
      BY <1>2, <3>2 DEF Full
    <3> QED BY <3>1, <3>2
  <2>3. inq' = Append(q, sent + 1)
    BY <1>15 DEF SendInput
  <2> HIDE DEF q
  <2>4. inq' \in Seq(1..MaxFrames) /\ Len(inq') <= InputCache
    BY <2>1, <2>2, <2>3
  <2> QED BY <1>15, <2>1, <2>4 DEF SendInput, FlowTypes, workVars, outVars, wireVars
<1>16. CASE \E s \in Slots : Wire(s)
  <2>1. flows' \in [Slots -> BOOLEAN] /\ early' \in [Slots -> BOOLEAN]
    BY <1>16 DEF Wire, FlowTypes
  <2> QED BY <1>16, <2>1 DEF Wire, FlowTypes, inVars, workVars, outVars
<1>17. CASE SetDisable \/ Stop
  BY <1>17 DEF SetDisable, Stop, FlowTypes, inVars, workVars, outVars, wireVars
<1>18. CASE Destruct
  BY <1>18 DEF Destruct, FlowTypes, inVars, workVars, wireVars
<1>19. CASE Release
  BY <1>1, <1>19 DEF Release, FlowTypes, inVars, workVars, outVars, wireVars
<1>20. CASE CallProcess
  BY <1>20 DEF CallProcess, FlowTypes, outVars, wireVars
<1>21. CASE ReturnProcess
  <2>1. PICK outcome \in NoPacket..sent :
          /\ ret' = (outcome # Failed)
          /\ received' = IF outcome \in 1..sent
                         THEN [received EXCEPT ![0] = Append(@, Copy(outcome))] ELSE received
    BY <1>21 DEF ReturnProcess
  <2>2. outcome \in Int
    BY DEF NoPacket, FlowTypes
  <2>3. /\ Append(received[0], Copy(outcome)) \in Seq(Buffers)
        /\ Len(Append(received[0], Copy(outcome))) = Len(received[0]) + 1
    BY <1>1, <2>2, BufferTypes
  <2>4. received' \in [Slots -> Seq(Buffers)] /\ released \in 0..Len(received'[0])
    BY <1>1, <2>1, <2>3 DEF FlowTypes, Slots
  <2>5. ret' \in BOOLEAN
    BY <2>1
  <2> QED BY <1>21, <2>4, <2>5 DEF ReturnProcess, FlowTypes, inVars, wireVars
<1>22. CASE Discard
  BY <1>22 DEF Discard, FlowTypes, flowVars, inVars, workVars, outVars, wireVars
<1> QED BY <1>3, <1>4, <1>5, <1>6, <1>7, <1>8, <1>9, <1>10, <1>11, <1>13, <1>14, <1>15, <1>16,
           <1>17, <1>18, <1>19, <1>20, <1>21, <1>22 DEF Next, Flow, Around, Direct

\* The references are counted in Int: that they never fall below zero is left
\* to the part on the context.
LEMMA EncoderTypesStep ==
  ASSUME FlowTypes, EncoderTypes, InUse, Next
  PROVE  EncoderTypes'
<1> USE MppEncoderAssumption DEF typeVars, changeVars, confVars
<1>1. faults \in 0..MaxFaults /\ Len(pending) \in Nat /\ Len(pending) <= faults
      /\ MaxFaults \in Nat /\ ctx \in Contexts
  BY DEF EncoderTypes
<1>2. Fault => faults' \in 0..MaxFaults /\ Len(pending) <= faults'
  BY <1>1 DEF Fault
<1>3. Held(cached_buffers[0]) \in Nat
  BY HeldNat DEF FlowTypes, Slots
<1>15. 1 \in Int /\ \A c \in Contexts : Drop(c, 1) \in Contexts
  BY DropType
<1>4. CASE ParseParams \/ ParseMediaConfigFromMap
  BY <1>1, <1>2, <1>4
     DEF ParseParams, ParseMediaConfigFromMap, EncoderTypes, Early, Unfinished
<1>5. CASE CreateEncoder
  <2>1. Created(ctx) \in Contexts
    BY <1>1, CreatedType
  <2>2. [Created(ctx) EXCEPT !.destroyed = 1, !.initFailed = TRUE] \in Contexts
    BY <2>1, InitFailedType
  <2>3. ctx' \in Contexts
    BY <1>1, <1>5, <1>15, <2>1, <2>2 DEF CreateEncoder
  <2> QED BY <1>1, <1>2, <1>5, <2>3 DEF CreateEncoder, EncoderTypes, Early, Unfinished
<1>6. CASE ControlFails \/ PrepConfig
  <2>1. ctx' \in Contexts
    BY <1>1, <1>6, DropType DEF ControlFails, PrepConfig
  <2> QED BY <1>1, <1>2, <1>6, <2>1 DEF ControlFails, PrepConfig, EncoderTypes, Early, Unfinished
<1>7. ASSUME NEW bps \in Rates, InitRateControl(bps)
      PROVE  EncoderTypes'
  <2> DEFINE rc == IF rc_mode = "none" THEN Refused ELSE CalcMppBps(bps)
  <2>1. rc \in Limits
    BY CalcMppBpsLimits DEF Refused, Limits
  <2>7. ctx' = ctx \/ ctx' = Drop(ctx, 1)
    BY <1>7 DEF InitRateControl
  <2>2. ctx' \in Contexts
    BY <1>1, <1>15, <2>7
  <2>3. driver' = driver \/ driver' = [driver EXCEPT !.rc = rc]
    BY <1>7 DEF InitRateControl
  <2>4. stage' \in {"failed", "codec"}
    BY <1>7 DEF InitRateControl
  <2>5. UNCHANGED <<coding, extra_data, changeVars, config, pending, faults>>
    BY <1>7 DEF InitRateControl
  <2> HIDE DEF rc
  <2>6. driver' \in Drivers
    BY <2>1, <2>3 DEF EncoderTypes, Drivers
  <2> QED BY <2>2, <2>4, <2>5, <2>6 DEF EncoderTypes, Unfinished
<1>8. CASE InitCodec \/ InitMjpeg
  BY <1>8 DEF InitCodec, InitMjpeg, EncoderTypes, Unfinished
<1>9. CASE InitExtra
  <2>1. config' \in Configs
    BY <1>9 DEF InitExtra, EncoderTypes, Configs, Drivers, Limits
  <2> QED BY <1>9, <2>1 DEF InitExtra, EncoderTypes
<1>10. CASE Request
  <2>1. PICK mask \in Masks : \E bps \in (IF "bps" \in mask THEN Rates ELSE {0}) :
          RequestChange(mask, bps)
    BY <1>10 DEF Request
  <2>2. PICK bps \in Nat : RequestChange(mask, bps)
    BY <2>1
  <2>3. mask \in SUBSET Kinds
    OBVIOUS
  <2>4. [id |-> requests + 1, mask |-> mask, bps |-> bps] \in Changes /\ requests + 1 \in Nat
    BY <2>3 DEF Changes, EncoderTypes
  <2>5. change_list' \in Seq(Changes) /\ requests' \in Nat
    BY <2>2, <2>4 DEF RequestChange, EncoderTypes
  <2> QED BY <2>2, <2>5 DEF RequestChange, EncoderTypes
<1>11. CASE ProcessChange
  <2>1. PICK frameLost \in BOOLEAN : TakeChange(frameLost)
    BY <1>11 DEF ProcessChange
  <2>2. UNCHANGED <<stage, typeVars, pending, ctx>>
    BY <1>11 DEF ProcessChange
  <2> QED BY <2>1, <2>2, TakeChangeType
<1>12. CASE ProcessFrame \/ ReturnProcess
  <2>1. PICK outcome \in NoPacket..sent :
          Encode(src, outcome) /\ ctx' \in {ctx, WithPacket(ctx)}
    BY <1>12 DEF ProcessFrame, ReturnProcess
  <2>2. WithPacket(ctx) \in Contexts
    BY <1>1 DEF WithPacket, Contexts
  <2>3. src \in Int /\ ctx' \in Contexts
    BY <1>1, <2>1, <2>2 DEF FlowTypes
  <2> QED BY <2>1, <2>3, EncodeType
<1>13. CASE SetOutput0 \/ SendDown0 \/ Destruct \/ Release \/ Discard
  <2>1. PICK n \in Int : ctx' = ctx \/ ctx' = Drop(ctx, n)
    BY <1>3, <1>13 DEF SetOutput0, SendDown0, Destruct, Release, Discard
  <2>2. ctx' \in Contexts
    BY <1>1, <2>1, DropType
  <2> QED BY <1>13, <2>2
          DEF SetOutput0, SendDown0, Destruct, Release, Discard, EncoderTypes
<1>14. CASE Install \/ While \/ Fetch \/ ProcessNothing \/ SetOutput1 \/ SendDown1 \/ SendInput
            \/ (\E s \in Slots : Wire(s)) \/ SetDisable \/ Stop \/ CallProcess
  BY <1>14 DEF Install, While, Fetch, ProcessNothing, SetOutput1, SendDown1, SendInput, Wire,
               SetDisable, Stop, CallProcess, EncoderTypes, encVars
<1> QED BY <1>4, <1>5, <1>6, <1>7, <1>8, <1>9, <1>10, <1>11, <1>12, <1>13, <1>14
        DEF Next, ConstructEncoder, Flow, Around, Direct

\* Every step uses only an encoder that is configured.
LEMMA InUseStep ==
  ASSUME FlowTypes, InUse, Next
  PROVE  InUse'
<1>1. CASE ParseParams \/ ParseMediaConfigFromMap \/ ConstructEncoder
  BY <1>1 DEF ParseParams, ParseMediaConfigFromMap, ConstructEncoder, CreateEncoder,
              ControlFails, PrepConfig, InitRateControl, InitCodec, InitExtra, InitMjpeg, InUse,
              flowVars, workVars
<1>2. CASE Install \/ Flow
  BY <1>2 DEF Install, Flow, While, Fetch, ProcessNothing, ProcessChange, ProcessFrame, Encode,
              SetOutput0, SetOutput1, SendDown0, SendDown1, InUse, encVars
<1>3. CASE Around
  BY <1>3 DEF Around, SendInput, Wire, SetDisable, Stop, Destruct, Release, InUse, encVars,
              workVars
<1>4. CASE Direct
  BY <1>4 DEF Direct, Request, RequestChange, CallProcess, ReturnProcess, Encode, Discard,
              InUse, encVars, flowVars, workVars
<1> QED BY <1>1, <1>2, <1>3, <1>4 DEF Next

-----------------------------------------------------------------------------
(* The configuration, the changes and the limits.                          *)

\* Initially nothing is requested, and no limits have been given.
LEMMA InitChanges ==
  ASSUME Init
  PROVE  ChangesInv /\ RateWithinLimits
<1>1. DOMAIN <<>> = {} /\ 0 <= 0
  OBVIOUS
<1> QED BY <1>1 DEF Init, EncoderInit, ChangesInv, RateWithinLimits, Early, Unfinished, NoDriver,
                    NoConfig, Refused, Kept

\* The oldest change is taken from the list, and noted if MPP accepted it.
LEMMA TakeChangeOrder ==
  ASSUME EncoderTypes, ChangesInv, RateWithinLimits, stage = "configured", UNCHANGED stage,
         NEW frameLost \in BOOLEAN, TakeChange(frameLost)
  PROVE  ChangesInv' /\ RateWithinLimits'
<1>1. CASE change_list = <<>>
  BY <1>1 DEF TakeChange, ChangesInv, RateWithinLimits, changeVars, confVars, Kept
<1>2. CASE change_list # <<>>
  <2>1. change_list \in Seq(Changes) /\ applied \in Seq(Nat) /\ driver \in Drivers
    BY DEF EncoderTypes
  <2>2. PICK c \in Peeked :
           /\ Apply(c, ~frameLost)
           /\ change_list' = Remaining
           /\ applied' = IF frameLost THEN applied ELSE Append(applied, Head(change_list).id)
           /\ UNCHANGED requests
    BY <1>2 DEF TakeChange
  <2>3. c \in Changes
    BY <1>2, <2>1, PeekedType
  <2>4. config' = Kept(driver')
    BY <2>2 DEF Apply, ChangesInv
  <2>5. RateWithinLimits'
    <3>1. driver' = driver \/ driver' = Told(c)
      BY <2>2 DEF Apply
    <3>2. Told(c).rc = driver.rc \/ Told(c).rc = CalcMppBps(c.bps)
      BY <2>1 DEF Told, Drivers
    <3>3. c.bps \in Nat
      BY <2>3 DEF Changes
    <3> QED BY <3>1, <3>2, <3>3, CalcMppBpsLimits DEF RateWithinLimits
  <2> DEFINE rest == Tail(change_list)
             id   == Head(change_list).id
  <2>6. /\ Len(change_list) \in Nat \ {0} /\ DOMAIN change_list = 1..Len(change_list)
        /\ DOMAIN rest = 1..Len(change_list) - 1
        /\ \A i \in DOMAIN rest : rest[i] = change_list[i + 1]
        /\ id = change_list[1].id
    <3>1. /\ rest \in Seq(Changes) /\ Len(rest) = Len(change_list) - 1
          /\ \A i \in 1..Len(rest) : rest[i] = change_list[i + 1]
      BY <1>2, <2>1, HeadTailProperties
    <3> QED BY <1>2, <2>1, <3>1, LenProperties
  <2> HIDE DEF rest, id
  <2>7. \A i \in DOMAIN change_list : change_list[i] \in Changes /\ change_list[i].id \in Nat
    <3>1. \A i \in DOMAIN change_list : change_list[i] \in Changes
      BY <2>1
    <3> QED BY <3>1 DEF Changes
  <2>8. /\ \A i \in DOMAIN rest : rest[i].id \in 1..requests /\ id < rest[i].id
        /\ \A i, j \in DOMAIN rest : i < j => rest[i].id < rest[j].id
        /\ \A i \in DOMAIN applied, j \in DOMAIN rest : applied[i] < rest[j].id
        /\ \A i \in DOMAIN applied : applied[i] < id
        /\ id \in 1..requests /\ id \in Nat
    <3>1. \A i \in DOMAIN rest : i + 1 \in DOMAIN change_list /\ 1 < i + 1
      BY <2>6
    <3>2. 1 \in DOMAIN change_list
      BY <2>6
    <3> QED BY <2>6, <2>7, <3>1, <3>2 DEF ChangesInv
  <2>9. CASE frameLost
    BY <2>2, <2>4, <2>5, <2>8, <2>9 DEF Remaining, rest, ChangesInv, Early, Unfinished
  <2>10. CASE ~frameLost
    <3> DEFINE more == Append(applied, id)
    <3>1. /\ DOMAIN more = 1..Len(applied) + 1 /\ DOMAIN applied = 1..Len(applied)
          /\ Len(applied) \in Nat /\ more[Len(applied) + 1] = id
          /\ \A i \in 1..Len(applied) : more[i] = applied[i]
      BY <2>1, <2>8
    <3>2. applied' = more /\ change_list' = rest /\ requests' = requests
      BY <2>2, <2>10 DEF Remaining, rest, id
    <3> HIDE DEF more
    <3>3. \A i \in DOMAIN applied : applied[i] \in Nat /\ applied[i] <= requests
      BY <2>1, <3>1 DEF ChangesInv
    <3>4. requests \in Nat
      BY DEF EncoderTypes
    <3>5. \A i \in DOMAIN more : more[i] <= requests
      BY <2>8, <3>1, <3>3, <3>4
    <3>6. \A i, j \in DOMAIN more : i < j => more[i] < more[j]
      BY <2>8, <3>1 DEF ChangesInv
    <3>7. \A i \in DOMAIN more, j \in DOMAIN rest : more[i] < rest[j].id
      BY <2>8, <3>1
    <3> QED BY <2>4, <2>5, <2>8, <3>2, <3>5, <3>6, <3>7 DEF ChangesInv, Early, Unfinished
  <2> QED BY <2>9, <2>10
<1> QED BY <1>1, <1>2

\* A request is queued behind the others, with the next number.
LEMMA RequestOrder ==
  ASSUME EncoderTypes, ChangesInv, RateWithinLimits, NEW mask, NEW bps,
         mask \in SUBSET Kinds, bps \in Nat, RequestChange(mask, bps)
  PROVE  ChangesInv' /\ RateWithinLimits'
<1> DEFINE c    == [id |-> requests + 1, mask |-> mask, bps |-> bps]
           more == Append(change_list, c)
<1>1. change_list \in Seq(Changes) /\ requests \in Nat /\ applied \in Seq(Nat)
  BY DEF EncoderTypes
<1>2. c \in Changes /\ c.id = requests + 1
  BY <1>1 DEF Changes
<1> HIDE DEF c
<1>3. /\ DOMAIN more = 1..Len(change_list) + 1 /\ DOMAIN change_list = 1..Len(change_list)
      /\ Len(change_list) \in Nat /\ more[Len(change_list) + 1] = c
      /\ \A i \in 1..Len(change_list) : more[i] = change_list[i]
  BY <1>1, <1>2
<1>4. /\ change_list' = more /\ requests' = requests + 1
      /\ UNCHANGED <<stage, applied, config, driver>> /\ stage = "configured"
  BY DEF RequestChange, c, confVars
<1> HIDE DEF more
<1>5. \A i \in DOMAIN change_list : change_list[i].id \in 1..requests
  BY DEF ChangesInv
<1>6. \A i \in DOMAIN applied : applied[i] <= requests /\ applied[i] \in Nat
  BY <1>1 DEF ChangesInv
<1>7. \A i \in DOMAIN more : more[i].id \in 1..requests + 1
  BY <1>1, <1>2, <1>3, <1>5
<1>8. \A i, j \in DOMAIN more : i < j => more[i].id < more[j].id
  BY <1>1, <1>2, <1>3, <1>5 DEF ChangesInv
<1>9. \A i \in DOMAIN applied : applied[i] <= requests + 1
  BY <1>1, <1>6
<1>10. \A i \in DOMAIN applied, j \in DOMAIN more : applied[i] < more[j].id
  BY <1>1, <1>2, <1>3, <1>6 DEF ChangesInv
<1> QED BY <1>4, <1>7, <1>8, <1>9, <1>10
        DEF ChangesInv, RateWithinLimits, Kept, Early, Unfinished

\* Every step keeps the configuration, the lists and the limits.
LEMMA ChangesStep ==
  ASSUME TypeInv, ChangesInv, RateWithinLimits, Next
  PROVE  ChangesInv' /\ RateWithinLimits'
<1> USE DEF changeVars, confVars
<1>1. CASE ParseParams \/ ParseMediaConfigFromMap \/ CreateEncoder \/ ControlFails \/ PrepConfig
           \/ Discard
  BY <1>1 DEF ParseParams, ParseMediaConfigFromMap, CreateEncoder, ControlFails, PrepConfig,
              Discard, ChangesInv, RateWithinLimits, Early, Unfinished, Kept
<1>2. ASSUME NEW bps \in Rates, InitRateControl(bps)
      PROVE  ChangesInv' /\ RateWithinLimits'
  <2>1. bps \in Nat
    BY MppEncoderAssumption
  <2> DEFINE rc == CalcMppBps(bps)
  <2>2. rc \in Limits /\ (rc.target >= MinBps => rc.min <= rc.target /\ rc.target <= rc.max)
    BY <2>1, CalcMppBpsLimits
  <2>3. stage = "control"
    BY <1>2 DEF InitRateControl
  <2>4. \/ stage' = "failed" /\ UNCHANGED driver
        \/ stage' = "codec" /\ driver' = [driver EXCEPT !.rc = rc]
    BY <1>2 DEF InitRateControl
  <2>5. UNCHANGED <<changeVars, config>>
    BY <1>2 DEF InitRateControl
  <2> HIDE DEF rc
  <2>6. CASE stage' = "failed" /\ UNCHANGED driver
    BY <2>5, <2>6 DEF ChangesInv, RateWithinLimits, Early, Unfinished
  <2>7. CASE stage' = "codec" /\ driver' = [driver EXCEPT !.rc = rc]
    <3>1. driver'.rc = rc /\ driver'.fps = driver.fps /\ driver'.qp = driver.qp
      BY <2>7 DEF TypeInv, EncoderTypes, Drivers
    <3>2. config = NoConfig /\ driver.fps = 0 /\ driver.qp = 0
      BY <2>3 DEF ChangesInv, Early, NoDriver
    <3> QED BY <2>2, <2>5, <2>7, <3>1, <3>2
            DEF ChangesInv, RateWithinLimits, Early, Unfinished
  <2> QED BY <2>4, <2>6, <2>7
<1>3. CASE InitCodec
  BY <1>3 DEF InitCodec, ChangesInv, RateWithinLimits, Early, Unfinished
<1>4. CASE InitExtra
  <2>1. config = NoConfig /\ driver.fps = 0 /\ driver.qp = 0
    BY <1>4 DEF InitExtra, ChangesInv, Unfinished
  <2>2. config' = [config EXCEPT !.bps = driver.rc.target]
    BY <1>4 DEF InitExtra
  <2>3. config' = Kept(driver)
    BY <2>1, <2>2 DEF NoConfig, Kept
  <2> QED BY <1>4, <2>3 DEF InitExtra, ChangesInv, RateWithinLimits, Early, Unfinished, Kept
<1>5. CASE InitMjpeg
  BY <1>5 DEF InitMjpeg, ChangesInv, RateWithinLimits, Early, Unfinished, NoConfig, NoDriver,
              Refused, Kept
<1>6. CASE Request
  <2>1. PICK mask \in Masks : \E bps \in (IF "bps" \in mask THEN Rates ELSE {0}) :
          RequestChange(mask, bps)
    BY <1>6 DEF Request
  <2>2. PICK bps \in Nat : RequestChange(mask, bps)
    BY <2>1, MppEncoderAssumption
  <2>3. mask \in SUBSET Kinds
    BY MppEncoderAssumption
  <2> QED BY <2>2, <2>3, RequestOrder DEF TypeInv
<1>7. CASE ProcessChange
  <2>1. PICK frameLost \in BOOLEAN : TakeChange(frameLost)
    BY <1>7 DEF ProcessChange
  <2>2. stage = "configured" /\ UNCHANGED stage
    BY <1>7 DEF ProcessChange, TypeInv, InUse
  <2> QED BY <2>1, <2>2, TakeChangeOrder DEF TypeInv
<1>8. CASE Install \/ While \/ Fetch \/ ProcessNothing \/ ProcessFrame \/ SetOutput0 \/ SetOutput1
           \/ SendDown0 \/ SendDown1 \/ SendInput \/ (\E s \in Slots : Wire(s)) \/ SetDisable
           \/ Stop \/ Release \/ CallProcess \/ ReturnProcess
  <2>1. UNCHANGED <<stage, changeVars, confVars>>
    BY <1>8 DEF Install, While, Fetch, ProcessNothing, ProcessFrame, SetOutput0, SetOutput1,
                SendDown0, SendDown1, SendInput, Wire, SetDisable, Stop, Release, CallProcess,
                ReturnProcess, Encode, encVars
  <2> QED BY <2>1 DEF ChangesInv, RateWithinLimits, Kept
<1>9. CASE Destruct
  BY <1>9 DEF Destruct, ChangesInv, RateWithinLimits, Early, Unfinished
<1> QED BY <1>1, <1>2, <1>3, <1>4, <1>5, <1>6, <1>7, <1>8, <1>9
        DEF Next, ConstructEncoder, Flow, Around, Direct

-----------------------------------------------------------------------------
(* The references to the context.                                          *)

\* Initially there is no context and nobody refers to one.
LEMMA InitCtx ==
  ASSUME Init
  PROVE  CtxInv
<1>1. cached_buffers[0] = <<>> /\ received[0] = <<>> /\ released = 0 /\ Len(<<>>) = 0
  BY DEF Init, Slots
<1>2. SubSeq(<<>>, 0 + 1, 0) = <<>>
  BY SubSeqEmpty
<1>3. Unreleased = 0 /\ Held(cached_buffers[0]) = 0
  BY <1>1, <1>2, HeldEmpty DEF Unreleased
<1>4. Owner = 0 /\ InHand = 0
  BY DEF Init, Owner, InHand, Unfinished
<1>5. ctx.refs = 0 /\ ctx.destroyed = 0 /\ ~ctx.created /\ ~ctx.initFailed
  BY DEF Init, EncoderInit
<1> QED BY <1>1, <1>3, <1>4, <1>5 DEF CtxInv, CtxState, Init

\* References that were held are dropped.
LEMMA DropState ==
  ASSUME NEW c \in Contexts, CtxState(c), NEW n \in Nat, n <= c.refs
  PROVE  CtxState(Drop(c, n))
<1> DEFINE d == Drop(c, n)
<1>1. c.refs \in Int /\ c.destroyed \in Nat
  BY DEF Contexts
<1>2. /\ d.created = c.created /\ d.initFailed = c.initFailed /\ d.refs = c.refs - n
      /\ d.destroyed = c.destroyed + IF c.created /\ n > 0 /\ c.refs = n THEN 1 ELSE 0
  BY DropType
<1> HIDE DEF d
<1>3. CASE n = 0
  <2>1. d.destroyed = c.destroyed /\ d.refs = c.refs
    BY <1>1, <1>2, <1>3
  <2>2. d.created = c.created /\ d.initFailed = c.initFailed
    BY <1>2
  <2> QED BY <2>1, <2>2 DEF CtxState, d
<1>4. CASE n > 0
  <2>1. c.created /\ ~c.initFailed /\ c.destroyed = 0
    BY <1>1, <1>4 DEF CtxState
  <2>2. d.created /\ ~d.initFailed
    BY <1>2, <2>1
  <2>3. d.destroyed = IF d.refs = 0 THEN 1 ELSE 0
    BY <1>1, <1>2, <1>4, <2>1
  <2> QED BY <2>2, <2>3 DEF CtxState, d
<1> QED BY <1>3, <1>4 DEF d

\* The terms of the count of references are natural numbers.
LEMMA CtxTypes ==
  ASSUME TypeInv
  PROVE  /\ cached_buffers[0] \in Seq(Buffers) /\ received[0] \in Seq(Buffers)
         /\ released \in 0..Len(received[0]) /\ Len(received[0]) \in Nat
         /\ Held(cached_buffers[0]) \in Nat /\ Unreleased \in Nat
         /\ Owner \in {0, 1} /\ InHand \in {0, 1}
         /\ ctx \in Contexts /\ ctx.refs \in Int
<1>1. /\ cached_buffers[0] \in Seq(Buffers) /\ received[0] \in Seq(Buffers)
      /\ released \in 0..Len(received[0]) /\ Len(received[0]) \in Nat
  BY DEF TypeInv, FlowTypes, Slots
<1>2. SubSeq(received[0], released + 1, Len(received[0])) \in Seq(Buffers)
  BY <1>1
<1>3. Held(cached_buffers[0]) \in Nat /\ Unreleased \in Nat
  BY <1>1, <1>2, HeldNat DEF Unreleased
<1>4. ctx \in Contexts /\ ctx.refs \in Int
  BY DEF TypeInv, EncoderTypes, Contexts
<1> QED BY <1>1, <1>3, <1>4 DEF Owner, InHand

\* Construction: the encoder gets its reference, and gives it back on failure.
LEMMA CtxConstruction ==
  ASSUME TypeInv, CtxInv, ParseParams \/ ParseMediaConfigFromMap \/ ConstructEncoder
  PROVE  CtxInv'
<1> DEFINE others == InHand + Held(cached_buffers[0]) + Unreleased
<1>1. others \in Nat /\ ctx \in Contexts /\ ctx.refs = Owner + others /\ CtxState(ctx)
  BY CtxTypes DEF CtxInv
<1>2. /\ UNCHANGED <<pc, client, cached_buffers, received, released, dst>>
      /\ others' = others
  BY DEF ParseParams, ParseMediaConfigFromMap, ConstructEncoder, flowVars, workVars, outVars,
         InHand, Unreleased
<1>3. Owner' + InHand' + Held(cached_buffers'[0]) + Unreleased' = Owner' + others
  <2>1. Owner' \in {0, 1} /\ InHand' = InHand /\ Unreleased' = Unreleased
        /\ cached_buffers' = cached_buffers
    BY <1>2 DEF Owner, InHand, Unreleased
  <2> QED BY <2>1, CtxTypes
<1> HIDE DEF others
<1>4. stage # "gone" /\ stage' # "gone"
  BY DEF ParseParams, ParseMediaConfigFromMap, ConstructEncoder, CreateEncoder, ControlFails,
         PrepConfig, InitRateControl, InitCodec, InitExtra, InitMjpeg
<1>5. CASE ParseParams \/ ParseMediaConfigFromMap
  BY <1>1, <1>2, <1>3, <1>4, <1>5
     DEF ParseParams, ParseMediaConfigFromMap, CtxInv, Owner, Unfinished
<1>6. CASE CreateEncoder
  <2>1. stage = "create" /\ Owner = 0
    BY <1>6 DEF CreateEncoder, Owner, Unfinished
  <2>2. ~ctx.created /\ ctx.refs = 0 /\ ctx.destroyed = 0 /\ ~ctx.initFailed /\ others = 0
    BY <1>1, <2>1 DEF CtxInv, CtxState
  <2> DEFINE c == Created(ctx)
             f == [c EXCEPT !.destroyed = 1, !.initFailed = TRUE]
  <2>3. c \in Contexts /\ c.created /\ c.refs = 1 /\ c.destroyed = 0 /\ ~c.initFailed
    BY <1>1, <2>2, CreatedType
  <2>4. \/ stage' = "prep" /\ ctx' = c
        \/ stage' = "failed" /\ UNCHANGED ctx
        \/ stage' = "failed" /\ ctx' = Drop(f, 1)
    BY <1>6 DEF CreateEncoder
  <2> HIDE DEF c
  <2>5. f \in Contexts /\ f.created /\ f.refs = 1 /\ f.destroyed = 1 /\ f.initFailed
    BY <2>3, InitFailedType
  <2> HIDE DEF f
  <2>6. Drop(f, 1).refs = 0 /\ Drop(f, 1).destroyed = 2 /\ Drop(f, 1).initFailed
        /\ Drop(f, 1).created
    <3>1. f \in Contexts
      BY <2>5
    <3>2. f.created
      BY <2>5
    <3>3. f.refs = 1
      BY <2>5
    <3>4. f.destroyed = 1
      BY <2>5
    <3>5. f.initFailed
      BY <2>5
    <3>6. Drop(f, 1).refs = 0 /\ Drop(f, 1).destroyed = 2
      BY <3>1, <3>2, <3>3, <3>4, DropLast
    <3>7. Drop(f, 1).created /\ Drop(f, 1).initFailed
      BY <3>1, <3>2, <3>3, <3>5, DropLast
    <3> QED BY <3>6, <3>7
  <2>7. CASE stage' = "prep" /\ ctx' = c
    <3>1. Owner' = 1 /\ CtxState(ctx') /\ ctx'.refs = Owner' + others
      BY <2>2, <2>3, <2>7 DEF Owner, CtxState
    <3> QED BY <1>2, <1>3, <1>4, <2>3, <2>7, <3>1 DEF CtxInv
  <2>8. CASE stage' = "failed" /\ UNCHANGED ctx
    BY <1>1, <1>2, <1>3, <1>4, <2>1, <2>8 DEF CtxInv, Owner, Unfinished
  <2>9. CASE stage' = "failed" /\ ctx' = Drop(f, 1)
    <3>1. Owner' = 0 /\ CtxState(ctx') /\ ctx'.refs = Owner' + others
      BY <2>2, <2>6, <2>9 DEF Owner, CtxState, Unfinished
    <3> QED BY <1>2, <1>3, <1>4, <2>9, <3>1 DEF CtxInv
  <2> QED BY <2>4, <2>7, <2>8, <2>9
<1>7. ASSUME stage \in {"prep", "control"} \union Unfinished
      PROVE  /\ Owner = 1 /\ ctx.created /\ ~ctx.initFailed
             /\ CtxState(Drop(ctx, 1)) /\ Drop(ctx, 1).refs = others
             /\ Drop(ctx, 1) \in Contexts
  <2>1. Owner = 1 /\ ctx.created /\ ~ctx.initFailed
    BY <1>7 DEF CtxInv, Owner, Unfinished
  <2>2. 1 <= ctx.refs /\ ctx.refs = 1 + others
    BY <1>1, <2>1
  <2>3. Drop(ctx, 1) \in Contexts /\ Drop(ctx, 1).refs = ctx.refs - 1
    BY <1>1, DropType
  <2>4. CtxState(Drop(ctx, 1))
    BY <1>1, <2>2, DropState
  <2> QED BY <1>1, <2>1, <2>2, <2>3, <2>4
<1>8. ASSUME stage \in {"prep", "control"} \union Unfinished,
             stage' = "failed", ctx' = Drop(ctx, 1)
      PROVE  CtxInv'
  BY <1>1, <1>2, <1>3, <1>4, <1>7, <1>8 DEF CtxInv, Owner, Unfinished
<1>9. ASSUME stage \in {"prep", "control"} \union Unfinished,
             stage' \in {"prep", "control", "configured"} \union Unfinished, UNCHANGED ctx
      PROVE  CtxInv'
  BY <1>1, <1>2, <1>3, <1>4, <1>7, <1>9 DEF CtxInv, Owner, Unfinished
<1>10. CASE ControlFails \/ PrepConfig \/ (\E bps \in Rates : InitRateControl(bps)) \/ InitCodec
            \/ InitExtra \/ InitMjpeg
  <2>1. /\ stage \in {"prep", "control"} \union Unfinished
        /\ \/ stage' = "failed" /\ ctx' = Drop(ctx, 1)
           \/ stage' \in {"prep", "control", "configured"} \union Unfinished /\ UNCHANGED ctx
    BY <1>10 DEF ControlFails, PrepConfig, InitRateControl, InitCodec, InitExtra, InitMjpeg,
                 Unfinished
  <2> QED BY <1>8, <1>9, <2>1
<1> QED BY <1>5, <1>6, <1>10 DEF ConstructEncoder

\* Dropping no reference changes nothing.
LEMMA DropZero ==
  ASSUME NEW c \in Contexts
  PROVE  Drop(c, 0) = c
<1>1. Drop(c, 0) = [c EXCEPT !.refs = c.refs - 0, !.destroyed = c.destroyed + 0]
  BY DEF Drop
<1>2. c.refs - 0 = c.refs /\ c.destroyed + 0 = c.destroyed
  BY DEF Contexts
<1> QED BY <1>1, <1>2 DEF Contexts

\* The count is kept by a step after which as many references are held as it
\* leaves, whether it drops some or none.
LEMMA CtxDrop ==
  ASSUME TypeInv, CtxInv, NEW n \in Nat, n <= ctx.refs, ctx' = Drop(ctx, n),
         ctx.refs - n = Owner' + InHand' + Held(cached_buffers'[0]) + Unreleased',
         stage' = stage \/ (stage = "configured" /\ stage' = "gone"),
         pc' = "none" \/ client' = "direct" => cached_buffers'[0] = <<>>,
         stage' = "gone" => cached_buffers'[0] = <<>>
  PROVE  CtxInv'
<1>1. ctx \in Contexts /\ CtxState(ctx)
  BY CtxTypes DEF CtxInv
<1>2. CtxState(ctx')
  BY <1>1, DropState
<1>3. ctx'.refs = ctx.refs - n
  BY <1>1, DropType
<1>4. ctx'.created = ctx.created /\ ctx'.initFailed = ctx.initFailed
  <2>1. n \in Int
    OBVIOUS
  <2> QED BY <1>1, <2>1, DropType, Zenon
<1>5. /\ stage' \in {"params", "media", "create"} => ~ctx'.created
      /\ stage' \notin {"params", "media", "create", "failed"} => ctx'.created /\ ~ctx'.initFailed
  BY <1>4 DEF CtxInv
<1>6. ctx'.refs = Owner' + InHand' + Held(cached_buffers'[0]) + Unreleased'
  BY <1>3
<1> QED BY <1>2, <1>5, <1>6 DEF CtxInv

\* Steps that touch neither what is held nor the context.
LEMMA CtxQuiet ==
  ASSUME TypeInv, CtxInv, UNCHANGED <<stage, client, ctx, released>>, InHand' = InHand,
         cached_buffers'[0] = cached_buffers[0], received'[0] = received[0],
         pc' = "none" => client = "direct" \/ pc = "none"
  PROVE  CtxInv'
<1>1. Unreleased' = Unreleased /\ Owner' = Owner
  BY DEF Unreleased, Owner
<1> QED BY <1>1 DEF CtxInv, CtxState

\* What is sent to the receiver of slot 0 counts as not released.
LEMMA UnreleasedSent ==
  ASSUME TypeInv, NEW t \in Seq(Buffers), received'[0] = received[0] \o t, released' = released
  PROVE  Unreleased' = Unreleased + Held(t)
<1> DEFINE more == received[0] \o t
<1>1. received[0] \in Seq(Buffers) /\ released \in 0..Len(received[0])
  BY CtxTypes
<1>2. Held(SubSeq(more, released + 1, Len(more))) = Unreleased + Held(t)
  BY <1>1, UnreleasedConcat DEF Unreleased
<1>3. received'[0] = more
  OBVIOUS
<1> HIDE DEF more
<1>4. Unreleased' = Held(SubSeq(more, released + 1, Len(more)))
  BY <1>3 DEF Unreleased
<1> QED BY <1>2, <1>4

\* The flow's own steps: an output is taken in hand, queued, and sent down.
LEMMA CtxCoroutine ==
  ASSUME TypeInv, CtxInv, ProcessFrame \/ SetOutput0 \/ SendDown0
  PROVE  CtxInv'
<1> DEFINE H == Held(cached_buffers[0])
<1>1. /\ H \in Nat /\ Unreleased \in Nat /\ InHand \in {0, 1} /\ ctx \in Contexts
      /\ cached_buffers[0] \in Seq(Buffers) /\ received[0] \in Seq(Buffers)
      /\ released \in 0..Len(received[0])
  BY CtxTypes
<1>2. stage = "configured" /\ Owner = 1 /\ client = "flow" /\ UNCHANGED <<stage, client, released>>
  BY DEF ProcessFrame, SetOutput0, SendDown0, TypeInv, FlowTypes, InUse, Owner, Encode
<1>3. ctx.refs = 1 + InHand + H + Unreleased /\ Owner' = 1
  BY <1>2 DEF CtxInv, Owner
<1>4. 0 \in Slots /\ pc' # "none" /\ cached_buffers \in [Slots -> Seq(Buffers)]
      /\ received \in [Slots -> Seq(Buffers)] /\ dst \in Buffers
  BY <1>2 DEF ProcessFrame, SetOutput0, SendDown0, Slots, TypeInv, FlowTypes
<1> HIDE DEF H
<1>5. CASE ProcessFrame
  <2>1. UNCHANGED <<cached_buffers, received>> /\ pc = "encode"
    BY <1>5 DEF ProcessFrame, outVars
  <2>2. Unreleased' = Unreleased /\ Held(cached_buffers'[0]) = H /\ InHand = 0
    BY <1>2, <2>1 DEF Unreleased, InHand, H
  <2>3. \/ ctx' = ctx /\ InHand' = 0
        \/ ctx' = WithPacket(ctx) /\ InHand' = 1
    <3>1. PICK outcome \in NoPacket..sent :
            IF outcome = Failed
              THEN ret' = FALSE /\ pc' = "send0" /\ UNCHANGED <<dst, ctx>>
              ELSE /\ ret' = TRUE /\ pc' = "set0"
                   /\ dst' = IF outcome = NoPacket THEN Bare ELSE Packet(outcome)
                   /\ ctx' = WithPacket(ctx)
      BY <1>5 DEF ProcessFrame
    <3> QED BY <3>1 DEF InHand, KeepsContext, Bare, Packet
  <2>4. CASE ctx' = ctx /\ InHand' = 0
    BY <1>2, <1>4, <2>1, <2>2, <2>4, CtxQuiet
  <2>5. CASE ctx' = WithPacket(ctx) /\ InHand' = 1
    <3>1. ctx.created /\ ~ctx.initFailed
      BY <1>2 DEF CtxInv
    <3>2. ctx.refs \in Int /\ ctx.refs # 0
      BY <1>1, <1>3 DEF Contexts
    <3>3. ctx.destroyed = 0
      BY <3>1, <3>2 DEF CtxInv, CtxState
    <3>4. ctx'.refs = ctx.refs + 1 /\ ctx'.destroyed = 0
      BY <1>1, <2>5, <3>3 DEF WithPacket, Contexts
    <3>5. ctx'.created /\ ~ctx'.initFailed
      <4>1. ctx'.created = ctx.created /\ ctx'.initFailed = ctx.initFailed
        BY <1>1, <2>5, Zenon DEF WithPacket, Contexts
      <4> QED BY <3>1, <4>1
    <3>6. ctx'.refs = Owner' + InHand' + Held(cached_buffers'[0]) + Unreleased' /\ ctx'.refs # 0
      BY <1>1, <1>3, <2>2, <2>5, <3>2, <3>4
    <3>7. CtxState(ctx')
      BY <3>4, <3>5, <3>6 DEF CtxState
    <3> QED BY <1>2, <1>4, <3>5, <3>6, <3>7 DEF CtxInv
  <2> QED BY <2>3, <2>4, <2>5
<1>6. CASE SetOutput0
  <2>1. /\ pc = "set0" /\ pc' # "set0" /\ UNCHANGED received
        /\ InHand = (IF KeepsContext(dst) THEN 1 ELSE 0) /\ InHand' = 0 /\ Unreleased' = Unreleased
    BY <1>2, <1>6 DEF SetOutput0, InHand, Unreleased
  <2>2. CASE enable
    <3>1. cached_buffers'[0] = Append(cached_buffers[0], dst) /\ ctx' = ctx
      BY <1>4, <1>6, <2>2 DEF SetOutput0
    <3>2. Held(cached_buffers'[0]) = H + InHand
      BY <1>1, <1>4, <2>1, <3>1, HeldAppend DEF H
    <3>3. ctx' = Drop(ctx, 0)
      BY <1>1, <3>1, DropZero
    <3>4. ctx.refs - 0 = Owner' + InHand' + Held(cached_buffers'[0]) + Unreleased'
          /\ 0 <= ctx.refs
      BY <1>1, <1>3, <2>1, <3>2
    <3> QED BY <1>2, <1>4, <3>3, <3>4, CtxDrop
  <2>3. CASE ~enable
    <3>1. cached_buffers' = cached_buffers /\ ctx' = IF KeepsContext(dst) THEN Drop(ctx, 1) ELSE ctx
      BY <1>6, <2>3 DEF SetOutput0
    <3>2. ctx' = Drop(ctx, InHand)
      BY <1>1, <2>1, <3>1, DropZero
    <3>3. ctx.refs - InHand = Owner' + InHand' + Held(cached_buffers'[0]) + Unreleased'
          /\ InHand \in Nat /\ InHand <= ctx.refs
      BY <1>1, <1>3, <2>1, <3>1 DEF H
    <3> QED BY <1>2, <1>4, <3>2, <3>3, CtxDrop
  <2> QED BY <2>2, <2>3
<1>7. CASE SendDown0
  <2>1. InHand = 0 /\ InHand' = 0
    BY <1>7 DEF SendDown0, InHand
  <2>2. /\ received'[0] = IF ~flows[0] THEN received[0] ELSE IF ret
                            THEN received[0] \o cached_buffers[0] ELSE Append(received[0], Null)
        /\ cached_buffers'[0] = IF ret THEN <<>> ELSE cached_buffers[0]
        /\ ctx' = Drop(ctx, IF ret /\ ~flows[0] THEN H ELSE 0)
    BY <1>4, <1>7 DEF SendDown0, Down, H
  <2>3. CASE ret /\ flows[0]
    <3>1. Unreleased' = Unreleased + H
      <4>1. received'[0] = received[0] \o cached_buffers[0] /\ released' = released
        BY <1>2, <2>2, <2>3
      <4> QED BY <1>1, <4>1, UnreleasedSent DEF H
    <3>2. Held(cached_buffers'[0]) = 0
      BY <2>2, <2>3, HeldEmpty
    <3>3. ctx.refs - 0 = Owner' + InHand' + Held(cached_buffers'[0]) + Unreleased'
          /\ 0 <= ctx.refs /\ ctx' = Drop(ctx, 0)
      BY <1>1, <1>3, <2>1, <2>2, <2>3, <3>1, <3>2
    <3> QED BY <1>2, <1>4, <3>3, CtxDrop
  <2>4. CASE ret /\ ~flows[0]
    <3>1. Unreleased' = Unreleased
      BY <1>2, <2>2, <2>4 DEF Unreleased
    <3>2. Held(cached_buffers'[0]) = 0
      BY <2>2, <2>4, HeldEmpty
    <3>3. ctx.refs - H = Owner' + InHand' + Held(cached_buffers'[0]) + Unreleased'
          /\ H <= ctx.refs /\ ctx' = Drop(ctx, H)
      BY <1>1, <1>3, <2>1, <2>2, <2>4, <3>1, <3>2
    <3> QED BY <1>1, <1>2, <1>4, <3>3, CtxDrop
  <2>5. CASE ~ret
    <3>1. Null \in Buffers /\ <<Null>> \in Seq(Buffers) /\ Held(<<Null>>) = 0
      <4>1. Null \in Buffers /\ ~KeepsContext(Null)
        BY DEF Null, Buffers, KeepsContext
      <4> QED BY <4>1, HeldOne
    <3>2. Append(received[0], Null) = received[0] \o <<Null>>
      BY <1>1, <3>1, AppendIsConcat
    <3>3. Unreleased' = Unreleased
      <4>1. CASE flows[0]
        <5>1. received'[0] = received[0] \o <<Null>>
          BY <2>2, <2>5, <3>2, <4>1
        <5>2. Unreleased' = Unreleased + Held(<<Null>>)
          BY <1>2, <3>1, <5>1, UnreleasedSent
        <5> QED BY <1>1, <3>1, <5>2
      <4>2. CASE ~flows[0]
        BY <1>2, <2>2, <4>2 DEF Unreleased
      <4> QED BY <4>1, <4>2
    <3>4. ctx.refs - 0 = Owner' + InHand' + Held(cached_buffers'[0]) + Unreleased'
          /\ 0 <= ctx.refs /\ ctx' = Drop(ctx, 0)
      BY <1>1, <1>3, <2>1, <2>2, <2>5, <3>3 DEF H
    <3> QED BY <1>2, <1>4, <3>4, CtxDrop
  <2> QED BY <2>3, <2>4, <2>5
<1> QED BY <1>5, <1>6, <1>7

\* What the others do: the receiver lets a buffer go, the flow is taken down,
\* the direct client gives the encoder up.
LEMMA CtxRelease ==
  ASSUME TypeInv, CtxInv, Release \/ Destruct \/ Discard
  PROVE  CtxInv'
<1> DEFINE H == Held(cached_buffers[0])
<1>1. /\ H \in Nat /\ Unreleased \in Nat /\ InHand \in {0, 1} /\ Owner \in {0, 1}
      /\ ctx \in Contexts /\ received[0] \in Seq(Buffers) /\ released \in 0..Len(received[0])
      /\ ctx.refs = Owner + InHand + H + Unreleased
  BY CtxTypes DEF CtxInv
<1>2. CASE Release
  <2> DEFINE one == IF KeepsContext(received[0][released + 1]) THEN 1 ELSE 0
  <2>1. /\ UNCHANGED <<stage, client, pc, dst, cached_buffers, received>>
        /\ released < Len(received[0]) /\ released' = released + 1 /\ ctx' = Drop(ctx, one)
    BY <1>2 DEF Release, workVars, outVars
  <2>2. Owner' = Owner /\ InHand' = InHand /\ Held(cached_buffers'[0]) = H
    BY <2>1 DEF Owner, InHand
  <2>3. Unreleased = one + Held(SubSeq(received[0], released + 2, Len(received[0])))
    BY <1>1, <2>1, UnreleasedNext DEF Unreleased
  <2>4. released' + 1 = released + 2
    BY <1>1, <2>1
  <2>5. Unreleased' = Held(SubSeq(received[0], released + 2, Len(received[0])))
    BY <2>1, <2>4 DEF Unreleased
  <2>6. Held(SubSeq(received[0], released + 2, Len(received[0]))) \in Nat
    <3>1. SubSeq(received[0], released + 2, Len(received[0])) \in Seq(Buffers)
      BY <1>1
    <3> QED BY <3>1, HeldNat
  <2>7. one \in {0, 1}
    OBVIOUS
  <2> HIDE DEF one, H
  <2>8. one \in Nat /\ one <= ctx.refs
        /\ ctx.refs - one = Owner' + InHand' + Held(cached_buffers'[0]) + Unreleased'
    BY <1>1, <2>2, <2>3, <2>5, <2>6, <2>7
  <2>9. /\ pc' = "none" \/ client' = "direct" => cached_buffers'[0] = <<>>
        /\ stage' = "gone" => cached_buffers'[0] = <<>>
    BY <2>1 DEF CtxInv
  <2> QED BY <2>1, <2>8, <2>9, CtxDrop
<1>3. CASE Destruct
  <2>1. /\ UNCHANGED <<client, pc, received, released>> /\ pc = "done" /\ stage # "gone"
        /\ stage' = "gone" /\ ctx' = Drop(ctx, 1 + H) /\ cached_buffers'[0] = <<>>
    BY <1>3 DEF Destruct, workVars, Slots
  <2>2. stage = "configured"
    BY <2>1 DEF TypeInv, InUse
  <2>3. Owner = 1 /\ Owner' = 0 /\ InHand = 0 /\ InHand' = 0 /\ Unreleased' = Unreleased
    BY <2>1, <2>2 DEF Owner, InHand, Unreleased, Unfinished
  <2>4. Held(cached_buffers'[0]) = 0
    BY <2>1, HeldEmpty
  <2> HIDE DEF H
  <2>5. 1 + H \in Nat /\ 1 + H <= ctx.refs
        /\ ctx.refs - (1 + H) = Owner' + InHand' + Held(cached_buffers'[0]) + Unreleased'
    BY <1>1, <2>3, <2>4
  <2> QED BY <2>1, <2>2, <2>5, CtxDrop
<1>4. CASE Discard
  <2>1. /\ UNCHANGED <<client, pc, dst, cached_buffers, received, released>> /\ pc = "none"
        /\ stage = "configured" /\ stage' = "gone" /\ ctx' = Drop(ctx, 1)
    BY <1>4 DEF Discard, flowVars, workVars, outVars
  <2>2. Owner = 1 /\ Owner' = 0 /\ InHand' = InHand /\ Unreleased' = Unreleased
        /\ Held(cached_buffers'[0]) = H
    BY <2>1 DEF Owner, InHand, Unreleased, Unfinished
  <2> HIDE DEF H
  <2>3. 1 \in Nat /\ 1 <= ctx.refs
        /\ ctx.refs - 1 = Owner' + InHand' + Held(cached_buffers'[0]) + Unreleased'
    BY <1>1, <2>2
  <2>4. cached_buffers'[0] = <<>>
    BY <2>1 DEF CtxInv
  <2> QED BY <2>1, <2>3, <2>4, CtxDrop
<1> QED BY <1>2, <1>3, <1>4

\* Every step keeps the count of references.
LEMMA CtxStep ==
  ASSUME TypeInv, CtxInv, Next
  PROVE  CtxInv'
<1>1. CASE Install
  <2>1. /\ UNCHANGED <<stage, client, ctx, received, released>> /\ pc = "none"
        /\ client = "flow" /\ stage = "configured" /\ pc' = "while"
        /\ cached_buffers'[0] = Extras
    BY <1>1 DEF Install, encVars, Slots
  <2>2. cached_buffers[0] = <<>> /\ Held(cached_buffers[0]) = 0
    BY <2>1, HeldEmpty DEF CtxInv
  <2>3. \A i \in DOMAIN Extras : ~KeepsContext(Extras[i])
    BY DEF Extras, Extra, KeepsContext
  <2>4. Held(cached_buffers'[0]) = 0
    BY <2>1, <2>3, HeldNone
  <2>5. Owner' = Owner /\ InHand' = 0 /\ InHand = 0 /\ Unreleased' = Unreleased
    BY <2>1 DEF Owner, InHand, Unreleased
  <2>6. ctx.refs - 0 = Owner' + InHand' + Held(cached_buffers'[0]) + Unreleased'
        /\ 0 <= ctx.refs /\ ctx' = Drop(ctx, 0)
    BY <2>1, <2>2, <2>4, <2>5, CtxTypes, DropZero DEF CtxInv
  <2> QED BY <2>1, <2>6, CtxDrop
<1>2. CASE \/ While \/ Fetch \/ ProcessNothing \/ ProcessChange \/ SetOutput1 \/ SendDown1
           \/ SendInput \/ (\E s \in Slots : Wire(s)) \/ SetDisable \/ Stop
           \/ Request \/ CallProcess
  <2>1. /\ UNCHANGED <<stage, client, ctx, released>>
        /\ cached_buffers'[0] = cached_buffers[0] /\ received'[0] = received[0]
    <3>1. CASE SetOutput1 \/ SendDown1
      <4>1. UNCHANGED <<stage, client, ctx, released>>
        BY <3>1 DEF SetOutput1, SendDown1, encVars
      <4>2. /\ cached_buffers \in [Slots -> Seq(Buffers)] /\ received \in [Slots -> Seq(Buffers)]
            /\ 0 \in Slots /\ 1 \in Slots
        BY DEF TypeInv, FlowTypes, Slots
      <4>3. cached_buffers'[0] = cached_buffers[0] /\ received'[0] = received[0]
        BY <3>1, <4>2 DEF SetOutput1, SendDown1, Down
      <4> QED BY <4>1, <4>3
    <3>2. CASE SendInput \/ (\E s \in Slots : Wire(s)) \/ SetDisable \/ Stop \/ While \/ Fetch
               \/ ProcessNothing \/ ProcessChange \/ CallProcess
      BY <3>2 DEF While, Fetch, ProcessNothing, ProcessChange, SendInput, Wire, SetDisable, Stop,
                  CallProcess, encVars, outVars
    <3>3. CASE Request
      BY <3>3 DEF Request, RequestChange, flowVars, outVars
    <3> QED BY <1>2, <3>1, <3>2, <3>3
  <2>2. InHand' = InHand /\ (pc' = "none" => client = "direct" \/ pc = "none")
    BY <1>2 DEF While, Fetch, ProcessNothing, ProcessChange, SetOutput1, SendDown1, SendInput,
                Wire, SetDisable, Stop, Request, RequestChange, CallProcess, flowVars, workVars,
                InHand, Empty, KeepsContext, TypeInv, FlowTypes
  <2> QED BY <2>1, <2>2, CtxQuiet
<1>3. CASE ReturnProcess
  <2>1. /\ UNCHANGED <<stage, client, ctx, released, dst, cached_buffers>> /\ client = "direct"
        /\ pc = "encode" /\ pc' = "none" /\ cached_buffers[0] = <<>>
    BY <1>3 DEF ReturnProcess, Encode, CtxInv
  <2>2. PICK outcome \in NoPacket..sent :
          received' = IF outcome \in 1..sent
                        THEN [received EXCEPT ![0] = Append(@, Copy(outcome))] ELSE received
    BY <1>3 DEF ReturnProcess
  <2>3. /\ Copy(outcome) \in Buffers /\ <<Copy(outcome)>> \in Seq(Buffers)
        /\ Held(<<Copy(outcome)>>) = 0
    <3>1. Copy(outcome) \in Buffers /\ ~KeepsContext(Copy(outcome))
      BY <2>2 DEF Copy, Buffers, KeepsContext, NoPacket
    <3> QED BY <3>1, HeldOne
  <2>4. Unreleased' = Unreleased
    <3>1. CASE outcome \in 1..sent
      <4>1. received'[0] = received[0] \o <<Copy(outcome)>>
        <5>1. received'[0] = Append(received[0], Copy(outcome))
          BY <2>2, <3>1 DEF TypeInv, FlowTypes, Slots
        <5> QED BY <2>3, <5>1, AppendIsConcat, CtxTypes
      <4>2. Unreleased' = Unreleased + Held(<<Copy(outcome)>>)
        BY <2>1, <2>3, <4>1, UnreleasedSent
      <4> QED BY <2>3, <4>2, CtxTypes
    <3>2. CASE outcome \notin 1..sent
      BY <2>1, <2>2, <3>2 DEF Unreleased
    <3> QED BY <3>1, <3>2
  <2>5. Owner' = Owner /\ InHand' = InHand /\ Held(cached_buffers'[0]) = Held(cached_buffers[0])
    BY <2>1 DEF Owner, InHand
  <2> QED BY <2>1, <2>4, <2>5 DEF CtxInv, CtxState
<1> QED BY <1>1, <1>2, <1>3, CtxConstruction, CtxCoroutine, CtxRelease
        DEF Next, Flow, Around, Direct

-----------------------------------------------------------------------------
(* The two output queues.                                                  *)

\* Matching sequences stay so when matching ones are appended.
LEMMA MatchConcat ==
  ASSUME NEW s \in Seq(Buffers), NEW t \in Seq(Buffers), Match(s, t),
         NEW u \in Seq(Buffers), NEW v \in Seq(Buffers), Match(u, v)
  PROVE  Match(s \o u, t \o v)
<1>1. /\ Len(s) \in Nat /\ Len(u) \in Nat /\ Len(s) = Len(t) /\ Len(u) = Len(v)
      /\ \A i \in 1..Len(s) : t[i] = Mate(s[i])
      /\ \A i \in 1..Len(u) : v[i] = Mate(u[i])
  BY DEF Match
<1>2. /\ Len(s \o u) = Len(s) + Len(u)
      /\ \A i \in 1..Len(s) + Len(u) :
           (s \o u)[i] = IF i <= Len(s) THEN s[i] ELSE u[i - Len(s)]
  OBVIOUS
<1>3. /\ Len(t \o v) = Len(t) + Len(v)
      /\ \A i \in 1..Len(t) + Len(v) :
           (t \o v)[i] = IF i <= Len(t) THEN t[i] ELSE v[i - Len(t)]
  OBVIOUS
<1> DEFINE su == s \o u
           tv == t \o v
<1> HIDE DEF su, tv
<1>4. /\ Len(su) = Len(s) + Len(u) /\ Len(tv) = Len(s) + Len(u)
      /\ \A i \in 1..Len(s) + Len(u) : su[i] = IF i <= Len(s) THEN s[i] ELSE u[i - Len(s)]
      /\ \A i \in 1..Len(s) + Len(u) : tv[i] = IF i <= Len(s) THEN t[i] ELSE v[i - Len(s)]
  BY <1>1, <1>2, <1>3 DEF su, tv
<1>5. ASSUME NEW i \in 1..Len(s) + Len(u)
      PROVE  tv[i] = Mate(su[i])
  <2>1. CASE i <= Len(s)
    BY <1>1, <1>4, <2>1
  <2>2. CASE ~(i <= Len(s))
    <3>1. i - Len(s) \in 1..Len(u)
      BY <1>1, <2>2
    <3> QED BY <1>1, <1>4, <2>2, <3>1
  <2> QED BY <2>1, <2>2
<1>6. Match(su, tv)
  BY <1>4, <1>5 DEF Match
<1> QED BY <1>6 DEF su, tv

\* A buffer and its mate may be appended.
LEMMA MatchAppend ==
  ASSUME NEW s \in Seq(Buffers), NEW t \in Seq(Buffers), Match(s, t),
         NEW b \in Buffers, NEW c \in Buffers, c = Mate(b)
  PROVE  Match(Append(s, b), Append(t, c))
<1>1. <<b>> \in Seq(Buffers) /\ <<c>> \in Seq(Buffers) /\ Match(<<b>>, <<c>>)
  BY DEF Match
<1>2. Match(s \o <<b>>, t \o <<c>>)
  BY <1>1, MatchConcat
<1>3. Append(s, b) = s \o <<b>> /\ Append(t, c) = t \o <<c>>
  BY AppendIsConcat
<1> QED BY <1>2, <1>3

\* Empty queues match.
LEMMA MatchEmpty == Match(<<>>, <<>>)
BY DEF Match

\* Initially nothing is queued or sent.
LEMMA InitPair ==
  ASSUME Init
  PROVE  PairInv
<1>1. /\ pc = "none" /\ rounds = 0
      /\ cached_buffers[0] = <<>> /\ cached_buffers[1] = <<>>
      /\ received[0] = <<>> /\ received[1] = <<>>
  BY DEF Init, Slots
<1> QED BY <1>1, MatchEmpty DEF PairInv, QueuesMatch, NothingYet, SentMatch

\* The four steps that queue or send.
LEMMA PairOutputs ==
  ASSUME TypeInv, PairInv, SetOutput0 \/ SetOutput1 \/ SendDown0 \/ SendDown1
  PROVE  PairInv'
<1> SUFFICES ASSUME client = "flow", extra_output
             PROVE  (QueuesMatch /\ NothingYet /\ SentMatch)'
  BY DEF SetOutput0, SetOutput1, SendDown0, SendDown1, PairInv
<1>1. QueuesMatch /\ NothingYet /\ SentMatch
  BY DEF PairInv
<1>2. /\ 0 \in Slots /\ 1 \in Slots
      /\ cached_buffers \in [Slots -> Seq(Buffers)] /\ received \in [Slots -> Seq(Buffers)]
      /\ cached_buffers[0] \in Seq(Buffers) /\ cached_buffers[1] \in Seq(Buffers)
      /\ received[0] \in Seq(Buffers) /\ received[1] \in Seq(Buffers)
      /\ dst \in Buffers /\ enable \in BOOLEAN /\ ret \in BOOLEAN
  BY DEF TypeInv, FlowTypes, Slots
<1>3. /\ Null \in Buffers /\ Empty \in Buffers /\ Null = Mate(Null) /\ Empty = Mate(Empty)
      /\ (dst.kind \notin {"extra", "null"} => Empty = Mate(dst))
  BY DEF Null, Empty, Buffers, Mate
<1>4. CASE SetOutput0
  <2>1. /\ pc = "set0" /\ pc' = "set1" /\ UNCHANGED <<enable, received, rounds, early, flows>>
        /\ ret' = enable /\ ret /\ dst.kind \notin {"extra", "null"} /\ rounds # 0
    BY <1>1, <1>4 DEF SetOutput0, QueuesMatch, NothingYet, wireVars
  <2>2. enable => /\ cached_buffers'[0] = Append(cached_buffers[0], dst)
                  /\ cached_buffers'[1] = cached_buffers[1]
    BY <1>2, <1>4 DEF SetOutput0
  <2>3. enable => Match(cached_buffers'[0], Append(cached_buffers'[1], Empty))
    BY <1>1, <1>2, <1>3, <2>1, <2>2, MatchAppend DEF QueuesMatch
  <2> QED BY <1>1, <2>1, <2>3 DEF QueuesMatch, NothingYet, SentMatch
<1>5. CASE SetOutput1
  <2>1. /\ pc = "set1" /\ pc' = "send0" /\ UNCHANGED <<enable, received, rounds, early, flows>>
        /\ ret' = (ret /\ enable) /\ rounds # 0
    BY <1>1, <1>5 DEF SetOutput1, NothingYet, wireVars
  <2>2. enable => /\ cached_buffers'[0] = cached_buffers[0]
                  /\ cached_buffers'[1] = Append(cached_buffers[1], Empty)
    BY <1>2, <1>5 DEF SetOutput1
  <2>3. enable => ret /\ Match(cached_buffers'[0], cached_buffers'[1])
    BY <1>1, <2>1, <2>2 DEF QueuesMatch
  <2> QED BY <1>1, <2>1, <2>3 DEF QueuesMatch, NothingYet, SentMatch
<1>6. CASE SendDown0
  <2>1. /\ pc = "send0" /\ pc' = "send1" /\ UNCHANGED <<enable, ret, rounds, early, flows>>
        /\ rounds # 0
    BY <1>1, <1>6 DEF SendDown0, NothingYet, wireVars
  <2>2. /\ received'[0] = IF ~flows[0] THEN received[0] ELSE IF ret
                            THEN received[0] \o cached_buffers[0] ELSE Append(received[0], Null)
        /\ cached_buffers'[0] = IF ret THEN <<>> ELSE cached_buffers[0]
        /\ received'[1] = received[1] /\ cached_buffers'[1] = cached_buffers[1]
    BY <1>2, <1>6 DEF SendDown0, Down
  <2>3. QueuesMatch'
    BY <1>1, <2>1, <2>2 DEF QueuesMatch
  <2>4. NothingYet'
    BY <2>1 DEF NothingYet
  <2>5. ASSUME \A s \in Slots : early[s] /\ flows[s]
        PROVE  /\ ret => Match(received'[0], received'[1] \o cached_buffers'[1])
               /\ ~ret => Match(received'[0], Append(received'[1], Null))
    <3>1. flows[0] /\ Match(received[0], received[1])
      BY <1>1, <1>2, <2>1, <2>5 DEF SentMatch
    <3>2. ASSUME ret
          PROVE  Match(received'[0], received'[1] \o cached_buffers'[1])
      <4>1. Match(cached_buffers[0], cached_buffers[1])
        BY <1>1, <2>1, <3>2 DEF QueuesMatch
      <4>2. Match(received[0] \o cached_buffers[0], received[1] \o cached_buffers[1])
        BY <1>2, <3>1, <4>1, MatchConcat
      <4> QED BY <2>2, <3>1, <3>2, <4>2
    <3>3. ASSUME ~ret
          PROVE  Match(received'[0], Append(received'[1], Null))
      <4>1. Match(Append(received[0], Null), Append(received[1], Null))
        BY <1>2, <1>3, <3>1, MatchAppend
      <4> QED BY <2>2, <3>1, <3>3, <4>1
    <3> QED BY <3>2, <3>3
  <2>6. SentMatch'
    BY <2>1, <2>5 DEF SentMatch
  <2> QED BY <2>3, <2>4, <2>6
<1>7. CASE SendDown1
  <2>1. /\ pc = "send1" /\ pc' = "while" /\ UNCHANGED <<enable, ret, rounds, early, flows>>
        /\ rounds # 0
    BY <1>1, <1>7 DEF SendDown1, NothingYet, wireVars
  <2>2. /\ received'[1] = IF ~flows[1] THEN received[1] ELSE IF ret
                            THEN received[1] \o cached_buffers[1] ELSE Append(received[1], Null)
        /\ cached_buffers'[1] = IF ret THEN <<>> ELSE cached_buffers[1]
        /\ received'[0] = received[0] /\ cached_buffers'[0] = cached_buffers[0]
    BY <1>2, <1>7 DEF SendDown1, Down
  <2>3. QueuesMatch'
    BY <1>1, <2>1, <2>2, MatchEmpty DEF QueuesMatch
  <2>4. NothingYet'
    BY <2>1 DEF NothingYet
  <2>5. ASSUME \A s \in Slots : early[s] /\ flows[s]
        PROVE  Match(received'[0], received'[1])
    <3>1. flows[1]
      BY <1>2, <2>5
    <3>2. CASE ret
      BY <1>1, <2>1, <2>2, <2>5, <3>1, <3>2 DEF SentMatch
    <3>3. CASE ~ret
      BY <1>1, <2>1, <2>2, <2>5, <3>1, <3>3 DEF SentMatch
    <3> QED BY <3>2, <3>3
  <2>6. SentMatch'
    BY <2>1, <2>5 DEF SentMatch
  <2> QED BY <2>3, <2>4, <2>6
<1> QED BY <1>4, <1>5, <1>6, <1>7

\* Every step keeps the queues in step.
LEMMA PairStep ==
  ASSUME TypeInv, PairInv, Next
  PROVE  PairInv'
<1>1. UNCHANGED <<client, extra_output>>
  BY DEF Next, ConstructEncoder, Flow, Around, Direct, ParseParams, ParseMediaConfigFromMap,
         Install, While, Fetch, ProcessNothing, ProcessChange, ProcessFrame, SetOutput0,
         SetOutput1, SendDown0, SendDown1, SendInput, Wire, SetDisable, Stop, Destruct, Release,
         Request, CallProcess, ReturnProcess, Discard, flowVars
<1> SUFFICES ASSUME client = "flow", extra_output
             PROVE  PairInv'
  BY <1>1 DEF PairInv
<1>2. QueuesMatch /\ NothingYet /\ SentMatch
  BY DEF PairInv
<1>3. CASE ParseParams \/ ParseMediaConfigFromMap \/ ConstructEncoder
  BY <1>2, <1>3 DEF ParseParams, ParseMediaConfigFromMap, ConstructEncoder, flowVars, workVars,
                    outVars, wireVars, PairInv, QueuesMatch, NothingYet, SentMatch
<1>4. CASE Install
  <2>1. /\ pc = "none" /\ pc' = "while" /\ UNCHANGED <<enable, ret, rounds, received, early, flows>>
        /\ cached_buffers'[0] = Extras /\ cached_buffers'[1] = [i \in DOMAIN Extras |-> Null]
    BY <1>4 DEF Install, wireVars, Slots
  <2>2. Match(cached_buffers'[0], cached_buffers'[1])
    <3>1. extra_data \in Nat
      BY DEF TypeInv, EncoderTypes
    <3>2. /\ Len(Extras) = extra_data
          /\ Len([i \in DOMAIN Extras |-> Null]) = extra_data
          /\ \A i \in 1..extra_data : Null = Mate(Extras[i])
      BY <3>1 DEF Extras, Extra, Mate
    <3> QED BY <2>1, <3>1, <3>2 DEF Match, Extras
  <2> QED BY <1>2, <2>1, <2>2 DEF PairInv, QueuesMatch, NothingYet, SentMatch
<1>5. CASE While \/ Fetch \/ ProcessNothing \/ ProcessChange \/ ProcessFrame
  <2>1. UNCHANGED <<enable, cached_buffers, received, early, flows>>
    BY <1>5 DEF While, Fetch, ProcessNothing, ProcessChange, ProcessFrame, outVars, wireVars
  <2>2. SentMatch'
    BY <1>2, <1>5, <2>1
       DEF While, Fetch, ProcessNothing, ProcessChange, ProcessFrame, SentMatch
  <2>3. NothingYet'
    <3>1. CASE Fetch
      BY <1>2, <2>1, <3>1 DEF Fetch, NothingYet, TypeInv, FlowTypes
    <3>2. CASE While
      BY <1>2, <2>1, <3>2 DEF While, NothingYet
    <3>3. CASE ProcessNothing \/ ProcessChange \/ ProcessFrame
      BY <1>2, <2>1, <3>3 DEF ProcessNothing, ProcessChange, ProcessFrame, NothingYet
    <3> QED BY <1>5, <3>1, <3>2, <3>3
  <2>4. QueuesMatch'
    <3>1. CASE While \/ Fetch
      BY <1>2, <2>1, <3>1 DEF While, Fetch, QueuesMatch
    <3>2. CASE ProcessNothing
      BY <1>2, <2>1, <3>2 DEF ProcessNothing, QueuesMatch, Empty
    <3>3. CASE ProcessChange
      <4>1. pc = "process" /\ (\/ ret' = TRUE /\ pc' = "encode"
                               \/ ret' = FALSE /\ pc' = "send0")
        BY <3>3 DEF ProcessChange
      <4> QED BY <1>2, <2>1, <4>1 DEF QueuesMatch
    <3>4. CASE ProcessFrame
      <4>1. pc = "encode" /\ \/ ret' = FALSE /\ pc' = "send0"
                             \/ ret' = TRUE /\ pc' = "set0" /\ dst'.kind \notin {"extra", "null"}
        BY <3>4 DEF ProcessFrame, Bare, Packet
      <4> QED BY <1>2, <2>1, <4>1 DEF QueuesMatch
    <3> QED BY <1>5, <3>1, <3>2, <3>3, <3>4
  <2> QED BY <2>2, <2>3, <2>4 DEF PairInv
<1>6. ASSUME NEW s \in Slots, Wire(s)
      PROVE  PairInv'
  <2>1. /\ UNCHANGED <<enable, pc, dst, ret, cached_buffers, received, rounds>>
        /\ flows' = [flows EXCEPT ![s] = ~@]
        /\ early' = IF flows[s] \/ rounds > 0 THEN [early EXCEPT ![s] = FALSE] ELSE early
    BY <1>6 DEF Wire, workVars, outVars
  <2>2. rounds \in Nat /\ early \in [Slots -> BOOLEAN] /\ flows \in [Slots -> BOOLEAN]
    BY DEF TypeInv, FlowTypes
  <2>3. early'[s] => rounds = 0
    <3>1. CASE flows[s] \/ rounds > 0
      BY <2>1, <2>2, <3>1
    <3>2. CASE ~(flows[s] \/ rounds > 0)
      BY <2>2, <3>2
    <3> QED BY <3>1, <3>2
  <2>4. rounds = 0 => received[0] = <<>> /\ received[1] = <<>> /\ pc # "send1"
    BY <1>2 DEF NothingYet
  <2>5. SentMatch'
    BY <2>1, <2>3, <2>4, MatchEmpty DEF SentMatch
  <2> QED BY <1>2, <2>1, <2>5 DEF PairInv, QueuesMatch, NothingYet
<1>7. CASE SetDisable \/ Stop
  BY <1>2, <1>7 DEF SetDisable, Stop, workVars, outVars, wireVars, PairInv, QueuesMatch,
                    NothingYet, SentMatch
<1>8. CASE SendInput \/ Release
  BY <1>2, <1>8 DEF SendInput, Release, workVars, outVars, wireVars, PairInv, QueuesMatch,
                    NothingYet, SentMatch
<1>9. CASE Destruct
  <2>1. /\ UNCHANGED <<enable, pc, dst, ret, received, rounds, early, flows>> /\ pc = "done"
        /\ cached_buffers'[0] = <<>> /\ cached_buffers'[1] = <<>>
    BY <1>9 DEF Destruct, workVars, wireVars, Slots
  <2> QED BY <1>2, <2>1, MatchEmpty DEF PairInv, QueuesMatch, NothingYet, SentMatch
<1>10. CASE Direct
  BY <1>10 DEF Direct, Request, CallProcess, ReturnProcess, Discard
<1> QED BY <1>3, <1>4, <1>5, <1>6, <1>7, <1>8, <1>9, <1>10, PairOutputs DEF Next, Flow, Around

-----------------------------------------------------------------------------
(* The theorems.                                                           *)

\* A step that changes nothing keeps the invariant.
LEMMA Stutter ==
  ASSUME IInv, RateWithinLimits, UNCHANGED vars
  PROVE  IInv' /\ RateWithinLimits'
<1> USE DEF vars, encVars, flowVars, typeVars, changeVars, confVars, inVars, workVars, outVars,
            wireVars
<1>1. TypeInv'
  BY DEF IInv, TypeInv, FlowTypes, EncoderTypes, InUse
<1>2. ChangesInv' /\ RateWithinLimits'
  BY DEF IInv, ChangesInv, Kept, RateWithinLimits
<1>3. CtxInv'
  BY DEF IInv, CtxInv, CtxState, Owner, InHand, Unreleased
<1>4. PairInv'
  BY DEF IInv, PairInv, QueuesMatch, NothingYet, SentMatch
<1> QED BY <1>1, <1>2, <1>3, <1>4 DEF IInv

\* The invariant, with the limits of rates, which its step needs and keeps.
THEOREM Invariance == Spec => [](IInv /\ RateWithinLimits)
<1>1. Init => IInv /\ RateWithinLimits
  BY InitType, InitChanges, InitCtx, InitPair DEF IInv
<1>2. IInv /\ RateWithinLimits /\ [Next]_vars => IInv' /\ RateWithinLimits'
  <2> SUFFICES ASSUME IInv, RateWithinLimits, Next
               PROVE  IInv' /\ RateWithinLimits'
    BY Stutter
  <2>1. TypeInv'
    BY FlowTypesStep, EncoderTypesStep, InUseStep DEF IInv, TypeInv
  <2>2. ChangesInv' /\ RateWithinLimits'
    BY ChangesStep DEF IInv
  <2> QED BY <2>1, <2>2, CtxStep, PairStep DEF IInv
<1> QED BY <1>1, <1>2, PTL DEF Spec

\* What TypeOK says beside the types: the context is never dropped too often,
\* and MPP keeps no more frames than there were failures.
THEOREM TypeCorrect == Spec => []TypeOK
<1>1. IInv => TypeOK
  <2> SUFFICES ASSUME IInv
               PROVE  TypeOK
    OBVIOUS
  <2>1. FlowTypes /\ EncoderTypes /\ CtxInv /\ TypeInv
    BY DEF IInv, TypeInv
  <2>2. inq \in UNION {[1..n -> 1..MaxFrames] : n \in 0..InputCache}
    <3>1. inq \in [1..Len(inq) -> 1..MaxFrames] /\ Len(inq) \in 0..InputCache
      BY <2>1, EncoderFlowAssumption DEF FlowTypes
    <3> QED BY <3>1
  <2>3. ctx.refs \in Nat
    <3>1. ctx.refs = Owner + InHand + Held(cached_buffers[0]) + Unreleased
      BY <2>1 DEF CtxInv
    <3> QED BY <2>1, <3>1, CtxTypes
  <2>4. ctx.destroyed \in 0..2
    <3>1. CASE ctx.created /\ ~ctx.initFailed
      BY <2>1, <3>1 DEF CtxInv, CtxState
    <3>2. CASE ~ctx.created
      BY <2>1, <3>2 DEF CtxInv, CtxState
    <3>3. CASE ctx.initFailed
      BY <2>1, <3>3 DEF CtxInv, CtxState
    <3> QED BY <3>1, <3>2, <3>3
  <2>5. Len(pending) <= MaxFaults
    <3>1. faults \in 0..MaxFaults /\ Len(pending) <= faults /\ Len(pending) \in Nat
      BY <2>1 DEF EncoderTypes
    <3> QED BY <3>1, MppEncoderAssumption
  <2> QED BY <2>1, <2>2, <2>3, <2>4, <2>5 DEF TypeOK, FlowTypes, EncoderTypes, Early, Unfinished
<1> QED BY <1>1, Invariance, PTL

\* The configuration the encoder reports is what MPP accepted, whatever was
\* refused or failed; changes are applied in the order of their requests.
THEOREM ConfigurationKept == Spec => []ChangesKept
<1>1. IInv => ChangesKept
  BY DEF IInv, ChangesInv, ChangesKept
<1> QED BY <1>1, Invariance, PTL

\* MPP is never given limits that exclude their target, for any rate of at
\* least kMPPMinBps, whatever the limits of the platform.
THEOREM RatesAgree == Spec => []RateWithinLimits
<1> QED BY Invariance, PTL

\* The MPP context is not destroyed while a packet of it or an output that was
\* left without one is held, and once the encoder and the last of them are gone
\* it has been, once.
THEOREM ContextKept == Spec => []ContextOutlivesPackets
<1>1. IInv => ContextOutlivesPackets
  <2> SUFFICES ASSUME IInv
               PROVE  ContextOutlivesPackets
    OBVIOUS
  <2>1. CtxInv /\ TypeInv
    BY DEF IInv
  <2>2. /\ Held(cached_buffers[0]) \in Nat /\ Unreleased \in Nat
        /\ Owner \in {0, 1} /\ InHand \in {0, 1}
        /\ ctx.refs = Owner + InHand + Held(cached_buffers[0]) + Unreleased
    BY <2>1, CtxTypes DEF CtxInv
  <2>3. ASSUME Unreleased + Held(cached_buffers[0]) > 0
        PROVE  ctx.destroyed = 0
    <3>1. ctx.refs # 0
      BY <2>2, <2>3
    <3>2. ctx.created /\ ~ctx.initFailed
      BY <2>1, <3>1 DEF CtxInv, CtxState
    <3> QED BY <2>1, <3>1, <3>2 DEF CtxInv, CtxState
  <2>4. ASSUME stage = "gone", Unreleased = 0
        PROVE  ctx.destroyed = 1
    <3>1. Owner = 0 /\ InHand = 0
      BY <2>1, <2>4 DEF Owner, InHand, Unfinished, TypeInv, InUse
    <3>2. Held(cached_buffers[0]) = 0
      BY <2>1, <2>4, HeldEmpty DEF CtxInv
    <3>3. ctx.refs = 0
      BY <2>2, <2>4, <3>1, <3>2
    <3>4. ctx.created /\ ~ctx.initFailed
      BY <2>1, <2>4 DEF CtxInv
    <3> QED BY <2>1, <3>3, <3>4 DEF CtxInv, CtxState
  <2>5. ASSUME ctx.destroyed > 1
        PROVE  ctx.initFailed
    <3>1. CASE ~ctx.created
      BY <2>1, <2>5, <3>1 DEF CtxInv, CtxState
    <3>2. CASE ctx.created /\ ~ctx.initFailed
      BY <2>1, <2>5, <3>2 DEF CtxInv, CtxState
    <3> QED BY <3>1, <3>2
  <2> QED BY <2>3, <2>4, <2>5 DEF ContextOutlivesPackets
<1> QED BY <1>1, Invariance, PTL

\* Flows attached to both slots since the beginning can match what they get by
\* its position, whatever fails and whenever the flow is disabled.
THEOREM SlotsPaired == Spec => []Paired
<1>1. IInv => Paired
  <2> SUFFICES ASSUME IInv, client = "flow", extra_output, BetweenRounds,
                      \A s \in Slots : early[s] /\ flows[s]
               PROVE  /\ Len(received[0]) = Len(received[1])
                      /\ \A i \in DOMAIN received[0] :
                           received[1][i] = IF received[0][i].kind \in {"extra", "null"}
                                              THEN Null ELSE Empty
    BY DEF Paired
  <2>1. Match(received[0], received[1])
    BY DEF IInv, PairInv, SentMatch, BetweenRounds
  <2>2. DOMAIN received[0] = 1..Len(received[0])
    BY DEF IInv, TypeInv, FlowTypes, Slots
  <2> QED BY <2>1, <2>2 DEF Match, Mate
<1> QED BY <1>1, Invariance, PTL

-----------------------------------------------------------------------------
(* What the first slot is sent, and in which order: a second invariant,    *)
(* which needs the first.                                                  *)

\* The frames whose packets are in a sequence of buffers, those buffers in the
\* order of their frames; the frames of a queue, in order.
Numbers(s)   == {s[i].n : i \in {j \in 1..Len(s) : IsPacket(s[j])}}
Ascending(s) == \A i, j \in 1..Len(s) : i < j /\ IsPacket(s[i]) /\ IsPacket(s[j]) => s[i].n < s[j].n
Elements(q)  == {q[i] : i \in 1..Len(q)}
Rising(q)    == \A i, j \in 1..Len(q) : i < j => q[i] < q[j]
Below(A, B)  == \A a \in A, b \in B : a < b

\* Where a frame can be: its packet sent down, queued, or on its way to the
\* queue; in MPP, in the hand of the coroutine, or in the input queue.
Down0  == Numbers(received[0])
Queued == Numbers(cached_buffers[0])
Output == IF pc = "set0" /\ IsPacket(dst) THEN {dst.n} ELSE {}
Inside == Elements(pending)
Task   == IF pc \in {"process", "encode"} /\ src # 0 THEN {src} ELSE {}
Input  == Elements(inq)

\* The frames pass these places in order, and none is at two of them.
Chain(a, c, h, i, t, q, n) ==
  /\ a \union c \union h \union i \union t \union q \subseteq 1..n
  /\ Below(a, c) /\ Below(a \union c, h) /\ Below(a \union c \union h, i)
  /\ Below(a \union c \union h \union i, t) /\ Below(a \union c \union h \union i \union t, q)

OrderInv ==
  /\ Ascending(received[0]) /\ Ascending(cached_buffers[0]) /\ Rising(pending) /\ Rising(inq)
  /\ pc = "encode" => src # 0
  /\ Chain(Down0, Queued, Output, Inside, Task, Input, sent)

\* The calls of encode that have sent down slot 0, and buffers that are no
\* extra data.
Calls == IF pc \in {"while", "fetch", "done", "send1"} THEN rounds ELSE rounds - 1
Fresh(s) == \A i \in 1..Len(s) : s[i].kind # "extra"

\* How long the queue of slot 0 is: e, and one more when a call has an output.
\* When the flow is disabled a queue may stay behind, but then it is not sent.
Room(e) ==
  LET n == Len(cached_buffers[0])
  IN /\ pc \in {"while", "fetch", "process", "encode", "set0", "send1"} /\ enable => n = e
     /\ pc = "set1" /\ enable => ret
     /\ pc \in {"set1", "send0"} /\ ret => n = e + 1
     /\ pc = "send0" /\ enable /\ ~ret => n = e

\* Before the first call.
Untouched ==
  /\ pc = "none" => rounds = 0 /\ cached_buffers[0] = <<>>
  /\ rounds = 0 => received[0] = <<>> /\ pc \in {"none", "while", "fetch", "done"}
  /\ rounds = 0 /\ pc # "none" /\ stage # "gone" => cached_buffers[0] = Extras

\* While every call has failed the extra data are still queued ...
Unsent ==
  /\ \A i \in 1..Len(received[0]) : received[0][i] = Null
  /\ Len(received[0]) = Calls
  /\ stage # "gone" => ExtrasAfter(cached_buffers[0], 0)
  /\ Room(extra_data)

\* ... and after the first that did not they are sent, once.
Sent ==
  /\ \E k \in 0..Len(received[0]) :
       (\A i \in 1..k : received[0][i] = Null) /\ ExtrasAfter(received[0], k)
  /\ Len(received[0]) = Calls + extra_data
  /\ Fresh(cached_buffers[0])
  /\ Room(0)

CallsInv ==
  /\ Untouched
  /\ pc = "set0" => ret /\ dst.kind # "extra"
  /\ early[0] /\ flows[0] /\ pc # "none" => Unsent \/ Sent

SendInv == client = "flow" => OrderInv /\ CallsInv

\* The packets of two sequences are those of the one and those of the other.
LEMMA NumbersConcat ==
  ASSUME NEW s \in Seq(Buffers), NEW t \in Seq(Buffers)
  PROVE  /\ Numbers(s \o t) = Numbers(s) \union Numbers(t)
         /\ Ascending(s) /\ Ascending(t) /\ Below(Numbers(s), Numbers(t)) => Ascending(s \o t)
<1> DEFINE u == s \o t
<1>1. /\ Len(s) \in Nat /\ Len(t) \in Nat /\ Len(u) = Len(s) + Len(t)
      /\ \A i \in 1..Len(s) : u[i] = s[i]
      /\ \A i \in Len(s) + 1..Len(u) : i - Len(s) \in 1..Len(t) /\ u[i] = t[i - Len(s)]
      /\ \A i \in 1..Len(t) : i + Len(s) \in Len(s) + 1..Len(u) /\ u[i + Len(s)] = t[i]
      /\ \A i \in 1..Len(u) : i \in 1..Len(s) \/ i \in Len(s) + 1..Len(u)
      /\ 1..Len(s) \subseteq 1..Len(u) /\ Len(s) + 1..Len(u) \subseteq 1..Len(u)
  OBVIOUS
<1> HIDE DEF u
<1>2. Numbers(u) \subseteq Numbers(s) \union Numbers(t)
  BY <1>1 DEF Numbers
<1>3. Numbers(s) \subseteq Numbers(u)
  BY <1>1 DEF Numbers
<1>4. Numbers(t) \subseteq Numbers(u)
  BY <1>1 DEF Numbers
<1>5. ASSUME Ascending(s), Ascending(t), Below(Numbers(s), Numbers(t)),
             NEW i \in 1..Len(u), NEW j \in 1..Len(u), i < j, IsPacket(u[i]), IsPacket(u[j])
      PROVE  u[i].n < u[j].n
  <2>1. CASE j \in 1..Len(s)
    <3>1. i \in 1..Len(s)
      BY <1>1, <1>5, <2>1
    <3> QED BY <1>1, <1>5, <2>1, <3>1 DEF Ascending
  <2>2. CASE i \in 1..Len(s) /\ j \in Len(s) + 1..Len(u)
    <3>1. u[i].n \in Numbers(s) /\ u[j].n \in Numbers(t)
      BY <1>1, <1>5, <2>2 DEF Numbers
    <3> QED BY <1>5, <3>1 DEF Below
  <2>3. CASE i \in Len(s) + 1..Len(u) /\ j \in Len(s) + 1..Len(u)
    <3>1. i - Len(s) < j - Len(s)
      BY <1>1, <1>5, <2>3
    <3> QED BY <1>1, <1>5, <2>3, <3>1 DEF Ascending
  <2>4. i \in Len(s) + 1..Len(u) => j \notin 1..Len(s)
    BY <1>1, <1>5
  <2> QED BY <1>1, <2>1, <2>2, <2>3, <2>4
<1>6. Ascending(s) /\ Ascending(t) /\ Below(Numbers(s), Numbers(t)) => Ascending(u)
  BY <1>5 DEF Ascending
<1> QED BY <1>2, <1>3, <1>4, <1>6 DEF u

\* A sequence without packets has no numbers, and is in order.
LEMMA NumbersNone ==
  ASSUME NEW s, \A i \in 1..Len(s) : ~IsPacket(s[i])
  PROVE  Numbers(s) = {} /\ Ascending(s)
BY DEF Numbers, Ascending

\* The empty sequence.
LEMMA NumbersEmpty == Numbers(<<>>) = {} /\ Ascending(<<>>)
<1>1. Len(<<>>) = 0
  BY EmptySeq
<1>2. \A i \in 1..Len(<<>>) : ~IsPacket(<<>>[i])
  BY <1>1
<1> QED BY <1>2, NumbersNone

\* A buffer at the end adds its packet, if it is one.
LEMMA NumbersAppend ==
  ASSUME NEW s \in Seq(Buffers), NEW b \in Buffers
  PROVE  /\ Numbers(Append(s, b)) = Numbers(s) \union (IF IsPacket(b) THEN {b.n} ELSE {})
         /\ Ascending(s) /\ (IsPacket(b) => Below(Numbers(s), {b.n})) => Ascending(Append(s, b))
<1> DEFINE t == <<b>>
<1>1. Append(s, b) = s \o t /\ t \in Seq(Buffers)
  BY AppendIsConcat
<1>2. Len(t) = 1 /\ t[1] = b /\ 1..1 = {1}
  OBVIOUS
<1> HIDE DEF t
<1>3. Numbers(t) = IF IsPacket(b) THEN {b.n} ELSE {}
  BY <1>2 DEF Numbers
<1>4. Ascending(t)
  BY <1>2 DEF Ascending
<1>5. ~IsPacket(b) => Below(Numbers(s), Numbers(t))
  BY <1>3 DEF Below
<1> QED BY <1>1, <1>3, <1>4, <1>5, NumbersConcat

\* A frame at the end of a queue.
LEMMA RisingAppend ==
  ASSUME NEW q \in Seq(Int), NEW x \in Int
  PROVE  /\ Elements(Append(q, x)) = Elements(q) \union {x}
         /\ Rising(q) /\ Below(Elements(q), {x}) => Rising(Append(q, x))
<1> DEFINE u == Append(q, x)
<1>1. /\ Len(q) \in Nat /\ Len(u) = Len(q) + 1 /\ u[Len(q) + 1] = x
      /\ \A i \in 1..Len(q) : u[i] = q[i]
      /\ \A i \in 1..Len(u) : i \in 1..Len(q) \/ i = Len(q) + 1
      /\ Len(q) + 1 \in 1..Len(u) /\ 1..Len(q) \subseteq 1..Len(u)
  OBVIOUS
<1> HIDE DEF u
<1>2. Elements(u) = Elements(q) \union {x}
  BY <1>1 DEF Elements
<1>3. ASSUME Rising(q), Below(Elements(q), {x}), NEW i \in 1..Len(u), NEW j \in 1..Len(u), i < j
      PROVE  u[i] < u[j]
  <2>1. i \in 1..Len(q)
    BY <1>1, <1>3
  <2>2. CASE j \in 1..Len(q)
    BY <1>1, <1>3, <2>1, <2>2 DEF Rising
  <2>3. CASE j = Len(q) + 1
    <3>1. u[i] \in Elements(q)
      BY <1>1, <2>1 DEF Elements
    <3> QED BY <1>1, <1>3, <2>3, <3>1 DEF Below
  <2> QED BY <1>1, <2>2, <2>3
<1> QED BY <1>2, <1>3 DEF u, Rising

\* The first frame of a queue, and the rest.
LEMMA RisingTail ==
  ASSUME NEW q \in Seq(Int), q # <<>>, Rising(q)
  PROVE  /\ Head(q) \in Elements(q) /\ Elements(Tail(q)) \subseteq Elements(q)
         /\ Below({Head(q)}, Elements(Tail(q))) /\ Rising(Tail(q)) /\ Tail(q) \in Seq(Int)
         /\ Head(q) \in Int
<1> DEFINE u == Tail(q)
<1>1. /\ Len(q) \in Nat \ {0} /\ Len(u) = Len(q) - 1 /\ u \in Seq(Int)
      /\ \A i \in 1..Len(u) : u[i] = q[i + 1]
  BY EmptySeq, HeadTailProperties
<1>2. Head(q) = q[1] /\ 1 \in 1..Len(q) /\ Head(q) \in Int
  BY <1>1
<1>3. \A i \in 1..Len(u) : i + 1 \in 1..Len(q) /\ 1 < i + 1
  BY <1>1
<1> HIDE DEF u
<1>4. Elements(u) \subseteq Elements(q) /\ Head(q) \in Elements(q)
  BY <1>1, <1>2, <1>3 DEF Elements
<1>5. Below({Head(q)}, Elements(u))
  BY <1>1, <1>2, <1>3 DEF Elements, Below, Rising
<1>6. Rising(u)
  <2> SUFFICES ASSUME NEW i \in 1..Len(u), NEW j \in 1..Len(u), i < j
               PROVE  u[i] < u[j]
    BY DEF Rising
  <2>1. i + 1 \in 1..Len(q) /\ j + 1 \in 1..Len(q) /\ i + 1 < j + 1
    BY <1>3
  <2> QED BY <1>1, <2>1 DEF Rising
<1> QED BY <1>1, <1>2, <1>4, <1>5, <1>6 DEF u

\* Fewer frames are still in order, and no more are sent than before.
LEMMA ChainFewer ==
  ASSUME NEW a, NEW c, NEW h, NEW i, NEW t, NEW q, NEW n, Chain(a, c, h, i, t, q, n),
         NEW a2, NEW c2, NEW h2, NEW i2, NEW t2, NEW q2,
         a2 \subseteq a, c2 \subseteq c, h2 \subseteq h, i2 \subseteq i, t2 \subseteq t, q2 \subseteq q
  PROVE  Chain(a2, c2, h2, i2, t2, q2, n)
BY DEF Chain, Below

\* A new frame is put at the end.
LEMMA ChainSend ==
  ASSUME NEW a, NEW c, NEW h, NEW i, NEW t, NEW q, NEW n \in Nat, Chain(a, c, h, i, t, q, n),
         NEW q2, q2 \subseteq q \union {n + 1}
  PROVE  Chain(a, c, h, i, t, q2, n + 1)
<1>1. \A x \in 1..n : x \in 1..n + 1 /\ x < n + 1
  OBVIOUS
<1>2. n + 1 \in 1..n + 1
  OBVIOUS
<1> QED BY <1>1, <1>2 DEF Chain, Below

\* The coroutine takes the first frame of the input, when it has none.
LEMMA ChainFetch ==
  ASSUME NEW a, NEW c, NEW h, NEW i, NEW t, NEW q, NEW n, Chain(a, c, h, i, t, q, n),
         NEW x \in q, NEW q2, q2 \subseteq q, Below({x}, q2)
  PROVE  Chain(a, c, h, i, {x}, q2, n)
BY DEF Chain, Below

\* MPP takes the frame, and perhaps returns the packet of its first one.
LEMMA ChainEncode ==
  ASSUME NEW a, NEW c, NEW i, NEW t, NEW q, NEW n, NEW h, Chain(a, c, h, i, t, q, n),
         NEW h2, NEW i2, h2 \union i2 \subseteq i \union t, Below(h2, i2)
  PROVE  Chain(a, c, h2, i2, {}, q, n)
BY DEF Chain, Below

\* The packet is queued.
LEMMA ChainQueue ==
  ASSUME NEW a, NEW c, NEW h, NEW i, NEW t, NEW q, NEW n, Chain(a, c, h, i, t, q, n),
         NEW c2, c2 \subseteq c \union h
  PROVE  Chain(a, c2, {}, i, t, q, n)
BY DEF Chain, Below

\* The queue is sent down.
LEMMA ChainDown ==
  ASSUME NEW a, NEW c, NEW h, NEW i, NEW t, NEW q, NEW n, Chain(a, c, h, i, t, q, n),
         NEW a2, a2 \subseteq a \union c
  PROVE  Chain(a2, {}, h, i, t, q, n)
BY DEF Chain, Below

\* What MPP keeps, and what it returns, when it is given the next frame.
LEMMA EncodeOrder ==
  ASSUME NEW frame \in Int, NEW outcome \in Int, Encode(frame, outcome), pending \in Seq(Int),
         Rising(pending), Below(Inside, {frame})
  PROVE  /\ Rising(pending') /\ Inside' \subseteq Inside \union {frame}
         /\ outcome \notin Nothing =>
              outcome \in Inside \union {frame} /\ Below({outcome}, Inside')
<1> DEFINE p == Append(pending, frame)
<1>1. p \in Seq(Int) /\ p # <<>>
  BY AppendProperties
<1>2. Elements(p) = Inside \union {frame} /\ Rising(p)
  BY RisingAppend DEF Inside
<1>3. \/ pending' = pending /\ outcome \in Nothing
      \/ pending' = p /\ outcome \in Nothing
      \/ pending' = Tail(p) /\ outcome \in Nothing
      \/ pending' = Tail(p) /\ outcome = Head(p)
  BY DEF Encode, NotPrepared, NotAccepted, NotReturned, LostInside, Encoded, Nothing
<1> HIDE DEF p
<1>4. /\ Head(p) \in Elements(p) /\ Elements(Tail(p)) \subseteq Elements(p)
      /\ Below({Head(p)}, Elements(Tail(p))) /\ Rising(Tail(p))
  BY <1>1, <1>2, RisingTail
<1>5. CASE pending' = pending /\ outcome \in Nothing
  BY <1>5 DEF Inside
<1>6. CASE pending' = p /\ outcome \in Nothing
  BY <1>2, <1>6 DEF Inside
<1>7. CASE pending' = Tail(p) /\ outcome \in Nothing
  BY <1>2, <1>4, <1>7 DEF Inside
<1>8. CASE pending' = Tail(p) /\ outcome = Head(p)
  BY <1>2, <1>4, <1>8 DEF Inside
<1> QED BY <1>3, <1>5, <1>6, <1>7, <1>8

\* The types that the steps need.
LEMMA OrderTypes ==
  ASSUME TypeInv
  PROVE  /\ pending \in Seq(Int) /\ inq \in Seq(Int) /\ src \in Int /\ sent \in Nat
         /\ cached_buffers[0] \in Seq(Buffers) /\ received[0] \in Seq(Buffers) /\ dst \in Buffers
         /\ DOMAIN cached_buffers = Slots /\ DOMAIN received = Slots
<1>1. inq \in Seq(Int) /\ src \in Int /\ sent \in Nat
  <2>1. 1..MaxFrames \subseteq Int /\ 0..MaxFrames \subseteq Nat
    BY EncoderFlowAssumption
  <2>2. inq \in Seq(1..MaxFrames)
    BY DEF TypeInv, FlowTypes
  <2>3. inq \in Seq(Int)
    BY <2>1, <2>2, SeqMonotonic
  <2> QED BY <2>1, <2>3 DEF TypeInv, FlowTypes
<1> QED BY <1>1 DEF TypeInv, FlowTypes, EncoderTypes, Slots

\* A step that moves no frame keeps the order, if no more of them are
\* anywhere than before.
LEMMA OrderQuiet ==
  ASSUME OrderInv, Rising(inq'), Input' \subseteq Input, Output' \subseteq Output,
         Task' \subseteq Task, pc' = "encode" => src' # 0,
         UNCHANGED <<pending, sent, cached_buffers, received>>
  PROVE  OrderInv'
<1>1. UNCHANGED <<Inside, Queued, Down0>>
  BY DEF Inside, Queued, Down0
<1>2. Chain(Down0', Queued', Output', Inside', Task', Input', sent)
  BY <1>1, ChainFewer DEF OrderInv
<1> QED BY <1>2 DEF OrderInv

\* The coroutine's steps up to the output keep the order.
LEMMA OrderInput ==
  ASSUME TypeInv, OrderInv, While \/ Fetch \/ ProcessNothing \/ ProcessChange
  PROVE  OrderInv'
<1>1. UNCHANGED <<pending, sent, cached_buffers, received>>
  BY DEF While, Fetch, ProcessNothing, ProcessChange, outVars, inVars, encVars
<1>2. CASE While
  BY <1>1, <1>2, OrderQuiet DEF While, inVars, OrderInv, Input, Output, Task
<1>3. CASE Fetch
  <2>1. pc = "fetch" /\ pc' = "process"
    BY <1>3 DEF Fetch
  <2>2. CASE ~enable
    <3>1. inq' = inq /\ src' = 0
      BY <1>3, <2>2 DEF Fetch
    <3> QED BY <1>1, <2>1, <3>1, OrderQuiet DEF OrderInv, Input, Output, Task
  <2>3. CASE enable
    <3>1. inq # <<>> /\ src' = Head(inq) /\ inq' = Tail(inq)
      BY <1>3, <2>3 DEF Fetch, TypeInv, FlowTypes
    <3>2. /\ Head(inq) \in Input /\ Elements(Tail(inq)) \subseteq Input
          /\ Below({Head(inq)}, Elements(Tail(inq))) /\ Rising(Tail(inq))
      BY <3>1, OrderTypes, RisingTail DEF OrderInv, Input
    <3>3. Chain(Down0, Queued, Output, Inside, {Head(inq)}, Elements(Tail(inq)), sent)
      BY <3>2, ChainFetch DEF OrderInv
    <3>4. /\ Task' \subseteq {Head(inq)} /\ Input' = Elements(Tail(inq)) /\ Output' \subseteq Output
          /\ UNCHANGED <<Down0, Queued, Inside>>
      BY <1>1, <2>1, <3>1 DEF Task, Input, Output, Down0, Queued, Inside
    <3>5. Chain(Down0', Queued', Output', Inside', Task', Input', sent)
      BY <3>3, <3>4, ChainFewer
    <3> QED BY <1>1, <2>1, <3>1, <3>2, <3>5 DEF OrderInv
  <2> QED BY <2>2, <2>3
<1>4. CASE ProcessNothing
  <2>1. /\ pc' = "set0" /\ ~IsPacket(dst') /\ UNCHANGED inq
    BY <1>4 DEF ProcessNothing, Empty, IsPacket, inVars
  <2> QED BY <1>1, <2>1, OrderQuiet DEF OrderInv, Input, Output, Task
<1>5. CASE ProcessChange
  <2>1. pc = "process" /\ pc' \in {"encode", "send0", "none"} /\ src # 0 /\ UNCHANGED <<src, inq>>
    BY <1>5 DEF ProcessChange, inVars
  <2> QED BY <1>1, <2>1, OrderQuiet DEF OrderInv, Input, Output, Task
<1> QED BY <1>2, <1>3, <1>4, <1>5

\* MPP is given the frame.
LEMMA OrderFrame ==
  ASSUME TypeInv, OrderInv, ProcessFrame
  PROVE  OrderInv'
<1>1. pc = "encode" /\ src # 0 /\ UNCHANGED <<inq, sent, cached_buffers, received, src>>
  BY DEF ProcessFrame, OrderInv, inVars, outVars
<1>2. PICK outcome \in NoPacket..sent :
        /\ Encode(src, outcome)
        /\ outcome = Failed => pc' = "send0"
        /\ outcome # Failed => /\ pc' = "set0"
                               /\ dst' = IF outcome = NoPacket THEN Bare ELSE Packet(outcome)
  BY DEF ProcessFrame
<1>3. outcome \in Int
  BY OrderTypes DEF NoPacket
<1>4. Task = {src} /\ Below(Inside, {src}) /\ Rising(pending)
  BY <1>1 DEF Task, OrderInv, Chain, Below
<1>5. /\ Rising(pending') /\ Inside' \subseteq Inside \union {src}
      /\ outcome \notin Nothing =>
           outcome \in Inside \union {src} /\ Below({outcome}, Inside')
  BY <1>2, <1>3, <1>4, OrderTypes, EncodeOrder
<1>6. Output' = IF outcome \in Nothing THEN {} ELSE {outcome}
  BY <1>2 DEF Output, Nothing, Failed, NoPacket, Packet, Bare, IsPacket
<1>7. Output' \union Inside' \subseteq Inside \union Task /\ Below(Output', Inside')
  BY <1>4, <1>5, <1>6 DEF Below
<1>8. Chain(Down0, Queued, Output', Inside', {}, Input, sent)
  BY <1>7, ChainEncode DEF OrderInv
<1>9. Task' = {} /\ UNCHANGED <<Down0, Queued, Input>>
  BY <1>1, <1>2 DEF Task, Down0, Queued, Input
<1>10. pc' # "encode"
  BY <1>2
<1> QED BY <1>1, <1>5, <1>8, <1>9, <1>10 DEF OrderInv

\* The output is queued, and the queue sent down.
LEMMA OrderOutput ==
  ASSUME TypeInv, OrderInv, SetOutput0 \/ SetOutput1 \/ SendDown0 \/ SendDown1
  PROVE  OrderInv'
<1>1. UNCHANGED <<pending, sent, inq, src>>
  BY DEF SetOutput0, SetOutput1, SendDown0, SendDown1, inVars, encVars
<1>2. UNCHANGED <<Inside, Input>>
  BY <1>1 DEF Inside, Input
<1>3. pc' \notin {"set0", "process", "encode"}
  BY DEF SetOutput0, SetOutput1, SendDown0, SendDown1
<1>4. Task' = {} /\ Output' = {}
  BY <1>3 DEF Task, Output
<1>5. CASE SetOutput1 \/ SendDown1
  <2>1. cached_buffers'[0] = cached_buffers[0] /\ received'[0] = received[0]
    BY <1>5, OrderTypes DEF SetOutput1, SendDown1, Down, Slots
  <2>2. UNCHANGED <<Down0, Queued>>
    BY <2>1 DEF Down0, Queued
  <2>3. Chain(Down0', Queued', Output', Inside', Task', Input', sent)
    BY <1>2, <1>4, <2>2, ChainFewer DEF OrderInv
  <2> QED BY <1>1, <1>3, <2>1, <2>3 DEF OrderInv
<1>6. CASE SetOutput0
  <2>1. pc = "set0" /\ received' = received
    BY <1>6 DEF SetOutput0
  <2>2. cached_buffers'[0] = IF enable THEN Append(cached_buffers[0], dst) ELSE cached_buffers[0]
    BY <1>6, OrderTypes DEF SetOutput0, Slots
  <2>3. Output = IF IsPacket(dst) THEN {dst.n} ELSE {}
    BY <2>1 DEF Output
  <2>4. Below(Queued, Output)
    BY DEF OrderInv, Chain, Below
  <2>5. Numbers(Append(cached_buffers[0], dst)) = Queued \union Output
    BY <2>3, OrderTypes, NumbersAppend DEF Queued
  <2>6. Ascending(Append(cached_buffers[0], dst))
    BY <2>3, <2>4, OrderTypes, NumbersAppend DEF Queued, OrderInv
  <2>7. Queued' \subseteq Queued \union Output /\ Ascending(cached_buffers'[0])
    BY <2>2, <2>5, <2>6 DEF Queued, OrderInv
  <2>8. Chain(Down0, Queued', {}, Inside, Task, Input, sent)
    BY <2>7, ChainQueue DEF OrderInv
  <2>9. Chain(Down0', Queued', Output', Inside', Task', Input', sent)
    BY <1>2, <1>4, <2>1, <2>8, ChainFewer DEF Down0
  <2> QED BY <1>1, <1>3, <2>1, <2>7, <2>9 DEF OrderInv
<1>7. CASE SendDown0
  <2>1. /\ received'[0] = IF ~flows[0] THEN received[0] ELSE IF ret
                            THEN received[0] \o cached_buffers[0] ELSE Append(received[0], Null)
        /\ cached_buffers'[0] = IF ret THEN <<>> ELSE cached_buffers[0]
    BY <1>7, OrderTypes DEF SendDown0, Down, Slots
  <2>2. Null \in Buffers /\ ~IsPacket(Null)
    BY DEF Null, Buffers, IsPacket
  <2>3. CASE ret
    <3>1. Below(Down0, Queued)
      BY DEF OrderInv, Chain
    <3>2. /\ Numbers(received[0] \o cached_buffers[0]) = Down0 \union Queued
          /\ Ascending(received[0] \o cached_buffers[0])
      BY <3>1, OrderTypes, NumbersConcat DEF Down0, Queued, OrderInv
    <3>3. Down0' \subseteq Down0 \union Queued /\ Ascending(received'[0])
      BY <2>1, <2>3, <3>2 DEF Down0, OrderInv
    <3>4. Queued' = {} /\ Ascending(cached_buffers'[0])
      BY <2>1, <2>3, NumbersEmpty DEF Queued
    <3>5. Chain(Down0', {}, Output, Inside, Task, Input, sent)
      BY <3>3, ChainDown DEF OrderInv
    <3>6. Chain(Down0', Queued', Output', Inside', Task', Input', sent)
      BY <1>2, <1>4, <3>4, <3>5, ChainFewer
    <3> QED BY <1>1, <1>3, <3>3, <3>4, <3>6 DEF OrderInv
  <2>4. CASE ~ret
    <3>1. /\ Numbers(Append(received[0], Null)) = Down0
          /\ Ascending(Append(received[0], Null))
      BY <2>2, OrderTypes, NumbersAppend DEF Down0, OrderInv
    <3>2. Down0' = Down0 /\ Queued' = Queued /\ Ascending(received'[0])
      BY <2>1, <2>4, <3>1 DEF Down0, Queued, OrderInv
    <3>3. Chain(Down0', Queued', Output', Inside', Task', Input', sent)
      BY <1>2, <1>4, <3>2, ChainFewer DEF OrderInv
    <3> QED BY <1>1, <1>3, <2>1, <2>4, <3>2, <3>3 DEF OrderInv
  <2> QED BY <2>3, <2>4
<1> QED BY <1>5, <1>6, <1>7

\* The threads around the flow, and its construction.
LEMMA OrderAround ==
  ASSUME TypeInv, OrderInv, client = "flow",
         ParseParams \/ ParseMediaConfigFromMap \/ ConstructEncoder \/ Install \/ Around
  PROVE  OrderInv'
<1>1. CASE ParseParams \/ ParseMediaConfigFromMap \/ ConstructEncoder
  <2>1. UNCHANGED <<pending, flowVars>>
    BY <1>1 DEF ParseParams, ParseMediaConfigFromMap, ConstructEncoder, CreateEncoder,
                ControlFails, PrepConfig, InitCodec, InitExtra, InitMjpeg, InitRateControl, encVars
  <2> QED BY <2>1, OrderQuiet
        DEF flowVars, inVars, workVars, outVars, wireVars, OrderInv, Input, Output, Task
<1>2. ASSUME Install \/ Destruct
      PROVE  OrderInv'
  <2>1. /\ UNCHANGED <<pending, inq, sent, src, received>> /\ pc' \in {"while", "done"}
        /\ \A i \in 1..Len(cached_buffers'[0]) : ~IsPacket(cached_buffers'[0][i])
    <3>1. CASE Install
      <4>1. cached_buffers'[0] = Extras
        BY <3>1 DEF Install, Slots
      <4>2. extra_data \in Nat
        BY DEF TypeInv, EncoderTypes
      <4>3. \A i \in 1..Len(Extras) : ~IsPacket(Extras[i])
        BY <4>2 DEF Extras, Extra, IsPacket
      <4> QED BY <3>1, <4>1, <4>3 DEF Install, encVars, inVars
    <3>2. CASE Destruct
      <4>1. cached_buffers'[0] = <<>>
        BY <3>2 DEF Destruct, Slots
      <4> QED BY <3>2, <4>1, EmptySeq DEF Destruct, inVars, workVars
    <3> QED BY <1>2, <3>1, <3>2
  <2>2. Queued' = {} /\ Ascending(cached_buffers'[0])
    BY <2>1, NumbersNone DEF Queued
  <2>3. Task' = {} /\ Output' = {} /\ UNCHANGED <<Down0, Inside, Input>>
    BY <2>1 DEF Task, Output, Down0, Inside, Input
  <2>4. Chain(Down0', Queued', Output', Inside', Task', Input', sent)
    BY <2>2, <2>3, ChainFewer DEF OrderInv
  <2> QED BY <2>1, <2>2, <2>4 DEF OrderInv
<1>3. CASE SendInput
  <2>1. /\ UNCHANGED <<pending, received, cached_buffers, pc, src, dst>> /\ sent' = sent + 1
        /\ inq' = Append(IF Full THEN Tail(inq) ELSE inq, sent + 1)
        /\ Full => inq # <<>>
    <3>1. Full => inq # <<>>
      BY EmptySeq, EncoderFlowAssumption DEF Full
    <3> QED BY <1>3, <3>1 DEF SendInput, encVars, workVars, outVars
  <2> DEFINE q == IF Full THEN Tail(inq) ELSE inq
  <2>2. q \in Seq(Int) /\ Rising(q) /\ Elements(q) \subseteq Input
    BY <2>1, OrderTypes, RisingTail DEF OrderInv, Input
  <2>3. inq' = Append(q, sent + 1)
    BY <2>1
  <2> HIDE DEF q
  <2>4. Below(Elements(q), {sent + 1})
    <3>1. Input \subseteq 1..sent
      BY DEF OrderInv, Chain
    <3>2. \A x \in 1..sent : x < sent + 1
      BY OrderTypes
    <3> QED BY <2>2, <3>1, <3>2 DEF Below
  <2>5. Rising(inq') /\ Input' = Elements(q) \union {sent + 1}
    <3>1. sent + 1 \in Int
      BY OrderTypes
    <3>2. Rising(Append(q, sent + 1)) /\ Elements(Append(q, sent + 1)) = Elements(q) \union {sent + 1}
      BY <2>2, <2>4, <3>1, RisingAppend
    <3> QED BY <2>3, <3>2 DEF Input
  <2>6. Chain(Down0, Queued, Output, Inside, Task, Input', sent + 1)
    BY <2>2, <2>5, OrderTypes, ChainSend DEF OrderInv
  <2>7. UNCHANGED <<Down0, Queued, Output, Inside, Task>>
    BY <2>1 DEF Down0, Queued, Output, Inside, Task
  <2> QED BY <2>1, <2>5, <2>6, <2>7 DEF OrderInv
<1>4. CASE (\E s \in Slots : Wire(s)) \/ SetDisable \/ Stop \/ Release
  <2>1. UNCHANGED <<pending, received, cached_buffers, pc, src, dst, inq, sent>>
    BY <1>4 DEF Wire, SetDisable, Stop, Release, encVars, workVars, outVars, inVars
  <2> QED BY <2>1, OrderQuiet DEF OrderInv, Input, Output, Task
<1> QED BY <1>1, <1>2, <1>3, <1>4 DEF Around

\* The queues are empty and no frame has been sent.
LEMMA InitOrder == Init => OrderInv
<1> SUFFICES ASSUME Init
             PROVE  OrderInv
  OBVIOUS
<1>1. /\ cached_buffers[0] = <<>> /\ received[0] = <<>> /\ inq = <<>> /\ pending = <<>>
      /\ pc = "none" /\ sent = 0
  BY DEF Init, EncoderInit, Slots
<1>2. Elements(<<>>) = {} /\ Rising(<<>>)
  <2>1. Len(<<>>) = 0
    BY EmptySeq
  <2> QED BY <2>1 DEF Elements, Rising
<1>3. Down0 = {} /\ Queued = {} /\ Output = {} /\ Inside = {} /\ Task = {} /\ Input = {}
  BY <1>1, <1>2, NumbersEmpty DEF Down0, Queued, Output, Inside, Task, Input
<1> QED BY <1>1, <1>2, <1>3, NumbersEmpty DEF OrderInv, Chain, Below

-----------------------------------------------------------------------------
(* The calls of encode and what each sends down.                           *)

\* The extra data, when other buffers come after or before them.
LEMMA ExtrasConcat ==
  ASSUME NEW s \in Seq(Buffers), NEW t \in Seq(Buffers), NEW k \in 0..Len(s),
         extra_data \in Nat
  PROVE  /\ ExtrasAfter(s, k) /\ Fresh(t) => ExtrasAfter(s \o t, k)
         /\ ExtrasAfter(t, 0) => ExtrasAfter(s \o t, Len(s))
         /\ Fresh(s) /\ Fresh(t) => Fresh(s \o t)
<1> DEFINE u == s \o t
<1>1. /\ Len(s) \in Nat /\ Len(t) \in Nat /\ Len(u) = Len(s) + Len(t)
      /\ \A i \in 1..Len(s) : u[i] = s[i]
      /\ \A i \in Len(s) + 1..Len(u) : i - Len(s) \in 1..Len(t) /\ u[i] = t[i - Len(s)]
      /\ \A i \in 1..Len(t) : u[Len(s) + i] = t[i]
  OBVIOUS
<1> HIDE DEF u
<1>2. ASSUME ExtrasAfter(s, k), Fresh(t)
      PROVE  ExtrasAfter(u, k)
  <2>1. k + extra_data <= Len(s)
    BY <1>2 DEF ExtrasAfter
  <2>2. \A i \in 1..extra_data : k + i \in 1..Len(s) /\ s[k + i] = Extra(i)
    BY <1>1, <1>2, <2>1 DEF ExtrasAfter
  <2>3. ASSUME NEW i \in (k + extra_data + 1)..Len(u)
        PROVE  u[i].kind # "extra"
    <3>1. CASE i <= Len(s)
      BY <1>1, <1>2, <2>3, <3>1 DEF ExtrasAfter
    <3>2. CASE i > Len(s)
      <4>1. i \in Len(s) + 1..Len(u)
        BY <1>1, <2>3, <3>2
      <4> QED BY <1>1, <1>2, <4>1 DEF Fresh
    <3> QED BY <1>1, <3>1, <3>2
  <2> QED BY <1>1, <2>1, <2>2, <2>3 DEF ExtrasAfter
<1>3. ASSUME ExtrasAfter(t, 0)
      PROVE  ExtrasAfter(u, Len(s))
  <2>1. extra_data <= Len(t) /\ \A i \in 1..extra_data : t[i] = Extra(i)
    BY <1>3 DEF ExtrasAfter
  <2>2. \A i \in 1..extra_data : i \in 1..Len(t)
    BY <1>1, <2>1
  <2>3. ASSUME NEW i \in (Len(s) + extra_data + 1)..Len(u)
        PROVE  u[i].kind # "extra"
    <3>1. i - Len(s) \in (extra_data + 1)..Len(t) /\ u[i] = t[i - Len(s)]
      BY <1>1, <2>3
    <3> QED BY <1>3, <3>1 DEF ExtrasAfter
  <2> QED BY <1>1, <2>1, <2>2, <2>3 DEF ExtrasAfter
<1>4. ASSUME Fresh(s), Fresh(t)
      PROVE  Fresh(u)
  BY <1>1, <1>4 DEF Fresh
<1> QED BY <1>2, <1>3, <1>4 DEF u

\* A buffer that is no extra data, at the end.
LEMMA ExtrasAppend ==
  ASSUME NEW s \in Seq(Buffers), NEW b \in Buffers, b.kind # "extra", NEW k \in 0..Len(s),
         extra_data \in Nat
  PROVE  /\ ExtrasAfter(s, k) => ExtrasAfter(Append(s, b), k)
         /\ Fresh(s) => Fresh(Append(s, b))
<1> DEFINE t == <<b>>
<1>1. Append(s, b) = s \o t /\ t \in Seq(Buffers)
  BY AppendIsConcat
<1>2. Fresh(t)
  BY DEF Fresh
<1> HIDE DEF t
<1> QED BY <1>1, <1>2, ExtrasConcat

\* What the steps need to know of the types, and of where the encoder is.
LEMMA CallTypes ==
  ASSUME TypeInv
  PROVE  /\ cached_buffers[0] \in Seq(Buffers) /\ received[0] \in Seq(Buffers) /\ dst \in Buffers
         /\ Len(cached_buffers[0]) \in Nat /\ Len(received[0]) \in Nat
         /\ cached_buffers[0] = <<>> => Len(cached_buffers[0]) = 0
         /\ received[0] = <<>> => Len(received[0]) = 0
         /\ extra_data \in Nat /\ rounds \in Nat
         /\ enable \in BOOLEAN /\ ret \in BOOLEAN /\ (quit => ~enable)
         /\ pc # "none" => stage = "configured" \/ (pc = "done" /\ stage = "gone")
         /\ stage \in Early \union Unfinished => pc = "none"
         /\ DOMAIN cached_buffers = Slots /\ DOMAIN received = Slots
         /\ flows \in [Slots -> BOOLEAN] /\ early \in [Slots -> BOOLEAN]
<1>1. cached_buffers[0] \in Seq(Buffers) /\ received[0] \in Seq(Buffers)
  BY OrderTypes
<1>2. stage \in Early \union Unfinished => pc = "none"
  BY DEF TypeInv, InUse, Early, Unfinished
<1> QED BY <1>1, <1>2, EmptySeq DEF TypeInv, FlowTypes, EncoderTypes, InUse, Slots

\* A step that leaves the queue and what is sent alone keeps the count, if it
\* keeps the number of calls and the room of the queue.
LEMMA CallsQuiet ==
  ASSUME CallsInv, pc # "none", UNCHANGED <<stage, extra_data, early, flows>>,
         cached_buffers'[0] = cached_buffers[0], received'[0] = received[0],
         Calls' = Calls, Untouched', pc' = "set0" => ret' /\ dst'.kind # "extra",
         Room(0) => Room(0)', Room(extra_data) => Room(extra_data)'
  PROVE  CallsInv'
<1>1. Unsent => Unsent'
  BY DEF Unsent, ExtrasAfter
<1>2. Sent => Sent'
  BY DEF Sent, ExtrasAfter, Fresh
<1> QED BY <1>1, <1>2 DEF CallsInv

\* The coroutine up to the output.
LEMMA CallsInput ==
  ASSUME TypeInv, CallsInv, client = "flow",
         While \/ Fetch \/ ProcessNothing \/ ProcessChange \/ ProcessFrame
  PROVE  CallsInv'
<1>1. /\ pc # "none" /\ UNCHANGED <<stage, extra_data, early, flows, cached_buffers, received, enable>>
  BY DEF While, Fetch, ProcessNothing, ProcessChange, ProcessFrame, Encode, typeVars, encVars,
         wireVars, outVars
<1>2. Untouched /\ (pc = "set0" => ret /\ dst.kind # "extra")
  BY DEF CallsInv
<1>3. rounds \in Nat
  BY CallTypes
<1>4. CASE While
  <2>1. pc = "while" /\ pc' \in {"fetch", "done"} /\ UNCHANGED <<rounds, ret>>
    BY <1>4 DEF While
  <2> QED BY <1>1, <1>2, <2>1, CallsQuiet DEF Calls, Untouched, Extras, Room
<1>5. CASE Fetch
  <2>1. pc = "fetch" /\ pc' = "process" /\ rounds' = rounds + 1 /\ UNCHANGED ret
    BY <1>5 DEF Fetch
  <2>2. rounds' # 0 /\ rounds' - 1 = rounds
    BY <1>3, <2>1
  <2>3. Calls' = Calls /\ Untouched'
    BY <1>1, <1>2, <2>1, <2>2 DEF Calls, Untouched
  <2> QED BY <1>1, <2>1, <2>3, CallsQuiet DEF Room
<1>6. CASE ProcessNothing
  <2>1. pc = "process" /\ pc' = "set0" /\ dst' = Empty /\ ret' = TRUE /\ UNCHANGED rounds
    BY <1>6 DEF ProcessNothing
  <2> QED BY <1>1, <1>2, <2>1, CallsQuiet DEF Calls, Untouched, Room, Empty
<1>7. CASE ProcessChange
  <2>1. pc = "process" /\ UNCHANGED rounds /\ \/ pc' = "encode" /\ ret'
                                              \/ pc' = "send0" /\ ~ret'
    BY <1>7 DEF ProcessChange
  <2> QED BY <1>1, <1>2, <2>1, CallsQuiet DEF Calls, Untouched, Room
<1>8. CASE ProcessFrame
  <2>1. pc = "encode" /\ UNCHANGED rounds
        /\ \/ pc' = "send0" /\ ~ret'
           \/ pc' = "set0" /\ ret' /\ dst'.kind # "extra"
    BY <1>8 DEF ProcessFrame, Bare, Packet
  <2> QED BY <1>1, <1>2, <2>1, CallsQuiet DEF Calls, Untouched, Room
<1> QED BY <1>4, <1>5, <1>6, <1>7, <1>8

\* The output is queued.
LEMMA CallsOutput ==
  ASSUME TypeInv, CallsInv, SetOutput0 \/ SetOutput1
  PROVE  CallsInv'
<1>1. /\ pc \in {"set0", "set1"} /\ pc' \in {"set1", "send0"}
      /\ UNCHANGED <<stage, extra_data, early, flows, received, enable, rounds>>
  BY DEF SetOutput0, SetOutput1, typeVars, encVars, wireVars
<1>2. Untouched /\ (pc = "set0" => ret /\ dst.kind # "extra") /\ rounds # 0
  BY <1>1 DEF CallsInv, Untouched
<1>3. Untouched' /\ Calls' = Calls
  BY <1>1, <1>2 DEF Untouched, Calls
<1>4. CASE SetOutput1 \/ ~enable
  <2>1. cached_buffers'[0] = cached_buffers[0] /\ ret' = (ret /\ enable)
    BY <1>2, <1>4, CallTypes DEF SetOutput0, SetOutput1, Slots
  <2>2. pc = "set0" => ~enable
    BY <1>4 DEF SetOutput1
  <2>3. pc = "set1" => pc' = "send0"
    BY DEF SetOutput0, SetOutput1
  <2> QED BY <1>1, <1>3, <2>1, <2>2, <2>3, CallsQuiet, CallTypes DEF Room
<1>5. CASE SetOutput0 /\ enable
  <2>1. /\ pc = "set0" /\ pc' \in {"set1", "send0"} /\ ret' /\ received' = received
        /\ cached_buffers'[0] = Append(cached_buffers[0], dst)
    BY <1>5, CallTypes DEF SetOutput0, Slots
  <2>2. /\ cached_buffers[0] \in Seq(Buffers) /\ dst \in Buffers /\ extra_data \in Nat
        /\ Len(Append(cached_buffers[0], dst)) = Len(cached_buffers[0]) + 1
        /\ Len(cached_buffers[0]) \in Nat
    BY CallTypes
  <2>3. Fresh(cached_buffers[0]) => Fresh(cached_buffers[0])'
    BY <1>2, <2>1, <2>2, ExtrasAppend DEF Fresh
  <2>4. ExtrasAfter(cached_buffers[0], 0) => ExtrasAfter(cached_buffers[0], 0)'
    <3>1. 0 \in 0..Len(cached_buffers[0])
      BY <2>2
    <3>2. ExtrasAfter(cached_buffers[0], 0) => ExtrasAfter(Append(cached_buffers[0], dst), 0)
      BY <1>2, <2>1, <2>2, <3>1, ExtrasAppend
    <3> QED BY <1>1, <2>1, <3>2 DEF ExtrasAfter
  <2>5. (Room(0) => Room(0)') /\ (Room(extra_data) => Room(extra_data)')
    BY <1>1, <1>5, <2>1, <2>2 DEF Room
  <2>6. Unsent => Unsent'
    BY <1>1, <1>3, <2>1, <2>4, <2>5 DEF Unsent
  <2>7. Sent => Sent'
    BY <1>1, <1>3, <2>1, <2>3, <2>5 DEF Sent, ExtrasAfter
  <2> QED BY <1>1, <1>2, <1>3, <2>1, <2>6, <2>7 DEF CallsInv
<1> QED BY <1>4, <1>5

\* What is queued goes down, or a null buffer after a failure.
LEMMA CallsDown ==
  ASSUME TypeInv, CallsInv, SendDown0
  PROVE  CallsInv'
<1>1. /\ pc = "send0" /\ pc' \in {"send1", "while"}
      /\ UNCHANGED <<stage, extra_data, early, flows, enable, ret, rounds>>
      /\ received'[0] = IF ~flows[0] THEN received[0] ELSE IF ret
                          THEN received[0] \o cached_buffers[0] ELSE Append(received[0], Null)
      /\ cached_buffers'[0] = IF ret THEN <<>> ELSE cached_buffers[0]
  BY CallTypes DEF SendDown0, Down, Slots, typeVars, wireVars
<1>2. /\ Untouched /\ rounds # 0 /\ stage # "gone" /\ rounds \in Nat
  BY <1>1, CallTypes DEF CallsInv, Untouched
<1>3. Untouched' /\ Calls' = Calls + 1 /\ Calls \in Nat
  BY <1>1, <1>2 DEF Untouched, Calls
<1> DEFINE r == received[0]
           c == cached_buffers[0]
<1>4. /\ r \in Seq(Buffers) /\ c \in Seq(Buffers) /\ Len(r) \in Nat /\ Len(c) \in Nat
      /\ extra_data \in Nat /\ Null \in Buffers /\ Null.kind = "null"
  BY CallTypes DEF Null, Buffers
<1>5. /\ Len(<<>>) = 0 /\ Len(r \o c) = Len(r) + Len(c) /\ Len(Append(r, Null)) = Len(r) + 1
      /\ \A i \in 1..Len(r) : (r \o c)[i] = r[i] /\ Append(r, Null)[i] = r[i]
      /\ Append(r, Null)[Len(r) + 1] = Null
  <2>1. Len(<<>>) = 0
    BY EmptySeq
  <2>2. /\ Len(r \o c) = Len(r) + Len(c)
        /\ \A i \in 1..Len(r) : (r \o c)[i] = r[i]
    <3> HIDE DEF r, c
    <3>1. \A i \in 1..Len(r) : i \in 1..Len(r) + Len(c) /\ i <= Len(r)
      BY <1>4
    <3> QED BY <1>4, <3>1, ConcatProperties
  <2>3. /\ Len(Append(r, Null)) = Len(r) + 1 /\ Append(r, Null)[Len(r) + 1] = Null
        /\ \A i \in 1..Len(r) : Append(r, Null)[i] = r[i]
    <3> HIDE DEF r
    <3> QED BY <1>4, AppendProperties
  <2> QED BY <2>1, <2>2, <2>3
<1>6. ASSUME flows[0], ret, Unsent
      PROVE  Sent'
  <2>1. Len(r) = Calls /\ ExtrasAfter(c, 0) /\ Room(extra_data) /\ \A i \in 1..Len(r) : r[i] = Null
    BY <1>2, <1>6 DEF Unsent
  <2>2. Len(c) = extra_data + 1
    BY <1>1, <1>6, <2>1 DEF Room
  <2>3. ExtrasAfter(r \o c, Len(r))
    BY <1>4, <2>1, ExtrasConcat
  <2>4. received'[0] = r \o c /\ cached_buffers'[0] = <<>>
    BY <1>1, <1>6
  <2> HIDE DEF r, c
  <2>5. Len(received'[0]) = Calls' + extra_data
    BY <1>3, <1>4, <1>5, <2>1, <2>2, <2>4
  <2>6. Len(r) \in 0..Len(r \o c) /\ \A i \in 1..Len(r) : (r \o c)[i] = Null
    BY <1>4, <1>5, <2>1
  <2>7. Fresh(<<>>) /\ Room(0)'
    BY <1>1, <1>5, <1>6, <2>4 DEF Fresh, Room
  <2> QED BY <1>1, <2>3, <2>4, <2>5, <2>6, <2>7 DEF Sent, ExtrasAfter, Fresh
<1>7. ASSUME flows[0], ret, Sent
      PROVE  Sent'
  <2>1. received'[0] = r \o c /\ cached_buffers'[0] = <<>>
    BY <1>1, <1>7
  <2>2. Len(r) = Calls + extra_data /\ Fresh(c) /\ Room(0)
    BY <1>7 DEF Sent
  <2>3. Len(c) = 1
    BY <1>1, <1>7, <2>2 DEF Room
  <2> HIDE DEF r, c
  <2>4. Len(received'[0]) = Calls' + extra_data
    BY <1>3, <1>4, <1>5, <2>1, <2>2, <2>3
  <2>5. PICK k \in 0..Len(r) : (\A i \in 1..k : r[i] = Null) /\ ExtrasAfter(r, k)
    BY <1>7 DEF Sent, r
  <2>6. k \in 0..Len(r \o c) /\ \A i \in 1..k : (r \o c)[i] = Null
    BY <1>4, <1>5, <2>5
  <2>7. ExtrasAfter(r \o c, k)
    BY <1>4, <2>2, <2>5, ExtrasConcat
  <2>8. Fresh(<<>>) /\ Room(0)'
    BY <1>1, <1>5, <1>7, <2>1 DEF Fresh, Room
  <2> QED BY <1>1, <2>1, <2>4, <2>6, <2>7, <2>8 DEF Sent, ExtrasAfter, Fresh
<1>8. ASSUME flows[0], ~ret, Unsent
      PROVE  Unsent'
  <2>1. received'[0] = Append(r, Null) /\ cached_buffers'[0] = c
    BY <1>1, <1>8
  <2>2. Len(r) = Calls /\ ExtrasAfter(c, 0) /\ Room(extra_data) /\ \A i \in 1..Len(r) : r[i] = Null
    BY <1>2, <1>8 DEF Unsent
  <2>3. /\ Len(received'[0]) = Calls'
        /\ \A i \in 1..Len(received'[0]) : received'[0][i] = Null
    BY <1>3, <1>4, <1>5, <2>1, <2>2
  <2>4. Room(extra_data)'
    BY <1>1, <1>8, <2>1, <2>2 DEF Room
  <2> QED BY <1>1, <2>1, <2>2, <2>3, <2>4 DEF Unsent, ExtrasAfter
<1>9. ASSUME flows[0], ~ret, Sent
      PROVE  Sent'
  <2>1. received'[0] = Append(r, Null) /\ cached_buffers'[0] = c
    BY <1>1, <1>9
  <2>2. Len(r) = Calls + extra_data /\ Fresh(c) /\ Room(0)
    BY <1>9 DEF Sent
  <2>3. Len(received'[0]) = Calls' + extra_data
    BY <1>3, <1>4, <1>5, <2>1, <2>2
  <2>4. PICK k \in 0..Len(r) : (\A i \in 1..k : r[i] = Null) /\ ExtrasAfter(r, k)
    BY <1>9 DEF Sent
  <2>5. k \in 0..Len(Append(r, Null)) /\ \A i \in 1..k : Append(r, Null)[i] = Null
    BY <1>4, <1>5, <2>4
  <2>6. ExtrasAfter(Append(r, Null), k)
    BY <1>4, <2>4, ExtrasAppend
  <2>7. Room(0)'
    BY <1>1, <1>9, <2>1, <2>2 DEF Room
  <2> HIDE DEF r, c
  <2> QED BY <1>1, <2>1, <2>2, <2>3, <2>5, <2>6, <2>7 DEF Sent, ExtrasAfter, Fresh
<1> QED BY <1>1, <1>2, <1>3, <1>6, <1>7, <1>8, <1>9 DEF CallsInv

\* Slot 1 is served.
LEMMA CallsDown1 ==
  ASSUME TypeInv, CallsInv, SendDown1
  PROVE  CallsInv'
<1>1. /\ pc = "send1" /\ pc' = "while"
      /\ UNCHANGED <<stage, extra_data, early, flows, enable, ret, rounds>>
      /\ received'[0] = received[0] /\ cached_buffers'[0] = cached_buffers[0]
  BY CallTypes DEF SendDown1, Down, Slots, typeVars, encVars, wireVars
<1>2. Untouched /\ Untouched' /\ Calls' = Calls
  BY <1>1 DEF CallsInv, Untouched, Calls
<1> QED BY <1>1, <1>2, CallsQuiet DEF Room

\* The threads around the flow, and its construction.
LEMMA CallsAround ==
  ASSUME TypeInv, CallsInv, client = "flow",
         ParseParams \/ ParseMediaConfigFromMap \/ ConstructEncoder \/ Install \/ Around
  PROVE  CallsInv'
<1>1. Untouched /\ (pc = "set0" => ret /\ dst.kind # "extra")
  BY DEF CallsInv
<1>2. CASE ParseParams \/ ParseMediaConfigFromMap \/ ConstructEncoder
  <2>1. UNCHANGED flowVars /\ stage \in Early \union Unfinished
    BY <1>2 DEF ParseParams, ParseMediaConfigFromMap, ConstructEncoder, CreateEncoder,
                ControlFails, PrepConfig, InitCodec, InitExtra, InitMjpeg, InitRateControl,
                Early, Unfinished
  <2>2. pc = "none" /\ UNCHANGED <<pc, rounds, cached_buffers, received>>
    BY <2>1, CallTypes DEF flowVars, workVars, outVars
  <2> QED BY <1>1, <2>2 DEF CallsInv, Untouched
<1>3. CASE Install
  <2>1. /\ pc = "none" /\ pc' = "while" /\ stage' = "configured"
        /\ UNCHANGED <<rounds, received, extra_data>> /\ cached_buffers'[0] = Extras
    BY <1>3 DEF Install, Slots, encVars, typeVars
  <2>2. rounds = 0 /\ received[0] = <<>>
    BY <1>1, <2>1 DEF Untouched
  <2>3. Untouched'
    BY <2>1, <2>2 DEF Untouched, Extras
  <2>4. /\ extra_data \in Nat /\ Len(Extras) = extra_data
        /\ \A i \in 1..extra_data : Extras[i] = Extra(i)
    BY CallTypes DEF Extras
  <2>5. Unsent'
    BY <2>1, <2>2, <2>4, EmptySeq DEF Unsent, Calls, Room, ExtrasAfter
  <2> QED BY <2>1, <2>3, <2>5 DEF CallsInv
<1>4. CASE Wire(0)
  <2>1. /\ pc # "none"
        /\ UNCHANGED <<pc, stage, extra_data, ret, dst, enable, rounds, received, cached_buffers>>
        /\ flows' = [flows EXCEPT ![0] = ~@]
        /\ early' = IF flows[0] \/ rounds > 0 THEN [early EXCEPT ![0] = FALSE] ELSE early
    BY <1>4 DEF Wire, Constructed, encVars, typeVars, workVars, outVars
  <2>2. Untouched' /\ Calls' = Calls
    BY <1>1, <2>1 DEF Untouched, Calls, Extras
  <2>3. early'[0] /\ flows'[0] => rounds = 0
    <3>1. CASE flows[0] \/ rounds > 0
      BY <2>1, <3>1, CallTypes DEF Slots
    <3>2. CASE ~(flows[0] \/ rounds > 0)
      BY <3>2, CallTypes
    <3> QED BY <3>1, <3>2
  <2>4. ASSUME rounds = 0
        PROVE  Unsent'
    <3>1. /\ received[0] = <<>> /\ pc \in {"while", "fetch", "done"}
          /\ stage # "gone" => cached_buffers[0] = Extras
      BY <1>1, <2>1, <2>4 DEF Untouched
    <3>2. /\ extra_data \in Nat /\ Len(Extras) = extra_data
          /\ \A i \in 1..extra_data : Extras[i] = Extra(i)
      BY CallTypes DEF Extras
    <3>3. stage = "gone" => pc = "done"
      BY <2>1, CallTypes
    <3> QED BY <2>1, <2>4, <3>1, <3>2, <3>3, EmptySeq DEF Unsent, Calls, Room, ExtrasAfter
  <2> QED BY <1>1, <2>1, <2>2, <2>3, <2>4 DEF CallsInv
<1>5. ASSUME NEW s \in Slots, s # 0, Wire(s)
      PROVE  CallsInv'
  <2>1. /\ UNCHANGED <<pc, stage, extra_data, ret, dst, enable, rounds, received, cached_buffers>>
        /\ flows' = [flows EXCEPT ![s] = ~@]
        /\ early' = IF flows[s] \/ rounds > 0 THEN [early EXCEPT ![s] = FALSE] ELSE early
    BY <1>5 DEF Wire, encVars, typeVars, workVars, outVars
  <2>2. flows'[0] = flows[0] /\ early'[0] = early[0]
    BY <1>5, <2>1, CallTypes DEF Slots
  <2>3. (Unsent => Unsent') /\ (Sent => Sent')
    BY <2>1 DEF Unsent, Sent, Room, Calls, ExtrasAfter, Fresh
  <2> QED BY <1>1, <2>1, <2>2, <2>3 DEF CallsInv, Untouched, Extras
<1>6. CASE SetDisable \/ Stop \/ SendInput \/ Release
  <2>1. /\ pc # "none" \/ Release
        /\ UNCHANGED <<pc, stage, extra_data, ret, dst, rounds, received, cached_buffers, early, flows>>
        /\ enable' => enable
    BY <1>6 DEF SetDisable, Stop, SendInput, Release, Constructed, encVars, typeVars, workVars,
                outVars, wireVars
  <2>2. (Unsent => Unsent') /\ (Sent => Sent')
    BY <2>1 DEF Unsent, Sent, Room, Calls, ExtrasAfter, Fresh
  <2> QED BY <1>1, <2>1, <2>2 DEF CallsInv, Untouched, Extras
<1>7. CASE Destruct
  <2>1. /\ pc = "done" /\ stage' = "gone" /\ cached_buffers'[0] = <<>>
        /\ UNCHANGED <<pc, extra_data, ret, dst, rounds, received, early, flows>>
    BY <1>7 DEF Destruct, Slots, typeVars, workVars, wireVars
  <2>2. (Unsent => Unsent') /\ (Sent => Sent')
    BY <2>1, EmptySeq DEF Unsent, Sent, Room, Calls, ExtrasAfter, Fresh
  <2> QED BY <1>1, <2>1, <2>2 DEF CallsInv, Untouched
<1> QED BY <1>2, <1>3, <1>4, <1>5, <1>6, <1>7 DEF Around

\* Nothing has been constructed.
LEMMA InitCalls == Init => CallsInv
BY DEF Init, EncoderInit, CallsInv, Untouched, Slots

\* What slot 0 is sent, in every reachable state.
THEOREM SendInvariant == Spec => []SendInv
<1>1. Init => SendInv
  BY InitOrder, InitCalls DEF SendInv
<1>2. TypeInv /\ SendInv /\ [Next]_vars => SendInv'
  <2> SUFFICES ASSUME TypeInv, SendInv, [Next]_vars, client' = "flow"
               PROVE  OrderInv' /\ CallsInv'
    BY DEF SendInv
  <2>1. CASE UNCHANGED vars
    <3>1. client = "flow" /\ OrderInv /\ CallsInv
      BY <2>1 DEF SendInv, vars, flowVars
    <3> USE <2>1 DEF vars, encVars, flowVars, typeVars, changeVars, confVars, inVars, workVars,
                     outVars, wireVars
    <3>2. OrderInv'
      BY <3>1 DEF OrderInv, Down0, Queued, Output, Inside, Task, Input
    <3>3. CallsInv'
      BY <3>1 DEF CallsInv, Untouched, Unsent, Sent, Calls, Room, Fresh, ExtrasAfter, Extras
    <3> QED BY <3>2, <3>3
  <2>2. CASE Next
    <3>1. client = "flow"
      BY <2>2 DEF Next, ConstructEncoder, Flow, Around, Direct, ParseParams,
                  ParseMediaConfigFromMap, Install, While, Fetch, ProcessNothing, ProcessChange,
                  ProcessFrame, SetOutput0, SetOutput1, SendDown0, SendDown1, SendInput, Wire,
                  SetDisable, Stop, Destruct, Release, Request, CallProcess, ReturnProcess,
                  Discard, flowVars
    <3>2. OrderInv /\ CallsInv
      BY <3>1 DEF SendInv
    <3>3. ~Direct
      BY <3>1 DEF Direct, Request, CallProcess, ReturnProcess, Discard
    <3>4. CASE Flow
      BY <3>1, <3>2, <3>4, OrderInput, OrderFrame, OrderOutput, CallsInput, CallsOutput,
         CallsDown, CallsDown1 DEF Flow
    <3>5. CASE ~Flow
      BY <2>2, <3>1, <3>2, <3>3, <3>5, OrderAround, CallsAround DEF Next
    <3> QED BY <3>4, <3>5
  <2> QED BY <2>1, <2>2
<1>3. IInv => TypeInv
  BY DEF IInv
<1> QED BY <1>1, <1>2, <1>3, Invariance, PTL DEF Spec

\* A down flow attached since the beginning gets one buffer for each call of
\* encode: null ones until a call succeeds, then the extra data, once, and
\* then the packets in the order of their frames, none twice.
THEOREM DeliveredInOrder == Spec => []Delivered
<1>1. TypeInv /\ SendInv => Delivered
  <2> SUFFICES ASSUME TypeInv, SendInv, client = "flow", early[0], flows[0]
               PROVE  /\ \E k \in 0..Len(received[0]) :
                           /\ \A i \in 1..k : received[0][i] = Null
                           /\ \/ k = Len(received[0]) /\ (BetweenRounds => rounds = k)
                              \/ /\ ExtrasAfter(received[0], k)
                                 /\ BetweenRounds => rounds = Len(received[0]) - extra_data
                      /\ \A i, j \in DOMAIN received[0] :
                           i < j /\ IsPacket(received[0][i]) /\ IsPacket(received[0][j])
                             => received[0][i].n < received[0][j].n
    BY Zenon DEF Delivered
  <2>1. OrderInv /\ CallsInv
    BY DEF SendInv
  <2>2. Len(received[0]) \in Nat /\ extra_data \in Nat /\ DOMAIN received[0] = 1..Len(received[0])
    BY CallTypes
  <2>3. \A i, j \in DOMAIN received[0] :
          i < j /\ IsPacket(received[0][i]) /\ IsPacket(received[0][j])
            => received[0][i].n < received[0][j].n
    BY <2>1, <2>2 DEF OrderInv, Ascending
  <2>4. BetweenRounds => Calls = rounds /\ rounds \in Nat
    BY CallTypes DEF BetweenRounds, Calls
  <2>5. CASE pc = "none"
    <3>1. received[0] = <<>> /\ ~BetweenRounds
      BY <2>1, <2>5 DEF CallsInv, Untouched, BetweenRounds
    <3>2. Len(received[0]) = 0
      BY <3>1, EmptySeq
    <3> QED BY <2>3, <3>1, <3>2
  <2>6. CASE pc # "none" /\ Unsent
    <3>1. /\ Len(received[0]) \in 0..Len(received[0])
          /\ \A i \in 1..Len(received[0]) : received[0][i] = Null
          /\ BetweenRounds => rounds = Len(received[0])
      BY <2>2, <2>4, <2>6 DEF Unsent
    <3> QED BY <2>3, <3>1
  <2>7. CASE pc # "none" /\ Sent
    <3>1. PICK k \in 0..Len(received[0]) :
            (\A i \in 1..k : received[0][i] = Null) /\ ExtrasAfter(received[0], k)
      BY <2>7 DEF Sent
    <3>2. BetweenRounds => rounds = Len(received[0]) - extra_data
      BY <2>2, <2>4, <2>7 DEF Sent
    <3> QED BY <2>3, <3>1, <3>2
  <2> QED BY <2>1, <2>5, <2>6, <2>7 DEF CallsInv
<1>2. IInv => TypeInv
  BY DEF IInv
<1> QED BY <1>1, <1>2, SendInvariant, Invariance, PTL
=============================================================================
