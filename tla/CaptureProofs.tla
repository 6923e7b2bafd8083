---------------------------- MODULE CaptureProofs ----------------------------
(***************************************************************************)
(* What holds of the camera pipeline for every set of parameters, every    *)
(* number of buffers a driver grants, and any number of failing calls: the *)
(* types, that a buffer is in one place at a time and none goes missing,   *)
(* and that a frame keeps its memory and its device however the flows go.  *)
(***************************************************************************)
EXTENDS CaptureGraph, FiniteSetTheorems, SequenceTheorems, TLAPS

-----------------------------------------------------------------------------
(* The invariant.                                                          *)

\* Where Open can be, and where the application is while the stream lives.
Steps  == {"new", "device", "caps", "format", "request", "memory", "queue", "open", "failed"}
Before == {"new", "device", "caps", "format", "request"}
Live   == {"filter", "sink", "wire", "unwired", "stop", "off", "notify", "join"}
Building == {"filter", "sink", "wire", "unwired", "stop"}
Gone   == {"members", "filterstop", "filterjoin", "sinkstop"}
Resources == {"client", "handle", "fd", "ptr"}

Contexts == [fd : BOOLEAN, started : BOOLEAN, stream : BOOLEAN]

\* The numbers that Open has queued after n buffers, and who has a buffer.
Counting(n) == [i \in 1..n |-> i]

Waiting == ToSet(queue)
Ready   == {b.index : b \in ToSet(filled)}

\* The types of the device's variables.
DevTypes ==
  /\ setup \in Setups /\ faults \in 0..MaxFaults /\ count \in Nat /\ step \in Steps
  /\ ctx \in Contexts
  /\ vec \in BOOLEAN /\ started \in BOOLEAN
  /\ queue \in Seq(Indices) /\ filled \in Seq([index : Indices, bytes : BOOLEAN])
  /\ lost \subseteq Indices
  /\ buffer_vec \in Seq(SUBSET Resources) /\ Len(buffer_vec) <= count

\* Open: the buffers it has been at are in the list, and queued or yet to be.
OpenInv ==
  /\ step \in Before => buffer_vec = <<>> /\ queue = <<>> /\ next = 1
  /\ step = "memory" => /\ next \in 1..count /\ Len(buffer_vec) = next - 1
                        /\ queue = IF memory_type = "DMABUF" THEN Counting(next - 1) ELSE <<>>
                        /\ memory_type \in {"DMABUF", "MMAP"}
  /\ step = "queue" => /\ next \in 1..count /\ Len(buffer_vec) = count
                       /\ queue = Counting(next - 1)
  /\ app = "source" => /\ filled = <<>> /\ lost = {} /\ ~ctx.started
                       /\ vec \/ step = "failed"
                       /\ Frames = {}
  /\ app \in Live => vec
  /\ app = "source" /\ step = "open" /\ memory_type # "USERPTR" => queue = Counting(count)
  /\ vec /\ step \in Steps \ {"new", "device", "failed"} => ctx.fd
  /\ step # "open" => app \in {"source", "end"} /\ Frames = {} /\ ~ctx.started

\* A buffer is in one place.
Apart ==
  /\ IsInjective(queue)
  /\ \A i, j \in 1..Len(filled) : filled[i].index = filled[j].index => i = j
  /\ Waiting \cap Ready = {}
  /\ (Waiting \cup Ready) \cap (Frames \cup lost) = {} /\ Frames \cap lost = {}

\* What a frame and what the driver refers to is there.
Backed ==
  /\ vec => \A i \in 1..Len(buffer_vec) : buffer_vec[i] # {}
  /\ Waiting \cup Ready \cup Frames \subseteq 1..Len(buffer_vec)
  /\ \A i \in Frames : buffer_vec[i] # {} /\ ctx.fd
  /\ queue # <<>> \/ filled # <<>> => ctx.fd
  /\ ~ctx.started => filled = <<>>
  /\ ~vec => ~ctx.started
  /\ ~vec /\ Frames = {} => ctx = Closed /\ \A i \in 1..Len(buffer_vec) : buffer_vec[i] = {}

\* Every buffer is somewhere, until the stream is switched off.
NoneMissing ==
  app \in Building /\ stops = 0 /\ memory_type # "USERPTR"
    => Indices \subseteq Waiting \cup Ready \cup Frames \cup lost

DevInv == DevTypes /\ OpenInv /\ Apart /\ Backed /\ NoneMissing

\* The types of the flows' variables.
GraphTypes ==
  /\ stops \in 0..setup.stops /\ crashed \in BOOLEAN
  /\ app \in {"source", "end"} \cup Live \cup Gone
  /\ loop \in BOOLEAN /\ on \in BOOLEAN /\ fon \in BOOLEAN
  /\ rbuf \in MaybeFrame /\ source_out \in MaybeFrame /\ fin \in MaybeFrame
  /\ cached_buffer \in MaybeFrame /\ cached_buffers \in Seq(MaybeFrame)
  /\ filter_out \in Outs /\ sink_in \in Outs /\ sink_inputs \in Seq(Outs)
  /\ rpc \in {"none", "wait", "asleep", "loop", "start", "dqbuf", "send", "process", "sync", "ended"}
  /\ fpc \in {"none", "idle", "fetch", "process", "ended"}

\* The flows as far as they have been made; the filter, once it is there, has an
\* input whose bound is a number.
FlowFields == {"v_input", "downflowmap", "input_slot_num", "out_slot_num", "runs", "start", "down_flow_num"}
HasInput == 0 \in DOMAIN filter.v_input /\ filter.v_input[0].cache \in Int

Shape ==
  /\ DOMAIN graph = {"source", "filter", "sink"}
  /\ DOMAIN source = FlowFields /\ DOMAIN filter = FlowFields /\ DOMAIN sink = FlowFields
  /\ app \in {"source", "filter"} => filter = NewFlow /\ fpc = "none"
  /\ app \in {"source", "filter", "sink"} => sink = NewFlow
  /\ app = "source" => source = NewFlow
  /\ app \in {"sink", "wire", "unwired"} => HasInput
  /\ \A i \in DOMAIN sink.v_input :
       sink.v_input[i].model = "ASYNCCOMMON" => sink.v_input[i].cache \in Int

\* The reader runs from the source's making to its end; before the filter is there
\* it waits for a down flow, and only a SYNC filter is run by it.
Threads ==
  /\ app = "source" => /\ rpc = "none" /\ stops = 0
                       /\ cached_buffers = <<>> /\ sink_inputs = <<>>
  /\ app \in Live => rpc # "none"
  /\ rpc \notin {"none", "ended"} => app \in Live
  /\ app \in {"source", "filter", "sink", "wire", "unwired"} => on
  /\ app \in {"off", "notify", "join"} => ~loop
  /\ ~HasInput =>
       /\ fpc = "none"
       /\ \/ rpc = "none"
          \/ rpc \in {"wait", "asleep"} /\ on /\ source.down_flow_num = 0
          \/ rpc \in {"wait", "asleep", "loop", "ended"} /\ ~loop
  /\ rpc \in {"none", "wait", "asleep", "loop", "start", "dqbuf", "ended"} => rbuf = Null
  /\ fpc # "process" => fin = Null
  /\ fpc = "process" /\ fmodel = "SYNC" => rpc = "sync"

GraphInv == GraphTypes /\ Shape /\ Threads

IInv == DevInv /\ GraphInv

-----------------------------------------------------------------------------
(* Sequences and what is in them.                                          *)

\* The elements of a sequence that grows at its end and loses its head.
LEMMA ToSetFacts ==
  ASSUME NEW S, NEW s \in Seq(S), NEW x \in S
  PROVE  /\ ToSet(s) \subseteq S /\ ToSet(Append(s, x)) = ToSet(s) \cup {x}
         /\ s # <<>> => /\ Head(s) \in S /\ Tail(s) \in Seq(S)
                        /\ ToSet(s) = {Head(s)} \cup ToSet(Tail(s))
<1>1. ToSet(s) \subseteq S
  BY DEF ToSet
<1>2. ToSet(Append(s, x)) = ToSet(s) \cup {x}
  <2>1. DOMAIN Append(s, x) = DOMAIN s \cup {Len(s) + 1} /\ DOMAIN s = 1..Len(s)
        /\ Append(s, x)[Len(s) + 1] = x /\ \A i \in 1..Len(s) : Append(s, x)[i] = s[i]
    BY AppendProperties
  <2> QED BY <2>1 DEF ToSet
<1>3. ASSUME s # <<>>
      PROVE  Head(s) \in S /\ Tail(s) \in Seq(S) /\ ToSet(s) = {Head(s)} \cup ToSet(Tail(s))
  <2>1. /\ Head(s) \in S /\ Tail(s) \in Seq(S) /\ Head(s) = s[1]
        /\ Len(Tail(s)) = Len(s) - 1 /\ \A i \in 1..Len(Tail(s)) : Tail(s)[i] = s[i + 1]
    BY <1>3, HeadTailProperties
  <2>2. DOMAIN s = 1..Len(s) /\ DOMAIN Tail(s) = 1..(Len(s) - 1) /\ Len(s) \in Nat \ {0}
    BY <1>3, <2>1, LenProperties, EmptySeq
  <2>3. \A i \in 1..Len(s) : i = 1 \/ (i - 1 \in 1..Len(Tail(s)) /\ s[i] = Tail(s)[i - 1])
    BY <2>1, <2>2
  <2>4. \A i \in 1..Len(Tail(s)) : i + 1 \in 1..Len(s)
    BY <2>1, <2>2
  <2>5. ASSUME NEW e \in ToSet(s)
        PROVE  e \in {Head(s)} \cup ToSet(Tail(s))
    <3>1. PICK i \in 1..Len(s) : e = s[i]
      BY <2>2 DEF ToSet
    <3>2. CASE i = 1
      BY <2>1, <3>1, <3>2
    <3>3. CASE i - 1 \in 1..Len(Tail(s)) /\ s[i] = Tail(s)[i - 1]
      BY <2>1, <2>2, <3>1, <3>3 DEF ToSet
    <3> QED BY <2>3, <3>2, <3>3
  <2>6. ASSUME NEW e \in {Head(s)} \cup ToSet(Tail(s))
        PROVE  e \in ToSet(s)
    <3>1. CASE e = Head(s)
      BY <2>1, <2>2, <3>1 DEF ToSet
    <3>2. CASE e \in ToSet(Tail(s))
      <4>1. PICK i \in 1..Len(Tail(s)) : e = Tail(s)[i]
        BY <2>1, <2>2, <3>2 DEF ToSet
      <4>2. i + 1 \in DOMAIN s /\ e = s[i + 1]
        BY <2>1, <2>2, <2>4, <4>1
      <4> QED BY <4>2 DEF ToSet
    <3> QED BY <2>6, <3>1, <3>2
  <2> QED BY <2>1, <2>5, <2>6
<1> QED BY <1>1, <1>2, <1>3

\* An empty sequence has no element, and another one does.
LEMMA ToSetEmpty ==
  /\ ToSet(<<>>) = {}
  /\ \A S : \A s \in Seq(S) : ToSet(s) = {} => s = <<>>
<1>1. ToSet(<<>>) = {}
  BY DEF ToSet
<1>2. ASSUME NEW S, NEW s \in Seq(S), s # <<>>
      PROVE  ToSet(s) # {}
  BY <1>2, ToSetFacts
<1> QED BY <1>1, <1>2

\* A sequence without repetition that grows by what is new.
LEMMA InjectiveAppend ==
  ASSUME NEW S, NEW s \in Seq(S), NEW x \in S, IsInjective(s), x \notin ToSet(s)
  PROVE  IsInjective(Append(s, x))
<1>1. /\ DOMAIN Append(s, x) = 1..(Len(s) + 1) /\ DOMAIN s = 1..Len(s) /\ Len(s) \in Nat
      /\ Append(s, x)[Len(s) + 1] = x /\ \A i \in 1..Len(s) : Append(s, x)[i] = s[i]
  BY AppendProperties, LenProperties
<1>2. \A i \in 1..Len(s) : s[i] # x
  BY <1>1 DEF ToSet
<1>3. ASSUME NEW a \in 1..(Len(s) + 1), NEW b \in 1..(Len(s) + 1),
             Append(s, x)[a] = Append(s, x)[b]
      PROVE  a = b
  <2>1. a \in 1..Len(s) \/ a = Len(s) + 1
    BY <1>1
  <2>2. b \in 1..Len(s) \/ b = Len(s) + 1
    BY <1>1
  <2> QED BY <1>1, <1>2, <1>3, <2>1, <2>2 DEF IsInjective
<1> QED BY <1>1, <1>3 DEF IsInjective

\* The tail of a sequence without repetition has none, and not its head.
LEMMA InjectiveTail ==
  ASSUME NEW S, NEW s \in Seq(S), IsInjective(s), s # <<>>
  PROVE  IsInjective(Tail(s)) /\ Head(s) \notin ToSet(Tail(s))
<1>1. /\ Head(s) = s[1] /\ Tail(s) \in Seq(S)
      /\ Len(Tail(s)) = Len(s) - 1 /\ \A i \in 1..Len(Tail(s)) : Tail(s)[i] = s[i + 1]
  BY HeadTailProperties
<1>2. DOMAIN s = 1..Len(s) /\ DOMAIN Tail(s) = 1..(Len(s) - 1) /\ Len(s) \in Nat \ {0}
  BY <1>1, LenProperties, EmptySeq
<1>3. \A i \in 1..(Len(s) - 1) : i + 1 \in 1..Len(s) /\ i + 1 # 1 /\ 1 \in 1..Len(s)
  BY <1>2
<1>4. ASSUME NEW a \in 1..(Len(s) - 1), NEW b \in 1..(Len(s) - 1), Tail(s)[a] = Tail(s)[b]
      PROVE  a = b
  <2>1. s[a + 1] = s[b + 1] /\ a + 1 \in DOMAIN s /\ b + 1 \in DOMAIN s
    BY <1>1, <1>2, <1>3, <1>4
  <2>2. a + 1 = b + 1
    BY <2>1 DEF IsInjective
  <2> QED BY <2>2
<1>5. \A i \in 1..(Len(s) - 1) : Tail(s)[i] # s[1]
  BY <1>1, <1>2, <1>3 DEF IsInjective
<1> QED BY <1>1, <1>2, <1>4, <1>5 DEF IsInjective, ToSet

\* Two sequences without repetition that have nothing in common, one after the other.
LEMMA InjectiveConcat ==
  ASSUME NEW S, NEW s \in Seq(S), NEW t \in Seq(S), IsInjective(s), IsInjective(t),
         ToSet(s) \cap ToSet(t) = {}
  PROVE  IsInjective(s \o t)
<1>1. /\ s \o t \in Seq(S) /\ Len(s \o t) = Len(s) + Len(t)
      /\ \A i \in 1..(Len(s) + Len(t)) :
           (s \o t)[i] = IF i <= Len(s) THEN s[i] ELSE t[i - Len(s)]
      /\ DOMAIN s = 1..Len(s) /\ DOMAIN t = 1..Len(t) /\ Len(s) \in Nat /\ Len(t) \in Nat
  BY ConcatProperties, LenProperties
<1>2. DOMAIN (s \o t) = 1..(Len(s) + Len(t))
  BY <1>1, LenProperties
<1>3. \A i \in 1..(Len(s) + Len(t)) :
        \/ i \in 1..Len(s) /\ (s \o t)[i] = s[i]
        \/ i - Len(s) \in 1..Len(t) /\ (s \o t)[i] = t[i - Len(s)]
  BY <1>1
<1>4. \A i \in 1..Len(s), j \in 1..Len(t) : s[i] # t[j]
  BY <1>1 DEF ToSet
<1>5. \A i, j \in 1..Len(s) : s[i] = s[j] => i = j
  BY <1>1 DEF IsInjective
<1>6. \A i, j \in 1..Len(t) : t[i] = t[j] => i = j
  BY <1>1 DEF IsInjective
<1>7. ASSUME NEW a \in 1..(Len(s) + Len(t)), NEW b \in 1..(Len(s) + Len(t)),
             (s \o t)[a] = (s \o t)[b]
      PROVE  a = b
  <2>1. CASE a \in 1..Len(s) /\ (s \o t)[a] = s[a]
    BY <1>3, <1>4, <1>5, <1>7, <2>1
  <2>2. CASE a - Len(s) \in 1..Len(t) /\ (s \o t)[a] = t[a - Len(s)]
    <3>1. b - Len(s) \in 1..Len(t) /\ (s \o t)[b] = t[b - Len(s)]
      BY <1>3, <1>4, <1>7, <2>2
    <3>2. a - Len(s) = b - Len(s)
      BY <1>6, <1>7, <2>2, <3>1
    <3> QED BY <1>1, <3>2
  <2> QED BY <1>3, <2>1, <2>2
<1> QED BY <1>2, <1>7 DEF IsInjective

\* What two sequences have in common is all there is in them together.
LEMMA ToSetConcat ==
  ASSUME NEW S, NEW s \in Seq(S), NEW t \in Seq(S)
  PROVE  s \o t \in Seq(S) /\ ToSet(s \o t) = ToSet(s) \cup ToSet(t)
<1>1. /\ s \o t \in Seq(S) /\ Len(s \o t) = Len(s) + Len(t)
      /\ \A i \in 1..(Len(s) + Len(t)) :
           (s \o t)[i] = IF i <= Len(s) THEN s[i] ELSE t[i - Len(s)]
      /\ DOMAIN s = 1..Len(s) /\ DOMAIN t = 1..Len(t) /\ Len(s) \in Nat /\ Len(t) \in Nat
  BY ConcatProperties, LenProperties
<1>2. DOMAIN (s \o t) = 1..(Len(s) + Len(t))
  BY <1>1, LenProperties
<1>3. \A i \in 1..(Len(s) + Len(t)) :
        \/ i \in 1..Len(s) /\ (s \o t)[i] = s[i]
        \/ i - Len(s) \in 1..Len(t) /\ (s \o t)[i] = t[i - Len(s)]
  BY <1>1
<1>4. \A i \in 1..Len(s) : i \in 1..(Len(s) + Len(t)) /\ (s \o t)[i] = s[i]
  BY <1>1
<1>5. \A i \in 1..Len(t) : i + Len(s) \in 1..(Len(s) + Len(t)) /\ (s \o t)[i + Len(s)] = t[i]
  BY <1>1
<1>6. ASSUME NEW e \in ToSet(s \o t)
      PROVE  e \in ToSet(s) \cup ToSet(t)
  <2>1. PICK i \in 1..(Len(s) + Len(t)) : e = (s \o t)[i]
    BY <1>2 DEF ToSet
  <2>2. CASE i \in 1..Len(s) /\ (s \o t)[i] = s[i]
    BY <1>1, <2>1, <2>2 DEF ToSet
  <2>3. CASE i - Len(s) \in 1..Len(t) /\ (s \o t)[i] = t[i - Len(s)]
    BY <1>1, <2>1, <2>3 DEF ToSet
  <2> QED BY <1>3, <2>2, <2>3
<1>7. ToSet(s) \subseteq ToSet(s \o t)
  BY <1>1, <1>2, <1>4 DEF ToSet
<1>8. ASSUME NEW e \in ToSet(t)
      PROVE  e \in ToSet(s \o t)
  <2>1. PICK i \in 1..Len(t) : e = t[i]
    BY <1>1 DEF ToSet
  <2>2. i + Len(s) \in DOMAIN (s \o t) /\ e = (s \o t)[i + Len(s)]
    BY <1>2, <1>5, <2>1
  <2> QED BY <2>2 DEF ToSet
<1> QED BY <1>1, <1>6, <1>7, <1>8

\* A finite set in any order: each element once.
LEMMA SetToSeqsFacts ==
  ASSUME NEW S, IsFiniteSet(S), NEW s \in SetToSeqs(S)
  PROVE  s \in Seq(S) /\ IsInjective(s) /\ ToSet(s) = S
<1>1. s \in [1..Cardinality(S) -> S] /\ \A i, j \in 1..Cardinality(S) : i # j => s[i] # s[j]
  BY DEF SetToSeqs
<1>2. Cardinality(S) \in Nat
  BY FS_CardinalityType
<1>3. s \in Seq(S)
  BY <1>1, <1>2, SeqDef
<1>4. IsInjective(s)
  BY <1>1 DEF IsInjective
<1>5. s \in Injection(1..Cardinality(S), S)
  BY <1>1, <1>4 DEF Injection
<1>6. IsFiniteSet(1..Cardinality(S)) /\ Cardinality(1..Cardinality(S)) = Cardinality(S)
  BY <1>2, FS_Interval
<1>7. s \in Surjection(1..Cardinality(S), S)
  BY <1>5, <1>6, FS_Injection
<1>8. ToSet(s) = S
  BY <1>1, <1>7 DEF Surjection, ToSet, Range
<1> QED BY <1>3, <1>4, <1>8

\* Without repetition there are as many elements as places.
LEMMA InjectiveCardinality ==
  ASSUME NEW S, NEW s \in Seq(S), IsInjective(s)
  PROVE  Cardinality(ToSet(s)) = Len(s)
<1>1. Len(s) \in Nat /\ DOMAIN s = 1..Len(s) /\ s \in [1..Len(s) -> S]
  BY LenProperties
<1>2. s \in [1..Len(s) -> ToSet(s)]
  BY <1>1 DEF ToSet
<1>3. s \in Bijection(1..Len(s), ToSet(s))
  BY <1>1, <1>2 DEF Bijection, Injection, Surjection, ToSet, IsInjective, Range
<1>4. ExistsBijection(1..Len(s), ToSet(s))
  BY <1>3 DEF ExistsBijection
<1> QED BY <1>1, <1>4, FS_CountingElements

-----------------------------------------------------------------------------
(* The device.                                                             *)

\* The memory that is kept.
LEMMA KeptFacts ==
  ASSUME buffer_vec \in Seq(SUBSET Resources), NEW held
  PROVE  /\ Kept(held) \in Seq(SUBSET Resources) /\ Len(Kept(held)) = Len(buffer_vec)
         /\ \A i \in 1..Len(buffer_vec) :
              Kept(held)[i] = IF i \in held THEN buffer_vec[i] ELSE {}
<1>1. /\ DOMAIN buffer_vec = 1..Len(buffer_vec) /\ Len(buffer_vec) \in Nat
      /\ \A i \in 1..Len(buffer_vec) : buffer_vec[i] \in SUBSET Resources
  BY LenProperties, ElementOfSeq
<1>2. Kept(held) \in [1..Len(buffer_vec) -> SUBSET Resources]
  BY <1>1 DEF Kept
<1>3. Kept(held) \in Seq(SUBSET Resources)
  BY <1>1, <1>2, SeqDef
<1>4. DOMAIN Kept(held) = 1..Len(buffer_vec)
  BY <1>2
<1>5. Len(Kept(held)) = Len(buffer_vec)
  BY <1>1, <1>3, <1>4, LenProperties
<1> QED BY <1>1, <1>3, <1>5 DEF Kept

\* Buffers that are put back are queued, or lost, and those that are queued
\* are queued once.
LEMMA QBUFFacts ==
  ASSUME count \in Nat, queue \in Seq(Indices), IsInjective(queue),
         NEW free \in SUBSET Indices, free \cap Waiting = {}, NEW fails \in BOOLEAN,
         QBUF(free, fails)
  PROVE  /\ queue' \in Seq(Indices) /\ IsInjective(queue')
         /\ \/ queue' = queue /\ Waiting' = Waiting /\ lost' = lost \cup free
            \/ Waiting' = Waiting \cup free /\ lost' = lost
<1>1. PICK order \in SetToSeqs(free) : queue' = IF fails THEN queue ELSE queue \o order
  BY DEF QBUF
<1>2. lost' = IF fails THEN lost \cup free ELSE lost
  BY DEF QBUF
<1>3. CASE fails
  BY <1>1, <1>2, <1>3 DEF Waiting
<1>4. CASE ~fails
  <2>1. IsFiniteSet(free)
    <3>1. IsFiniteSet(1..count)
      BY FS_Interval
    <3> QED BY <3>1, FS_Subset DEF Indices
  <2>2. order \in Seq(free) /\ IsInjective(order) /\ ToSet(order) = free
    BY <2>1, SetToSeqsFacts
  <2>3. order \in Seq(Indices)
    BY <2>2, SeqMonotonic
  <2>4. queue' = queue \o order /\ lost' = lost
    BY <1>1, <1>2, <1>4
  <2>5. queue' \in Seq(Indices) /\ Waiting' = Waiting \cup free
    BY <2>2, <2>3, <2>4, ToSetConcat DEF Waiting
  <2>6. IsInjective(queue')
    BY <2>2, <2>3, <2>4, InjectiveConcat DEF Waiting
  <2> QED BY <2>4, <2>5, <2>6
<1> QED BY <1>3, <1>4

\* Contexts: one that is closed, and one after a change.
LEMMA ContextTypes ==
  /\ Closed \in Contexts
  /\ \A c \in Contexts : \A b \in BOOLEAN :
       /\ [c EXCEPT !.started = b] \in Contexts
       /\ [c EXCEPT !.started = b].started = b /\ [c EXCEPT !.started = b].fd = c.fd
       /\ [c EXCEPT !.started = FALSE, !.stream = FALSE] \in Contexts
       /\ [c EXCEPT !.started = FALSE, !.stream = FALSE].fd = c.fd
       /\ [c EXCEPT !.started = FALSE, !.stream = FALSE].started = FALSE
BY DEF Closed, Contexts

\* The application goes on, and does not go back.
Passes ==
  /\ stops' = stops
  /\ \/ app' = app
     \/ /\ app \notin {"source", "end"} /\ app' # "source"
        /\ app' \in Live => app \in Live
        /\ app' \in Building => app \in Building

\* Once it is open, the steps of Open are over.
LEMMA OpenOver ==
  ASSUME step' = "open", app' # "source", vec' => ctx'.fd, app' \in Live => vec'
  PROVE  OpenInv'
BY DEF OpenInv, Before

\* As long as the stream is there it has all its memory and the device.
LEMMA BackedOver ==
  ASSUME vec', ctx'.fd, ctx'.started \/ filled' = <<>>,
         Waiting' \cup Ready' \cup Frames' \subseteq 1..Len(buffer_vec'),
         \A i \in 1..Len(buffer_vec') : buffer_vec'[i] # {}
  PROVE  Backed'
BY DEF Backed

\* A failing call is counted, as far as there may be any.
LEMMA FaultTypes ==
  ASSUME faults \in 0..MaxFaults, NoFault \/ Fault
  PROVE  faults' \in 0..MaxFaults
BY MaxFaultsAssumption DEF NoFault, Fault

\* A step that leaves the device alone and every frame where it is.
LEMMA DevKept ==
  ASSUME DevInv, Passes, UNCHANGED <<openVars, devVars>>, Frames' = Frames, NoFault \/ Fault
  PROVE  DevInv'
<1> USE DEF openVars, devVars
<1>1. DevTypes'
  BY FaultTypes DEF DevInv, DevTypes, Indices
<1>2. memory_type' = memory_type
  BY DEF memory_type
<1>3. OpenInv'
  BY <1>2, Zenon DEF DevInv, OpenInv, Passes
<1>4. Waiting' = Waiting /\ Ready' = Ready
  BY DEF Waiting, Ready
<1>5. Apart'
  BY <1>4 DEF DevInv, Apart
<1>6. Backed'
  BY <1>4 DEF DevInv, Backed
<1>7. NoneMissing'
  BY <1>2, <1>4 DEF DevInv, NoneMissing, Passes, Indices
<1> QED BY <1>1, <1>3, <1>5, <1>6, <1>7 DEF DevInv

\* Where the buffers are after some have been put back.
LEMMA PutOwners ==
  ASSUME DevInv, Frames' \subseteq Frames, UNCHANGED openVars,
         NEW fails \in BOOLEAN, Put(Frames \ Frames', Frames', fails)
  PROVE  /\ queue' \in Seq(Indices) /\ IsInjective(queue')
         /\ filled' = filled /\ Ready' = Ready
         /\ \/ Waiting' = Waiting \cup (Frames \ Frames') /\ lost' = lost
            \/ queue' = queue /\ Waiting' = Waiting /\ lost' = lost \cup (Frames \ Frames')
            \/ queue' = <<>> /\ Waiting' = {} /\ lost' = lost /\ ~vec /\ Frames' = {}
<1> DEFINE free == Frames \ Frames'
<1>1. /\ count \in Nat /\ queue \in Seq(Indices) /\ IsInjective(queue)
      /\ Frames \subseteq 1..Len(buffer_vec) /\ Frames \cap Waiting = {}
      /\ Len(buffer_vec) <= count /\ buffer_vec \in Seq(SUBSET Resources)
  BY DEF DevInv, DevTypes, Apart, Backed
<1>2. Len(buffer_vec) \in Nat
  BY <1>1, LenProperties
<1>3. free \in SUBSET Indices /\ free \cap Waiting = {}
  BY <1>1, <1>2 DEF Indices
<1> HIDE DEF free
<1>4. QBUF(free, fails) => /\ queue' \in Seq(Indices) /\ IsInjective(queue')
                           /\ \/ queue' = queue /\ Waiting' = Waiting /\ lost' = lost \cup free
                              \/ Waiting' = Waiting \cup free /\ lost' = lost
  BY <1>1, <1>3, QBUFFacts
<1>5. filled' = filled /\ Ready' = Ready
  BY DEF Put, devVars, Ready
<1>6. CASE free = {} /\ ~fails /\ UNCHANGED devVars
  BY <1>1, <1>5, <1>6 DEF devVars, Waiting, free
<1>7. CASE free # {} /\ QBUF(free, fails)
  BY <1>4, <1>5, <1>7 DEF free
<1>8. CASE ~vec /\ Frames' = {} /\ queue' = <<>> /\ UNCHANGED lost
  <2>1. queue' \in Seq(Indices) /\ IsInjective(queue')
    BY <1>8, EmptySeq DEF IsInjective
  <2>2. Waiting' = {}
    BY <1>8, ToSetEmpty DEF Waiting
  <2> QED BY <1>5, <1>8, <2>1, <2>2
<1>9. \/ free = {} /\ ~fails /\ UNCHANGED devVars
      \/ free # {} /\ QBUF(free, fails)
      \/ ~vec /\ Frames' = {} /\ queue' = <<>> /\ UNCHANGED lost
  BY Zenon DEF Put, free
<1> QED BY <1>6, <1>7, <1>8, <1>9

\* The memory and the context after some have been put back.
LEMMA PutMemory ==
  ASSUME DevInv, Frames' \subseteq Frames,
         NEW fails \in BOOLEAN, Put(Frames \ Frames', Frames', fails)
  PROVE  /\ vec' = vec /\ started' = started
         /\ buffer_vec' \in Seq(SUBSET Resources) /\ Len(buffer_vec') = Len(buffer_vec)
         /\ \A i \in 1..Len(buffer_vec) : (vec \/ i \in Frames') => buffer_vec'[i] = buffer_vec[i]
         /\ ~vec /\ Frames' = {} /\ Frames # {} => /\ ctx' = Closed /\ queue' = <<>>
                                   /\ \A i \in 1..Len(buffer_vec) : buffer_vec'[i] = {}
         /\ vec \/ Frames' # {} \/ Frames = {} => ctx' = ctx
         /\ Frames = {} => UNCHANGED devVars
<1>1. buffer_vec \in Seq(SUBSET Resources)
  BY DEF DevInv, DevTypes
<1>2. CASE Frames \ Frames' = {} /\ UNCHANGED devVars
  BY <1>1, <1>2 DEF devVars
<1>3. CASE /\ Frames \ Frames' # {} /\ vec
           /\ UNCHANGED <<buffer_vec, vec, ctx, started, filled>>
  BY <1>1, <1>3
<1>4. CASE /\ Frames \ Frames' # {} /\ ~vec /\ buffer_vec' = Kept(Frames')
           /\ IF Frames' = {} THEN ctx' = Closed /\ queue' = <<>> ELSE UNCHANGED ctx
           /\ UNCHANGED <<vec, started, filled>>
  <2>1. /\ Kept(Frames') \in Seq(SUBSET Resources) /\ Len(Kept(Frames')) = Len(buffer_vec)
        /\ \A i \in 1..Len(buffer_vec) :
              Kept(Frames')[i] = IF i \in Frames' THEN buffer_vec[i] ELSE {}
    BY <1>1, KeptFacts
  <2> QED BY <1>4, <2>1
<1>5. \/ Frames \ Frames' = {} /\ UNCHANGED devVars
      \/ /\ Frames \ Frames' # {} /\ vec
         /\ UNCHANGED <<buffer_vec, vec, ctx, started, filled>>
      \/ /\ Frames \ Frames' # {} /\ ~vec /\ buffer_vec' = Kept(Frames')
         /\ IF Frames' = {} THEN ctx' = Closed /\ queue' = <<>> ELSE UNCHANGED ctx
         /\ UNCHANGED <<vec, started, filled>>
  BY Zenon DEF Put
<1> QED BY <1>2, <1>3, <1>4, <1>5

\* A step that lets go of frames, and does nothing else with the device.
LEMMA DevReleases ==
  ASSUME DevInv, Passes, Frames' \subseteq Frames, UNCHANGED openVars, NoFault \/ Fault,
         NEW fails \in BOOLEAN, Put(Frames \ Frames', Frames', fails)
  PROVE  DevInv'
<1>1. /\ queue' \in Seq(Indices) /\ IsInjective(queue')
      /\ filled' = filled /\ Ready' = Ready
      /\ \/ Waiting' = Waiting \cup (Frames \ Frames') /\ lost' = lost
         \/ queue' = queue /\ Waiting' = Waiting /\ lost' = lost \cup (Frames \ Frames')
         \/ queue' = <<>> /\ Waiting' = {} /\ lost' = lost /\ ~vec /\ Frames' = {}
  BY PutOwners
<1>2. /\ vec' = vec /\ started' = started
      /\ buffer_vec' \in Seq(SUBSET Resources) /\ Len(buffer_vec') = Len(buffer_vec)
      /\ \A i \in 1..Len(buffer_vec) : (vec \/ i \in Frames') => buffer_vec'[i] = buffer_vec[i]
      /\ ~vec /\ Frames' = {} /\ Frames # {} => /\ ctx' = Closed /\ queue' = <<>>
                                /\ \A i \in 1..Len(buffer_vec) : buffer_vec'[i] = {}
      /\ vec \/ Frames' # {} \/ Frames = {} => ctx' = ctx
      /\ Frames = {} => UNCHANGED devVars
  BY PutMemory
<1>3. setup' = setup /\ step' = step /\ next' = next /\ count' = count
  BY DEF openVars
<1>4. Indices' = Indices /\ memory_type' = memory_type
  BY <1>3 DEF Indices, memory_type
<1>5. Frames \subseteq 1..Len(buffer_vec) /\ Frames \subseteq Indices
  <2>1. Len(buffer_vec) \in Nat /\ Len(buffer_vec) <= count /\ count \in Nat
    BY LenProperties DEF DevInv, DevTypes
  <2> QED BY <2>1 DEF DevInv, Backed, Indices
<1>6. ctx' = ctx \/ (ctx' = Closed /\ ~vec /\ Frames # {})
  BY <1>2
<1>7. DevTypes'
  <2>1. ctx' \in Contexts
    BY <1>6, ContextTypes DEF DevInv, DevTypes
  <2>2. faults' \in 0..MaxFaults
    BY FaultTypes DEF DevInv, DevTypes
  <2>3. lost' \subseteq Indices
    BY <1>1, <1>5 DEF DevInv, DevTypes
  <2> QED BY <1>1, <1>2, <1>3, <1>4, <2>1, <2>2, <2>3 DEF DevInv, DevTypes
<1>8. OpenInv'
  <2>1. CASE Frames = {}
    <3>1. UNCHANGED <<openVars, devVars>> /\ Frames' = Frames
      BY <1>2, <2>1
    <3> QED BY <3>1, DevKept DEF DevInv
  <2>2. CASE Frames # {}
    <3>1. step = "open"
      BY <2>2 DEF DevInv, OpenInv
    <3>2. app # "source"
      BY <2>2 DEF DevInv, OpenInv
    <3>3. vec' = vec
      BY <1>2
    <3>4. ctx'.fd \/ ~vec
      BY <1>2, <3>1 DEF DevInv, OpenInv, Steps
    <3>5. app' # "source" /\ step' = "open" /\ (app' \in Live => vec')
      BY <1>3, <3>1, <3>2, <3>3, Zenon DEF DevInv, OpenInv, Passes
    <3> QED BY <1>3, <3>3, <3>4, <3>5 DEF OpenInv, Before
  <2> QED BY <2>1, <2>2
<1>9. Apart'
  <2>1. /\ Waiting \cap Ready = {} /\ (Waiting \cup Ready) \cap (Frames \cup lost) = {}
        /\ Frames \cap lost = {}
        /\ \A i, j \in 1..Len(filled) : filled[i].index = filled[j].index => i = j
    BY DEF DevInv, Apart
  <2>2. Waiting' \cap Ready' = {}
    BY <1>1, <2>1
  <2>3. (Waiting' \cup Ready') \cap (Frames' \cup lost') = {}
    BY <1>1, <2>1
  <2>4. Frames' \cap lost' = {}
    BY <1>1, <2>1
  <2> QED BY <1>1, <2>1, <2>2, <2>3, <2>4 DEF Apart
<1>10. Backed'
  <2> DEFINE N == Len(buffer_vec)
  <2>1. /\ vec => \A i \in 1..N : buffer_vec[i] # {}
        /\ Waiting \cup Ready \cup Frames \subseteq 1..N
        /\ \A i \in Frames : buffer_vec[i] # {} /\ ctx.fd
        /\ (queue # <<>> \/ filled # <<>>) => ctx.fd
        /\ ~ctx.started => filled = <<>>
        /\ ~vec => ~ctx.started
        /\ ~vec /\ Frames = {} => ctx = Closed /\ \A i \in 1..N : buffer_vec[i] = {}
    BY DEF DevInv, Backed
  <2> HIDE DEF N
  <2>2. vec' => \A i \in 1..N : buffer_vec'[i] # {}
    BY <1>2, <2>1 DEF N
  <2>3. Waiting' \cup Ready' \cup Frames' \subseteq 1..N
    BY <1>1, <2>1
  <2>4. \A i \in Frames' : buffer_vec'[i] # {} /\ ctx'.fd
    BY <1>2, <2>1 DEF N
  <2>5. queue' # <<>> \/ filled' # <<>> => ctx'.fd
    <3>1. CASE ctx' = ctx /\ queue' = queue
      BY <1>1, <2>1, <3>1
    <3>2. CASE ctx' = ctx /\ Frames # {}
      BY <2>1, <3>2
    <3>3. CASE ctx' = Closed /\ queue' = <<>> /\ ~vec
      BY <1>1, <2>1, <3>3
    <3>4. Frames = {} => ctx' = ctx /\ queue' = queue
      BY <1>2 DEF devVars
    <3>5. Frames # {} /\ ctx' # ctx => ctx' = Closed /\ queue' = <<>> /\ ~vec
      BY <1>2
    <3> QED BY <3>1, <3>2, <3>3, <3>4, <3>5
  <2>6. /\ ~ctx'.started => filled' = <<>>
        /\ ~vec' => ~ctx'.started
    BY <1>1, <1>2, <2>1 DEF Closed
  <2>7. ~vec' /\ Frames' = {} => ctx' = Closed /\ \A i \in 1..N : buffer_vec'[i] = {}
    BY <1>2, <2>1 DEF N, devVars
  <2>8. Len(buffer_vec') = N
    BY <1>2 DEF N
  <2> QED BY <2>2, <2>3, <2>4, <2>5, <2>6, <2>7, <2>8 DEF Backed
<1>11. NoneMissing'
  <2>1. app' \in Building => app \in Building /\ vec
    BY DEF Passes, DevInv, OpenInv, Building, Live
  <2> QED BY <1>1, <1>4, <2>1 DEF DevInv, NoneMissing, Passes
<1> QED BY <1>7, <1>8, <1>9, <1>10, <1>11 DEF DevInv

\* The filled buffers after one more is, and after the first has been taken.
LEMMA FilledFacts ==
  ASSUME NEW S, NEW s \in Seq([index : S, bytes : BOOLEAN]),
         \A i, j \in 1..Len(s) : s[i].index = s[j].index => i = j
  PROVE  /\ \A x \in [index : S, bytes : BOOLEAN] :
              x.index \notin {b.index : b \in ToSet(s)} =>
                /\ Append(s, x) \in Seq([index : S, bytes : BOOLEAN])
                /\ {b.index : b \in ToSet(Append(s, x))} = {b.index : b \in ToSet(s)} \cup {x.index}
                /\ \A i, j \in 1..Len(Append(s, x)) :
                     Append(s, x)[i].index = Append(s, x)[j].index => i = j
         /\ s # <<>> =>
              /\ Head(s) \in [index : S, bytes : BOOLEAN]
              /\ Tail(s) \in Seq([index : S, bytes : BOOLEAN])
              /\ {b.index : b \in ToSet(s)} = {Head(s).index} \cup {b.index : b \in ToSet(Tail(s))}
              /\ Head(s).index \notin {b.index : b \in ToSet(Tail(s))}
              /\ \A i, j \in 1..Len(Tail(s)) : Tail(s)[i].index = Tail(s)[j].index => i = j
<1> DEFINE B == [index : S, bytes : BOOLEAN]
<1> HIDE DEF B
<1>0. s \in Seq(B) /\ Len(s) \in Nat /\ DOMAIN s = 1..Len(s)
  BY LenProperties DEF B
<1>1. ASSUME NEW x \in B, x.index \notin {b.index : b \in ToSet(s)}
      PROVE  /\ Append(s, x) \in Seq(B)
             /\ {b.index : b \in ToSet(Append(s, x))} = {b.index : b \in ToSet(s)} \cup {x.index}
             /\ \A i, j \in 1..Len(Append(s, x)) :
                  Append(s, x)[i].index = Append(s, x)[j].index => i = j
  <2>1. /\ Append(s, x) \in Seq(B) /\ Len(Append(s, x)) = Len(s) + 1
        /\ Append(s, x)[Len(s) + 1] = x /\ \A i \in 1..Len(s) : Append(s, x)[i] = s[i]
    BY <1>0, AppendProperties
  <2>2. ToSet(Append(s, x)) = ToSet(s) \cup {x}
    BY <1>0, ToSetFacts
  <2>3. \A i \in 1..Len(s) : s[i].index # x.index
    BY <1>0, <1>1 DEF ToSet
  <2>4. ASSUME NEW i \in 1..(Len(s) + 1), NEW j \in 1..(Len(s) + 1),
               Append(s, x)[i].index = Append(s, x)[j].index
        PROVE  i = j
    <3>1. i \in 1..Len(s) \/ i = Len(s) + 1
      BY <1>0
    <3>2. j \in 1..Len(s) \/ j = Len(s) + 1
      BY <1>0
    <3> QED BY <2>1, <2>3, <2>4, <3>1, <3>2
  <2> QED BY <2>1, <2>2, <2>4
<1>2. ASSUME s # <<>>
      PROVE  /\ Head(s) \in B /\ Tail(s) \in Seq(B)
             /\ {b.index : b \in ToSet(s)} = {Head(s).index} \cup {b.index : b \in ToSet(Tail(s))}
             /\ Head(s).index \notin {b.index : b \in ToSet(Tail(s))}
             /\ \A i, j \in 1..Len(Tail(s)) : Tail(s)[i].index = Tail(s)[j].index => i = j
  <2>1. /\ Head(s) \in B /\ Tail(s) \in Seq(B) /\ Head(s) = s[1]
        /\ Len(Tail(s)) = Len(s) - 1 /\ \A i \in 1..Len(Tail(s)) : Tail(s)[i] = s[i + 1]
    BY <1>0, <1>2, HeadTailProperties
  <2>2. ToSet(s) = {Head(s)} \cup ToSet(Tail(s))
    BY <1>0, <1>2, <2>1, ToSetFacts
  <2>3. DOMAIN Tail(s) = 1..(Len(s) - 1) /\ Len(s) \in Nat \ {0}
    BY <1>0, <1>2, <2>1, LenProperties, EmptySeq
  <2>4. \A i \in 1..(Len(s) - 1) : i + 1 \in 1..Len(s) /\ i + 1 # 1 /\ 1 \in 1..Len(s)
    BY <2>3
  <2>5. ASSUME NEW i \in 1..(Len(s) - 1), NEW j \in 1..(Len(s) - 1),
               Tail(s)[i].index = Tail(s)[j].index
        PROVE  i = j
    <3>1. s[i + 1].index = s[j + 1].index
      BY <2>1, <2>5
    <3>2. i + 1 = j + 1
      BY <2>4, <3>1
    <3> QED BY <3>2
  <2>6. \A i \in 1..(Len(s) - 1) : Tail(s)[i].index # s[1].index
    BY <2>1, <2>4
  <2>7. Head(s).index \notin {b.index : b \in ToSet(Tail(s))}
    BY <2>1, <2>3, <2>6 DEF ToSet
  <2> QED BY <2>1, <2>2, <2>5, <2>7
<1> QED BY <1>1, <1>2 DEF B

\* The driver fills a buffer.
LEMMA DevFills ==
  ASSUME DevInv, NEW bytes \in BOOLEAN, Fill(bytes), Frames' = Frames, UNCHANGED <<app, stops>>
  PROVE  DevInv'
<1> DEFINE x == [index |-> Head(queue), bytes |-> bytes]
<1>1. /\ ctx.started /\ queue # <<>> /\ queue' = Tail(queue) /\ filled' = Append(filled, x)
      /\ NoFault \/ Fault
      /\ UNCHANGED <<setup, step, next, count, buffer_vec, vec, ctx, started, lost>>
  BY DEF Fill, openVars
<1>2. /\ queue \in Seq(Indices) /\ IsInjective(queue)
      /\ filled \in Seq([index : Indices, bytes : BOOLEAN])
      /\ \A i, j \in 1..Len(filled) : filled[i].index = filled[j].index => i = j
      /\ Waiting \cap Ready = {}
      /\ (Waiting \cup Ready) \cap (Frames \cup lost) = {} /\ Frames \cap lost = {}
  BY DEF DevInv, DevTypes, Apart
<1>3. /\ Head(queue) \in Indices /\ Tail(queue) \in Seq(Indices)
      /\ Waiting = {Head(queue)} \cup Waiting'
  BY <1>1, <1>2, ToSetFacts DEF Waiting
<1>4. IsInjective(queue') /\ Head(queue) \notin Waiting'
  BY <1>1, <1>2, InjectiveTail DEF Waiting
<1>5. x \in [index : Indices, bytes : BOOLEAN] /\ x.index = Head(queue)
  BY <1>3
<1> HIDE DEF x
<1>6. Head(queue) \notin Ready
  BY <1>2, <1>3
<1>7. /\ filled' \in Seq([index : Indices, bytes : BOOLEAN])
      /\ Ready' = Ready \cup {Head(queue)}
      /\ \A i, j \in 1..Len(filled') : filled'[i].index = filled'[j].index => i = j
  <2> DEFINE B == [index : Indices, bytes : BOOLEAN]
  <2>1. filled \in Seq(B) /\ x \in B
    BY <1>2, <1>5
  <2> HIDE DEF B
  <2>2. x.index \notin {b.index : b \in ToSet(filled)}
    BY <1>5, <1>6 DEF Ready
  <2>3. /\ Append(filled, x) \in Seq(B)
        /\ {b.index : b \in ToSet(Append(filled, x))}
             = {b.index : b \in ToSet(filled)} \cup {x.index}
        /\ \A i, j \in 1..Len(Append(filled, x)) :
             Append(filled, x)[i].index = Append(filled, x)[j].index => i = j
    BY <1>2, <2>1, <2>2, FilledFacts DEF B
  <2>4. filled' \in Seq(B) /\ Ready' = Ready \cup {Head(queue)}
    BY <1>1, <1>5, <2>3 DEF Ready
  <2>5. \A i, j \in 1..Len(filled') : filled'[i].index = filled'[j].index => i = j
    BY <1>1, <2>3
  <2> QED BY <2>4, <2>5 DEF B
<1>8. Indices' = Indices /\ memory_type' = memory_type
  BY <1>1 DEF Indices, memory_type
<1>9. DevTypes'
  BY <1>1, <1>3, <1>7, <1>8, FaultTypes DEF DevInv, DevTypes
<1>10. OpenInv'
  <2>1. step = "open" /\ app # "source"
    BY <1>1 DEF DevInv, OpenInv
  <2> QED BY <1>1, <2>1, Zenon DEF DevInv, OpenInv, Before
<1>11. Apart'
  BY <1>1, <1>2, <1>3, <1>4, <1>7 DEF Apart
<1>12. Backed'
  BY <1>1, <1>3, <1>7 DEF DevInv, Backed
<1>13. NoneMissing'
  BY <1>1, <1>3, <1>7, <1>8 DEF DevInv, NoneMissing
<1> QED BY <1>9, <1>10, <1>11, <1>12, <1>13 DEF DevInv

\* The stream is switched on.
LEMMA DevStarts ==
  ASSUME DevInv, app \in Live, SetStarted, Frames' = Frames, UNCHANGED <<app, stops>>
  PROVE  DevInv'
<1>1. CASE UNCHANGED <<openVars, devVars>> /\ (NoFault \/ Fault)
  BY <1>1, DevKept DEF Passes
<1>2. CASE /\ ~started
           /\ started' = TRUE /\ ctx' = StartStreaming(ctx) /\ NoFault
           /\ UNCHANGED <<openVars, buffer_vec, vec, queue, filled, lost>>
  <2>1. /\ UNCHANGED <<setup, step, next, count, buffer_vec, vec, queue, filled, lost, faults>>
        /\ started' \in BOOLEAN
    BY <1>2 DEF openVars, NoFault
  <2>2. vec /\ step = "open" /\ app # "source"
    BY DEF DevInv, OpenInv, Live
  <2>3. ctx \in Contexts /\ ctx.fd
    BY <2>2 DEF DevInv, DevTypes, OpenInv, Steps
  <2>4. ctx' \in Contexts /\ ctx'.started /\ ctx'.fd
    BY <1>2, <2>3, ContextTypes DEF StartStreaming
  <2>5. Indices' = Indices /\ memory_type' = memory_type /\ Waiting' = Waiting /\ Ready' = Ready
    BY <2>1 DEF Indices, memory_type, Waiting, Ready
  <2>6. DevTypes'
    BY <2>1, <2>4, <2>5 DEF DevInv, DevTypes
  <2>7. OpenInv'
    BY <2>1, <2>2, <2>4 DEF DevInv, OpenInv, Before
  <2>8. Apart'
    BY <2>1, <2>5 DEF DevInv, Apart
  <2>9. Backed'
    BY <2>1, <2>2, <2>4, <2>5 DEF DevInv, Backed
  <2>10. NoneMissing'
    BY <2>1, <2>5 DEF DevInv, NoneMissing
  <2> QED BY <2>6, <2>7, <2>8, <2>9, <2>10 DEF DevInv
<1>3. started => UNCHANGED <<openVars, devVars>> /\ NoFault
  BY DEF SetStarted, capVars, NoFault
<1> QED BY <1>1, <1>2, <1>3, Zenon DEF SetStarted

\* The driver has nothing any more.
LEMMA NothingQueued ==
  ASSUME queue' = <<>> /\ filled' = <<>>
  PROVE  /\ queue' \in Seq(Indices) /\ filled' \in Seq([index : Indices, bytes : BOOLEAN])
         /\ Waiting' = {} /\ Ready' = {} /\ IsInjective(queue')
         /\ \A i, j \in 1..Len(filled') : filled'[i].index = filled'[j].index => i = j
<1>1. Waiting' = {} /\ Ready' = {}
  BY ToSetEmpty DEF Waiting, Ready
<1>2. IsInjective(queue')
  BY DEF IsInjective
<1>3. \A i, j \in 1..Len(filled') : filled'[i].index = filled'[j].index => i = j
  BY EmptySeq
<1> QED BY <1>1, <1>2, <1>3, EmptySeq

\* The stream is switched off, by the application or its destructor.
LEMMA DevSwitchedOff ==
  ASSUME DevInv, app \in Live, app' \in Live, StreamOff, Frames' = Frames,
         app' \notin Building \/ stops' # 0
  PROVE  DevInv'
<1>1. /\ UNCHANGED <<setup, step, next, count, buffer_vec, vec, started, lost, faults>>
      /\ ctx' = [ctx EXCEPT !.started = FALSE]
  BY DEF StreamOff, openVars
<1>2. vec /\ step = "open" /\ app' # "source"
  BY DEF DevInv, OpenInv, Live
<1>3. ctx \in Contexts /\ ctx.fd
  BY <1>2 DEF DevInv, DevTypes, OpenInv, Steps
<1>4. ctx' \in Contexts /\ ~ctx'.started /\ ctx'.fd
  BY <1>1, <1>3, ContextTypes
<1>5. Indices' = Indices
  BY <1>1 DEF Indices
<1>6. \/ queue' = <<>> /\ filled' = <<>>
      \/ queue' = queue /\ filled' = filled /\ filled = <<>>
  BY DEF StreamOff, DevInv, Backed
<1>7. /\ queue' \in Seq(Indices) /\ filled' \in Seq([index : Indices, bytes : BOOLEAN])
      /\ Waiting' \subseteq Waiting /\ Ready' \subseteq Ready /\ IsInjective(queue')
      /\ \A i, j \in 1..Len(filled') : filled'[i].index = filled'[j].index => i = j
  <2>1. CASE queue' = <<>> /\ filled' = <<>>
    BY <2>1, NothingQueued
  <2>2. CASE queue' = queue /\ filled' = filled
    BY <2>2 DEF DevInv, DevTypes, Apart, Waiting, Ready
  <2> QED BY <1>6, <2>1, <2>2
<1>8. DevTypes'
  BY <1>1, <1>4, <1>5, <1>7 DEF DevInv, DevTypes
<1>9. OpenInv'
  BY <1>1, <1>2, <1>4 DEF DevInv, OpenInv, Before
<1>10. Apart'
  BY <1>1, <1>7 DEF DevInv, Apart
<1>11. filled' = <<>>
  BY <1>6
<1>12. Backed'
  BY <1>1, <1>2, <1>4, <1>7, <1>11 DEF DevInv, Backed
<1>13. NoneMissing'
  BY DEF NoneMissing
<1> QED BY <1>8, <1>9, <1>10, <1>12, <1>13 DEF DevInv

\* The stream goes, and what has not been lent goes with it.
LEMMA DevCloses ==
  ASSUME DevInv, app \in Live, app' \in Gone, CloseStream(Frames), Frames' = Frames
  PROVE  DevInv'
<1>1. /\ UNCHANGED <<setup, step, next, count, lost, faults>>
      /\ vec' = FALSE /\ started' = FALSE /\ buffer_vec' = Kept(Frames)
      /\ ctx' = IF Frames = {} THEN Closed ELSE [ctx EXCEPT !.started = FALSE, !.stream = FALSE]
  BY DEF CloseStream, openVars
<1>2. vec /\ step = "open" /\ app' # "source" /\ app' \notin Live /\ app' \notin Building
  BY DEF DevInv, OpenInv, Live, Gone, Building
<1>3. ctx \in Contexts /\ ctx.fd /\ buffer_vec \in Seq(SUBSET Resources)
  BY <1>2 DEF DevInv, DevTypes, OpenInv, Steps
<1>4. ctx' \in Contexts /\ ~ctx'.started /\ (Frames # {} => ctx'.fd)
  <2>1. CASE Frames = {}
    BY <1>1, <2>1, ContextTypes DEF Closed
  <2>2. CASE Frames # {}
    BY <1>1, <1>3, <2>2, ContextTypes
  <2> QED BY <2>1, <2>2
<1>5. Indices' = Indices
  BY <1>1 DEF Indices
<1>6. \/ queue' = <<>> /\ filled' = <<>>
      \/ queue' = queue /\ filled' = filled /\ filled = <<>> /\ Frames # {}
  BY DEF CloseStream, DevInv, Backed
<1>7. /\ queue' \in Seq(Indices) /\ filled' \in Seq([index : Indices, bytes : BOOLEAN])
      /\ Waiting' \subseteq Waiting /\ Ready' \subseteq Ready /\ IsInjective(queue')
      /\ \A i, j \in 1..Len(filled') : filled'[i].index = filled'[j].index => i = j
  <2>1. CASE queue' = <<>> /\ filled' = <<>>
    BY <2>1, NothingQueued
  <2>2. CASE queue' = queue /\ filled' = filled
    BY <2>2 DEF DevInv, DevTypes, Apart, Waiting, Ready
  <2> QED BY <1>6, <2>1, <2>2
<1>8. /\ buffer_vec' \in Seq(SUBSET Resources) /\ Len(buffer_vec') = Len(buffer_vec)
      /\ \A i \in 1..Len(buffer_vec) : buffer_vec'[i] = IF i \in Frames THEN buffer_vec[i] ELSE {}
  BY <1>1, <1>3, KeptFacts
<1>9. DevTypes'
  BY <1>1, <1>4, <1>5, <1>7, <1>8 DEF DevInv, DevTypes
<1>10. OpenInv'
  BY <1>1, <1>2, <1>4 DEF DevInv, OpenInv, Before
<1>11. Apart'
  BY <1>1, <1>7 DEF DevInv, Apart
<1>12. Backed'
  <2>1. filled' = <<>> /\ (queue' # <<>> => ctx'.fd)
    BY <1>4, <1>6
  <2>2. \A i \in Frames' : buffer_vec'[i] # {} /\ ctx'.fd
    BY <1>4, <1>8 DEF DevInv, Backed
  <2>3. Frames' = {} => ctx' = Closed /\ \A i \in 1..Len(buffer_vec) : buffer_vec'[i] = {}
    BY <1>1, <1>8
  <2>4. Waiting' \cup Ready' \cup Frames' \subseteq 1..Len(buffer_vec)
    BY <1>7 DEF DevInv, Backed
  <2> QED BY <1>1, <1>4, <1>8, <2>1, <2>2, <2>3, <2>4 DEF Backed
<1>13. NoneMissing'
  BY <1>2 DEF NoneMissing
<1> QED BY <1>9, <1>10, <1>11, <1>12, <1>13 DEF DevInv

\* What the first of the filled buffers leaves behind.
LEMMA FilledTail ==
  ASSUME DevInv, filled # <<>>, filled' = Tail(filled)
  PROVE  /\ filled' \in Seq([index : Indices, bytes : BOOLEAN])
         /\ Head(filled).index \in Indices
         /\ Ready = {Head(filled).index} \cup Ready' /\ Head(filled).index \notin Ready'
         /\ \A i, j \in 1..Len(filled') : filled'[i].index = filled'[j].index => i = j
<1> DEFINE B == [index : Indices, bytes : BOOLEAN]
<1>1. /\ filled \in Seq([index : Indices, bytes : BOOLEAN])
      /\ \A i, j \in 1..Len(filled) : filled[i].index = filled[j].index => i = j
  BY DEF DevInv, DevTypes, Apart
<1>2. /\ Head(filled) \in B /\ Tail(filled) \in Seq(B)
      /\ {b.index : b \in ToSet(filled)}
           = {Head(filled).index} \cup {b.index : b \in ToSet(Tail(filled))}
      /\ Head(filled).index \notin {b.index : b \in ToSet(Tail(filled))}
      /\ \A i, j \in 1..Len(Tail(filled)) : Tail(filled)[i].index = Tail(filled)[j].index => i = j
  BY <1>1, FilledFacts
<1>3. Head(filled).index \in Indices
  BY <1>2
<1> HIDE DEF B
<1>4. Ready = {Head(filled).index} \cup Ready' /\ Head(filled).index \notin Ready'
  BY <1>2 DEF Ready
<1>5. \A i, j \in 1..Len(filled') : filled'[i].index = filled'[j].index => i = j
  BY <1>2
<1> QED BY <1>2, <1>3, <1>4, <1>5 DEF B

\* A filled buffer is lent.
LEMMA DevLends ==
  ASSUME DevInv, app \in Live, ctx.started, filled # <<>>, filled' = Tail(filled),
         UNCHANGED <<openVars, faults, queue, lost, buffer_vec, vec, ctx, started>>,
         Frames' = Frames \cup {Head(filled).index}, UNCHANGED <<app, stops>>
  PROVE  DevInv'
<1> DEFINE x == Head(filled).index
<1>1. /\ filled' \in Seq([index : Indices, bytes : BOOLEAN]) /\ x \in Indices
      /\ Ready = {x} \cup Ready' /\ x \notin Ready'
      /\ \A i, j \in 1..Len(filled') : filled'[i].index = filled'[j].index => i = j
  BY FilledTail
<1>2. Frames' = Frames \cup {x}
  OBVIOUS
<1> HIDE DEF x
<1>3. UNCHANGED <<setup, step, next, count, faults, queue, lost, buffer_vec, vec, ctx, started>>
  BY DEF openVars
<1>4. Indices' = Indices /\ memory_type' = memory_type /\ Waiting' = Waiting
  BY <1>3 DEF Indices, memory_type, Waiting
<1>5. vec /\ step = "open" /\ app # "source" /\ ctx.fd
  <2>1. vec /\ step = "open" /\ app # "source"
    BY DEF DevInv, OpenInv, Live
  <2> QED BY <2>1 DEF DevInv, OpenInv, Steps
<1>6. /\ Waiting \cap Ready = {}
      /\ (Waiting \cup Ready) \cap (Frames \cup lost) = {} /\ Frames \cap lost = {}
      /\ IsInjective(queue)
  BY DEF DevInv, Apart
<1>7. DevTypes'
  BY <1>1, <1>3, <1>4 DEF DevInv, DevTypes
<1>8. OpenInv'
  BY <1>3, <1>5, OpenOver
<1>9. Apart'
  <2>1. Waiting' \cap Ready' = {}
    BY <1>1, <1>4, <1>6
  <2>2. (Waiting' \cup Ready') \cap (Frames' \cup lost') = {}
    BY <1>1, <1>2, <1>3, <1>4, <1>6
  <2>3. Frames' \cap lost' = {}
    BY <1>1, <1>2, <1>3, <1>6
  <2> QED BY <1>1, <1>3, <1>6, <2>1, <2>2, <2>3 DEF Apart
<1>10. Backed'
  <2>1. x \in 1..Len(buffer_vec) /\ Waiting \cup Ready \cup Frames \subseteq 1..Len(buffer_vec)
    BY <1>1 DEF DevInv, Backed
  <2>2. \A i \in 1..Len(buffer_vec) : buffer_vec[i] # {}
    BY <1>5 DEF DevInv, Backed
  <2>3. Waiting' \cup Ready' \cup Frames' \subseteq 1..Len(buffer_vec)
    BY <1>1, <1>2, <1>4, <2>1
  <2> QED BY <1>3, <1>5, <2>2, <2>3, BackedOver
<1>11. NoneMissing'
  BY <1>1, <1>2, <1>3, <1>4 DEF DevInv, NoneMissing
<1> QED BY <1>7, <1>8, <1>9, <1>10, <1>11 DEF DevInv

\* A filled buffer without content is put back.
LEMMA DevRequeues ==
  ASSUME DevInv, app \in Live, ctx.started, filled # <<>>, filled' = Tail(filled),
         NEW fails \in BOOLEAN, QBUF({Head(filled).index}, fails), NoFault \/ Fault,
         UNCHANGED <<openVars, buffer_vec, vec, ctx, started>>,
         Frames' = Frames, UNCHANGED <<app, stops>>
  PROVE  DevInv'
<1> DEFINE x == Head(filled).index
<1>1. /\ filled' \in Seq([index : Indices, bytes : BOOLEAN]) /\ x \in Indices
      /\ Ready = {x} \cup Ready' /\ x \notin Ready'
      /\ \A i, j \in 1..Len(filled') : filled'[i].index = filled'[j].index => i = j
  BY FilledTail
<1>2. QBUF({x}, fails)
  OBVIOUS
<1> HIDE DEF x
<1>3. UNCHANGED <<setup, step, next, count, buffer_vec, vec, ctx, started>>
  BY DEF openVars
<1>4. Indices' = Indices /\ memory_type' = memory_type
  BY <1>3 DEF Indices, memory_type
<1>5. vec /\ step = "open" /\ app # "source" /\ ctx.fd
  <2>1. vec /\ step = "open" /\ app # "source"
    BY DEF DevInv, OpenInv, Live
  <2> QED BY <2>1 DEF DevInv, OpenInv, Steps
<1>6. /\ Waiting \cap Ready = {}
      /\ (Waiting \cup Ready) \cap (Frames \cup lost) = {} /\ Frames \cap lost = {}
      /\ IsInjective(queue) /\ queue \in Seq(Indices) /\ count \in Nat
  BY DEF DevInv, DevTypes, Apart
<1>7. {x} \in SUBSET Indices /\ {x} \cap Waiting = {}
  BY <1>1, <1>6
<1>8. /\ queue' \in Seq(Indices) /\ IsInjective(queue')
      /\ \/ queue' = queue /\ Waiting' = Waiting /\ lost' = lost \cup {x}
         \/ Waiting' = Waiting \cup {x} /\ lost' = lost
  <2> DEFINE free == {x}
  <2>1. free \in SUBSET Indices /\ free \cap Waiting = {} /\ QBUF(free, fails)
    BY <1>2, <1>7
  <2> HIDE DEF free
  <2>2. /\ queue' \in Seq(Indices) /\ IsInjective(queue')
        /\ \/ queue' = queue /\ Waiting' = Waiting /\ lost' = lost \cup free
           \/ Waiting' = Waiting \cup free /\ lost' = lost
    BY <1>6, <2>1, QBUFFacts
  <2> QED BY <2>2 DEF free
<1>9. DevTypes'
  BY <1>1, <1>3, <1>4, <1>8, FaultTypes DEF DevInv, DevTypes
<1>10. OpenInv'
  BY <1>3, <1>5, OpenOver
<1>11. Apart'
  BY <1>1, <1>6, <1>8 DEF Apart
<1>12. Backed'
  BY <1>1, <1>3, <1>5, <1>8 DEF DevInv, Backed
<1>13. NoneMissing'
  BY <1>1, <1>3, <1>4, <1>8 DEF DevInv, NoneMissing
<1> QED BY <1>9, <1>10, <1>11, <1>12, <1>13 DEF DevInv

-----------------------------------------------------------------------------
(* Open.                                                                   *)

\* The numbers from 1 to n in a row.
LEMMA CountingFacts ==
  ASSUME NEW n \in Nat
  PROVE  /\ Counting(n) \in Seq(1..n) /\ Len(Counting(n)) = n
         /\ ToSet(Counting(n)) = 1..n /\ IsInjective(Counting(n))
         /\ n = 0 => Counting(n) = <<>>
         /\ Append(Counting(n), n + 1) = Counting(n + 1)
<1>1. Counting(n) \in [1..n -> 1..n] /\ DOMAIN Counting(n) = 1..n
  BY DEF Counting
<1>2. Counting(n) \in Seq(1..n)
  BY <1>1, SeqDef
<1>3. Len(Counting(n)) = n
  BY <1>1, <1>2, LenProperties
<1>4. ToSet(Counting(n)) = 1..n /\ IsInjective(Counting(n))
  BY DEF Counting, ToSet, IsInjective
<1>5. n = 0 => Counting(n) = <<>>
  BY <1>2, <1>3, EmptySeq
<1>6. Append(Counting(n), n + 1) = Counting(n + 1)
  <2>1. Counting(n) \in Seq(Nat)
    BY <1>1, SeqDef
  <2>2. /\ Append(Counting(n), n + 1) \in Seq(Nat) /\ Len(Append(Counting(n), n + 1)) = n + 1
        /\ \A i \in 1..n : Append(Counting(n), n + 1)[i] = Counting(n)[i]
        /\ Append(Counting(n), n + 1)[n + 1] = n + 1
    BY <1>3, <2>1, AppendProperties
  <2>3. Counting(n + 1) \in [1..(n + 1) -> Nat] /\ n + 1 \in Nat
    BY DEF Counting
  <2>4. Counting(n + 1) \in Seq(Nat) /\ Len(Counting(n + 1)) = n + 1
    BY <2>3, SeqDef, LenProperties
  <2>5. \A i \in 1..(n + 1) : Append(Counting(n), n + 1)[i] = Counting(n + 1)[i]
    BY <2>2 DEF Counting
  <2> QED BY <2>2, <2>4, <2>5, SeqEqual
<1> QED BY <1>2, <1>3, <1>4, <1>5, <1>6

\* The kinds of memory there are.
LEMMA MemoryTypes == memory_type \in {"MMAP", "USERPTR", "OVERLAY", "DMABUF", "0"}
BY DEF memory_type, GetV4L2Type

\* While Open is at work nothing is filled, lent or lost.
LEMMA OpenedParts ==
  ASSUME app' = "source", Frames' = {}, filled' = <<>>, lost' = {}, ~ctx'.started,
         IsInjective(queue'), Waiting' \subseteq 1..Len(buffer_vec'),
         vec' => \A i \in 1..Len(buffer_vec') : buffer_vec'[i] # {},
         queue' # <<>> => ctx'.fd,
         ~vec' => ctx' = Closed /\ \A i \in 1..Len(buffer_vec') : buffer_vec'[i] = {}
  PROVE  Apart' /\ Backed' /\ NoneMissing'
<1>1. Ready' = {}
  BY ToSetEmpty DEF Ready
<1>2. Apart'
  <2>1. \A i, j \in 1..Len(filled') : filled'[i].index = filled'[j].index => i = j
    BY EmptySeq
  <2> QED BY <1>1, <2>1 DEF Apart
<1>3. Backed'
  BY <1>1 DEF Backed
<1>4. NoneMissing'
  BY DEF NoneMissing, Building
<1> QED BY <1>2, <1>3, <1>4

\* What holds before a step of Open, and what none of them changes.
LEMMA OpenedBefore ==
  ASSUME DevInv, app = "source", UNCHANGED graphVars, Open
  PROVE  /\ Frames = {} /\ Frames' = {} /\ app' = "source" /\ stops' = stops
         /\ filled = <<>> /\ filled' = <<>> /\ lost = {} /\ lost' = {} /\ ~ctx.started
         /\ setup' = setup /\ memory_type' = memory_type
         /\ count \in Nat /\ queue \in Seq(Indices) /\ IsInjective(queue)
         /\ buffer_vec \in Seq(SUBSET Resources) /\ Len(buffer_vec) \in Nat
         /\ Waiting \subseteq 1..Len(buffer_vec)
         /\ vec => \A i \in 1..Len(buffer_vec) : buffer_vec[i] # {}
<1>1. /\ Frames = {} /\ filled = <<>> /\ lost = {} /\ ~ctx.started
  BY DEF DevInv, OpenInv
<1>2. Frames' = Frames /\ app' = app /\ stops' = stops
  BY DEF graphVars, appVars, sourceVars, filterVars, sinkVars, Frames
<1>3. filled' = filled /\ lost' = lost /\ setup' = setup
  BY DEF Open, OpenNew, OpenDevice, QueryCap, SetFormat, RequestBuffers, AllocBuffer, MapBuffer,
         QueueBuffer, DeleteUnopened, Goto, Fails, Onward, devVars, openVars
<1>4. memory_type' = memory_type
  BY <1>3 DEF memory_type
<1>5. Len(buffer_vec) \in Nat /\ buffer_vec \in Seq(SUBSET Resources)
  BY LenProperties DEF DevInv, DevTypes
<1> QED BY <1>1, <1>2, <1>3, <1>4, <1>5 DEF DevInv, DevTypes, Apart, Backed

\* A step of Open that only says where to go on.
LEMMA OpenGoesOn ==
  ASSUME DevInv, app = "source", UNCHANGED graphVars, Open, UNCHANGED devVars, NoFault \/ Fault,
         NEW s, Goto(s), step # "open",
         s = "failed" \/ (s \in Before /\ step \in Before /\ (ctx.fd \/ s = "device"))
  PROVE  DevInv'
<1>1. /\ Frames = {} /\ Frames' = {} /\ app' = "source" /\ stops' = stops
      /\ filled = <<>> /\ lost = {} /\ ~ctx.started /\ memory_type' = memory_type
  BY OpenedBefore
<1>2. /\ step' = s /\ UNCHANGED <<setup, next, count>>
      /\ UNCHANGED <<buffer_vec, vec, ctx, started, queue, filled, lost>>
  BY DEF Goto, devVars
<1>3. Indices' = Indices /\ Waiting' = Waiting /\ Ready' = Ready /\ s \in Steps
  BY <1>2 DEF Indices, Waiting, Ready, Steps, Before
<1>4. DevTypes'
  BY <1>2, <1>3, FaultTypes DEF DevInv, DevTypes
<1>5. OpenInv'
  <2>1. s \notin {"memory", "queue", "open"} /\ app' \notin Live
    BY <1>1 DEF Before, Live
  <2>2. vec' \/ step' = "failed"
    BY <1>2 DEF DevInv, OpenInv, Before
  <2>3. step' \in Before => buffer_vec' = <<>> /\ queue' = <<>> /\ next' = 1
    BY <1>2 DEF DevInv, OpenInv, Before
  <2> QED BY <1>1, <1>2, <2>1, <2>2, <2>3 DEF OpenInv
<1>6. Apart' /\ Backed'
  BY <1>1, <1>2, <1>3 DEF DevInv, Apart, Backed
<1>7. NoneMissing'
  BY <1>1 DEF NoneMissing, Building
<1> QED BY <1>4, <1>5, <1>6, <1>7 DEF DevInv

\* Up to the format only the place changes, but for the device.
LEMMA DevOpensEarly ==
  ASSUME DevInv, app = "source", UNCHANGED graphVars,
         OpenNew \/ OpenDevice \/ QueryCap \/ SetFormat
  PROVE  DevInv'
<1>0. Open
  BY DEF Open
<1>1. /\ Frames = {} /\ Frames' = {} /\ app' = "source" /\ stops' = stops
      /\ filled = <<>> /\ filled' = <<>> /\ lost = {} /\ lost' = {} /\ ~ctx.started
      /\ memory_type' = memory_type
  BY <1>0, OpenedBefore
<1>2. CASE OpenNew
  <2>1. UNCHANGED devVars /\ NoFault /\ step = "new" /\ \E s \in {"device", "failed"} : Goto(s)
    BY <1>2 DEF OpenNew, NoFault
  <2> QED BY <1>0, <2>1, OpenGoesOn DEF Before
<1>3. ASSUME Fails, step # "open"
      PROVE  DevInv'
  BY <1>0, <1>3, OpenGoesOn DEF Fails
<1>4. CASE OpenDevice
  <2>1. CASE Fails
    BY <1>3, <1>4, <2>1 DEF OpenDevice
  <2>2. CASE /\ ctx' = [fd |-> TRUE, started |-> FALSE, stream |-> TRUE]
             /\ Goto("caps") /\ NoFault
             /\ UNCHANGED <<buffer_vec, vec, started, queue, filled, lost>>
    <3>1. /\ step = "device" /\ step' = "caps" /\ UNCHANGED <<setup, next, count, faults>>
          /\ ctx' \in Contexts /\ ctx'.fd /\ ~ctx'.started
      BY <1>4, <2>2 DEF OpenDevice, Goto, NoFault, Contexts
    <3>2. buffer_vec = <<>> /\ queue = <<>> /\ next = 1 /\ vec
      BY <3>1 DEF DevInv, OpenInv, Before
    <3>3. Indices' = Indices /\ Waiting' = {} /\ Len(buffer_vec') = 0
      BY <2>2, <3>1, <3>2, ToSetEmpty, EmptySeq DEF Indices, Waiting
    <3>4. DevTypes'
      BY <2>2, <3>1, <3>3 DEF DevInv, DevTypes, Steps
    <3>5. OpenInv'
      BY <1>1, <2>2, <3>1, <3>2 DEF OpenInv, Live
    <3>6. Apart' /\ Backed' /\ NoneMissing'
      <4>1. IsInjective(queue')
        BY <2>2, <3>2 DEF IsInjective
      <4>2. \A i \in 1..Len(buffer_vec') : buffer_vec'[i] # {}
        BY <3>3
      <4> QED BY <1>1, <2>2, <3>1, <3>2, <3>3, <4>1, <4>2, OpenedParts
    <3> QED BY <3>4, <3>5, <3>6 DEF DevInv
  <2> QED BY <1>4, <2>1, <2>2 DEF OpenDevice
<1>5. CASE QueryCap
  <2>1. CASE Fails
    BY <1>3, <1>5, <2>1 DEF QueryCap
  <2>2. CASE Goto("format") /\ NoFault /\ UNCHANGED devVars
    <3>1. step = "caps" /\ ctx.fd
      BY <1>5 DEF QueryCap, DevInv, OpenInv, Steps, Before
    <3> QED BY <1>0, <2>2, <3>1, OpenGoesOn DEF Before
  <2> QED BY <1>5, <2>1, <2>2 DEF QueryCap
<1>6. CASE SetFormat
  <2>1. CASE Fails
    BY <1>3, <1>6, <2>1 DEF SetFormat
  <2>2. CASE NoFault /\ UNCHANGED devVars /\ \E s \in {"failed", "request"} : Goto(s)
    <3>1. step = "format" /\ ctx.fd
      BY <1>6 DEF SetFormat, DevInv, OpenInv, Steps, Before
    <3> QED BY <1>0, <2>2, <3>1, OpenGoesOn DEF Before
  <2> QED BY <1>6, <2>1, <2>2 DEF SetFormat
<1> QED BY <1>2, <1>4, <1>5, <1>6

\* The driver grants buffers, or none.
LEMMA DevRequests ==
  ASSUME DevInv, app = "source", UNCHANGED graphVars, RequestBuffers
  PROVE  DevInv'
<1>0. Open
  BY DEF Open
<1>1. /\ Frames = {} /\ Frames' = {} /\ app' = "source" /\ stops' = stops
      /\ filled = <<>> /\ filled' = <<>> /\ lost = {} /\ lost' = {} /\ ~ctx.started
      /\ setup' = setup /\ memory_type' = memory_type
  BY <1>0, OpenedBefore
<1>2. /\ step = "request" /\ buffer_vec = <<>> /\ queue = <<>> /\ next = 1 /\ vec /\ ctx.fd
  BY DEF RequestBuffers, DevInv, OpenInv, Before, Steps
<1>3. CASE Fails \/ (Goto("failed") /\ NoFault /\ UNCHANGED devVars)
  BY <1>0, <1>2, <1>3, OpenGoesOn DEF Fails
<1>4. CASE /\ memory_type \notin {"0", "OVERLAY"}
           /\ count' \in Counts(loop_num) /\ NoFault
           /\ step' = IF memory_type = "USERPTR" \/ count' = 0 THEN "open" ELSE "memory"
           /\ UNCHANGED <<setup, next, devVars>>
  <2>1. UNCHANGED <<next, faults, buffer_vec, vec, ctx, started, queue, filled, lost>>
    BY <1>4 DEF devVars, NoFault
  <2>2. count' \in Nat
    BY <1>4, CountsAssumption DEF DevInv, DevTypes, loop_num
  <2>3. Waiting' = {} /\ Len(buffer_vec') = 0
    BY <1>2, <2>1, ToSetEmpty, EmptySeq DEF Waiting
  <2>4. step' \in {"open", "memory"} /\ (step' = "memory" => count' # 0 /\ memory_type # "USERPTR")
    BY <1>4
  <2>5. DevTypes'
    <3>1. queue' \in Seq(Indices') /\ filled' \in Seq([index : Indices', bytes : BOOLEAN])
      BY <1>1, <1>2, <2>1, EmptySeq
    <3>2. buffer_vec' \in Seq(SUBSET Resources)
      BY <1>2, <2>1, EmptySeq
    <3> QED BY <1>1, <2>1, <2>2, <2>3, <2>4, <3>1, <3>2 DEF DevInv, DevTypes, Steps
  <2>6. OpenInv'
    <3>1. step' = "memory" =>
            /\ next' \in 1..count' /\ Len(buffer_vec') = next' - 1
            /\ queue' = IF memory_type' = "DMABUF" THEN Counting(next' - 1) ELSE <<>>
            /\ memory_type' \in {"DMABUF", "MMAP"}
      BY <1>1, <1>2, <1>4, <2>1, <2>2, <2>3, <2>4, CountingFacts, MemoryTypes
    <3>2. step' = "open" /\ memory_type' # "USERPTR" => queue' = Counting(count')
      BY <1>1, <1>2, <1>4, <2>1, CountingFacts
    <3> QED BY <1>1, <1>2, <2>1, <2>4, <3>1, <3>2 DEF OpenInv, Before, Live
  <2>7. Apart' /\ Backed' /\ NoneMissing'
    <3>1. IsInjective(queue')
      BY <1>2, <2>1 DEF IsInjective
    <3>2. \A i \in 1..Len(buffer_vec') : buffer_vec'[i] # {}
      BY <2>3
    <3> QED BY <1>1, <1>2, <2>1, <2>3, <3>1, <3>2, OpenedParts
  <2> QED BY <2>5, <2>6, <2>7 DEF DevInv
<1> QED BY <1>3, <1>4 DEF RequestBuffers

\* A buffer's memory is there, and perhaps it is queued.
LEMMA DevGetsBuffer ==
  ASSUME DevInv, app = "source", UNCHANGED graphVars, Open, NoFault \/ Fault,
         UNCHANGED <<vec, ctx, started, filled, lost>>, setup' = setup, count' = count,
         step \in {"memory", "queue"}, vec, OpenInv',
         buffer_vec' \in Seq(SUBSET Resources), Len(buffer_vec') <= count,
         Len(buffer_vec') \in {Len(buffer_vec), Len(buffer_vec) + 1},
         \A i \in 1..Len(buffer_vec') : buffer_vec'[i] # {},
         queue' = queue \/ (queue' = Append(queue, next) /\ queue = Counting(next - 1)
                            /\ next \in 1..Len(buffer_vec')),
         step' \in Steps
  PROVE  DevInv'
<1>1. /\ Frames = {} /\ Frames' = {} /\ app' = "source" /\ stops' = stops
      /\ filled = <<>> /\ filled' = <<>> /\ lost = {} /\ lost' = {} /\ ~ctx.started
      /\ count \in Nat /\ queue \in Seq(Indices) /\ IsInjective(queue)
      /\ buffer_vec \in Seq(SUBSET Resources) /\ Len(buffer_vec) \in Nat
      /\ Waiting \subseteq 1..Len(buffer_vec)
  BY OpenedBefore
<1>2. Indices' = Indices /\ vec' = vec /\ ctx' = ctx
  BY DEF Indices
<1>3. ctx.fd
  BY DEF DevInv, OpenInv, Steps
<1>4. queue' \in Seq(Indices) /\ IsInjective(queue') /\ Waiting' \subseteq 1..Len(buffer_vec')
  <2>1. CASE queue' = queue
    BY <1>1, <2>1 DEF Waiting
  <2>2. CASE /\ queue' = Append(queue, next) /\ queue = Counting(next - 1)
             /\ next \in 1..Len(buffer_vec')
    <3>1. next \in Nat \ {0} /\ next - 1 \in Nat /\ Len(buffer_vec') \in Nat
      BY <1>1, <2>2
    <3>2. Append(Counting(next - 1), (next - 1) + 1) = Counting((next - 1) + 1)
      BY <3>1, CountingFacts
    <3>3. queue' = Counting(next)
      BY <2>2, <3>1, <3>2
    <3>4. queue' \in Seq(1..next) /\ IsInjective(queue') /\ ToSet(queue') = 1..next
      BY <3>1, <3>3, CountingFacts
    <3>5. 1..next \subseteq Indices /\ 1..next \subseteq 1..Len(buffer_vec')
      BY <1>1, <2>2, <3>1 DEF Indices
    <3> QED BY <3>4, <3>5, SeqMonotonic DEF Waiting
  <2> QED BY <2>1, <2>2
<1>5. DevTypes'
  BY <1>1, <1>2, <1>4, FaultTypes DEF DevInv, DevTypes
<1>6. Apart' /\ Backed' /\ NoneMissing'
  BY <1>1, <1>2, <1>3, <1>4, OpenedParts
<1> QED BY <1>5, <1>6 DEF DevInv

\* An allocation that has not failed has something.
LEMMA AllocFacts ==
  ASSUME NEW allocator, NEW f
  PROVE  Alloc2(allocator, f) \in SUBSET Resources \/ f \notin AllocFaults
<1>1. ASSUME f \in AllocFaults
      PROVE  DrmMemory(f) \in SUBSET Resources
  BY <1>1 DEF DrmMemory, AllocFaults, Resources
<1>2. IonMemory(f) \in SUBSET Resources
  <2>1. IonMemory(f) \in {{"client", "handle", "fd", "ptr"}, {"client", "handle", "fd"}, {}}
    BY DEF IonMemory
  <2> QED BY <2>1 DEF Resources
<1> QED BY <1>1, <1>2 DEF Alloc2

\* A buffer more in the list.
LEMMA ListGrows ==
  ASSUME buffer_vec \in Seq(SUBSET Resources), NEW mem \in SUBSET Resources, mem # {},
         \A i \in 1..Len(buffer_vec) : buffer_vec[i] # {},
         buffer_vec' = Append(buffer_vec, mem)
  PROVE  /\ buffer_vec' \in Seq(SUBSET Resources) /\ Len(buffer_vec') = Len(buffer_vec) + 1
         /\ \A i \in 1..Len(buffer_vec') : buffer_vec'[i] # {}
<1>1. /\ buffer_vec' \in Seq(SUBSET Resources) /\ Len(buffer_vec') = Len(buffer_vec) + 1
      /\ buffer_vec'[Len(buffer_vec) + 1] = mem
      /\ \A i \in 1..Len(buffer_vec) : buffer_vec'[i] = buffer_vec[i]
      /\ Len(buffer_vec) \in Nat
  BY AppendProperties, LenProperties
<1>2. \A i \in 1..Len(buffer_vec') : i \in 1..Len(buffer_vec) \/ i = Len(buffer_vec) + 1
  BY <1>1
<1> QED BY <1>1, <1>2

\* From one buffer to the next, or to what comes after the last.
LEMMA OnwardFacts ==
  ASSUME NEW first, NEW then, Onward(first, then), count \in Nat, next \in 1..count
  PROVE  /\ setup' = setup /\ count' = count
         /\ \/ next = count /\ step' = then /\ next' = 1
            \/ next # count /\ step' = first /\ next' = next + 1 /\ next' \in 1..count
BY DEF Onward

\* Memory of its own.
LEMMA DevAllocates ==
  ASSUME DevInv, app = "source", UNCHANGED graphVars, AllocBuffer
  PROVE  DevInv'
<1>0. Open
  BY DEF Open
<1>1. /\ Frames = {} /\ Frames' = {} /\ app' = "source" /\ stops' = stops
      /\ filled = <<>> /\ filled' = <<>> /\ lost = {} /\ lost' = {} /\ ~ctx.started
      /\ setup' = setup /\ memory_type' = memory_type
      /\ count \in Nat /\ buffer_vec \in Seq(SUBSET Resources) /\ Len(buffer_vec) \in Nat
      /\ vec => \A i \in 1..Len(buffer_vec) : buffer_vec[i] # {}
  BY <1>0, OpenedBefore
<1>2. /\ step = "memory" /\ memory_type = "DMABUF" /\ next \in 1..count /\ vec /\ ctx.fd
      /\ Len(buffer_vec) = next - 1 /\ queue = Counting(next - 1)
  BY DEF AllocBuffer, DevInv, OpenInv, Steps
<1>3. Append(Counting(next - 1), next) = Counting(next)
  <2>1. Append(Counting(next - 1), (next - 1) + 1) = Counting((next - 1) + 1)
    BY <1>1, <1>2, CountingFacts
  <2>2. (next - 1) + 1 = next
    BY <1>1, <1>2
  <2> QED BY <2>1, <2>2
<1>4. ASSUME Goto("failed"), UNCHANGED devVars, NoFault \/ Fault
      PROVE  DevInv'
  BY <1>0, <1>2, <1>4, OpenGoesOn
<1>5. ASSUME NEW mem \in SUBSET Resources, mem # {}, buffer_vec' = Append(buffer_vec, mem),
             queue' = Append(queue, next), Onward("memory", "open"), NoFault \/ Fault,
             UNCHANGED <<vec, ctx, started, filled, lost>>
      PROVE  DevInv'
  <2>1. /\ buffer_vec' \in Seq(SUBSET Resources) /\ Len(buffer_vec') = next
        /\ \A i \in 1..Len(buffer_vec') : buffer_vec'[i] # {}
    BY <1>1, <1>2, <1>5, ListGrows
  <2>2. /\ count' = count /\ queue' = Counting(next)
        /\ \/ next = count /\ step' = "open" /\ next' = 1
           \/ next # count /\ step' = "memory" /\ next' = next + 1 /\ next' \in 1..count
    BY <1>1, <1>2, <1>3, <1>5, OnwardFacts
  <2>3. OpenInv'
    <3>1. step' = "memory" => next' \in 1..count' /\ Len(buffer_vec') = next' - 1
                              /\ queue' = Counting(next' - 1)
      BY <1>1, <1>2, <2>1, <2>2
    <3>2. step' = "open" => queue' = Counting(count')
      BY <2>2
    <3>3. step' \in {"open", "memory"}
      BY <2>2
    <3> QED BY <1>1, <1>2, <1>5, <3>1, <3>2, <3>3 DEF OpenInv, Before, Live
  <2>4. step' \in Steps /\ next \in 1..Len(buffer_vec') /\ Len(buffer_vec') <= count
        /\ Len(buffer_vec') = Len(buffer_vec) + 1
    BY <1>1, <1>2, <2>1, <2>2 DEF Steps
  <2> QED BY <1>0, <1>1, <1>2, <1>5, <2>1, <2>2, <2>3, <2>4, DevGetsBuffer
<1>6. CASE \E f \in AllocFaults :
             LET mem == Alloc2(setup.allocator, f)
             IN /\ IF f = "none" THEN NoFault ELSE Fault
                /\ IF mem = {}
                   THEN Goto("failed") /\ UNCHANGED devVars
                   ELSE /\ buffer_vec' = Append(buffer_vec, mem)
                        /\ queue' = Append(queue, next)
                        /\ Onward("memory", "open")
                        /\ UNCHANGED <<vec, ctx, started, filled, lost>>
  <2>1. PICK f \in AllocFaults :
             /\ IF f = "none" THEN NoFault ELSE Fault
             /\ IF Alloc2(setup.allocator, f) = {}
                THEN Goto("failed") /\ UNCHANGED devVars
                ELSE /\ buffer_vec' = Append(buffer_vec, Alloc2(setup.allocator, f))
                     /\ queue' = Append(queue, next)
                     /\ Onward("memory", "open")
                     /\ UNCHANGED <<vec, ctx, started, filled, lost>>
    BY <1>6
  <2>2. Alloc2(setup.allocator, f) \in SUBSET Resources
    BY AllocFacts
  <2>3. NoFault \/ Fault
    BY <2>1
  <2>4. CASE Alloc2(setup.allocator, f) = {}
    BY <1>4, <2>1, <2>3, <2>4
  <2>5. CASE Alloc2(setup.allocator, f) # {}
    BY <1>5, <2>1, <2>2, <2>3, <2>5
  <2> QED BY <2>4, <2>5
<1>7. CASE /\ buffer_vec' = Append(buffer_vec, Alloc2(setup.allocator, "none"))
           /\ Goto("failed") /\ Fault
           /\ UNCHANGED <<vec, ctx, started, queue, filled, lost>>
  <2>1. Alloc2(setup.allocator, "none") \in SUBSET Resources
    BY AllocFacts DEF AllocFaults
  <2>2. Alloc2(setup.allocator, "none") # {}
    BY DEF Alloc2, DrmMemory, IonMemory
  <2>3. /\ buffer_vec' \in Seq(SUBSET Resources) /\ Len(buffer_vec') = next
        /\ \A i \in 1..Len(buffer_vec') : buffer_vec'[i] # {}
    BY <1>1, <1>2, <1>7, <2>1, <2>2, ListGrows
  <2>4. step' = "failed" /\ count' = count
    BY <1>7 DEF Goto
  <2>5. OpenInv'
    BY <1>1, <1>2, <1>7, <2>4 DEF OpenInv, Before, Live
  <2>6. step' \in Steps /\ Len(buffer_vec') <= count /\ Len(buffer_vec') = Len(buffer_vec) + 1
    BY <1>1, <1>2, <2>3, <2>4 DEF Steps
  <2> QED BY <1>0, <1>1, <1>2, <1>7, <2>3, <2>4, <2>5, <2>6, DevGetsBuffer
<1> QED BY <1>6, <1>7 DEF AllocBuffer

\* The device's memory.
LEMMA DevMaps ==
  ASSUME DevInv, app = "source", UNCHANGED graphVars, MapBuffer
  PROVE  DevInv'
<1>0. Open
  BY DEF Open
<1>1. /\ Frames = {} /\ Frames' = {} /\ app' = "source" /\ stops' = stops
      /\ filled = <<>> /\ filled' = <<>> /\ lost = {} /\ lost' = {} /\ ~ctx.started
      /\ setup' = setup /\ memory_type' = memory_type
      /\ count \in Nat /\ buffer_vec \in Seq(SUBSET Resources) /\ Len(buffer_vec) \in Nat
      /\ vec => \A i \in 1..Len(buffer_vec) : buffer_vec[i] # {}
  BY <1>0, OpenedBefore
<1>2. /\ step = "memory" /\ memory_type = "MMAP" /\ next \in 1..count /\ vec /\ ctx.fd
      /\ Len(buffer_vec) = next - 1 /\ queue = <<>>
  BY DEF MapBuffer, DevInv, OpenInv, Steps
<1>3. CASE Fails
  BY <1>0, <1>2, <1>3, OpenGoesOn DEF Fails
<1>4. CASE /\ buffer_vec' = Append(buffer_vec, {"ptr"})
           /\ Onward("memory", "queue") /\ NoFault
           /\ UNCHANGED <<vec, ctx, started, queue, filled, lost>>
  <2>0. {"ptr"} \in SUBSET Resources /\ {"ptr"} # {}
    BY DEF Resources
  <2>1. /\ buffer_vec' \in Seq(SUBSET Resources) /\ Len(buffer_vec') = next
        /\ \A i \in 1..Len(buffer_vec') : buffer_vec'[i] # {}
    BY <1>1, <1>2, <1>4, <2>0, ListGrows
  <2>2. /\ count' = count
        /\ \/ next = count /\ step' = "queue" /\ next' = 1
           \/ next # count /\ step' = "memory" /\ next' = next + 1 /\ next' \in 1..count
    BY <1>1, <1>2, <1>4, OnwardFacts
  <2>3. OpenInv'
    <3>1. step' = "memory" => next' \in 1..count' /\ Len(buffer_vec') = next' - 1
      BY <1>1, <1>2, <2>1, <2>2
    <3>2. step' = "queue" => /\ next' \in 1..count' /\ Len(buffer_vec') = count'
                             /\ queue' = Counting(next' - 1)
      BY <1>1, <1>2, <1>4, <2>1, <2>2, CountingFacts
    <3>3. step' \in {"queue", "memory"}
      BY <2>2
    <3> QED BY <1>1, <1>2, <1>4, <3>1, <3>2, <3>3 DEF OpenInv, Before, Live
  <2>4. step' \in Steps /\ Len(buffer_vec') <= count /\ Len(buffer_vec') = Len(buffer_vec) + 1
    BY <1>1, <1>2, <2>1, <2>2 DEF Steps
  <2> QED BY <1>0, <1>1, <1>2, <1>4, <2>1, <2>2, <2>3, <2>4, DevGetsBuffer
<1> QED BY <1>3, <1>4 DEF MapBuffer

\* Each is queued, and exported if need be.
LEMMA DevQueues ==
  ASSUME DevInv, app = "source", UNCHANGED graphVars, QueueBuffer
  PROVE  DevInv'
<1>0. Open
  BY DEF Open
<1>1. /\ Frames = {} /\ Frames' = {} /\ app' = "source" /\ stops' = stops
      /\ filled = <<>> /\ filled' = <<>> /\ lost = {} /\ lost' = {} /\ ~ctx.started
      /\ setup' = setup /\ memory_type' = memory_type
      /\ count \in Nat /\ buffer_vec \in Seq(SUBSET Resources) /\ Len(buffer_vec) \in Nat
      /\ vec => \A i \in 1..Len(buffer_vec) : buffer_vec[i] # {}
  BY <1>0, OpenedBefore
<1>2. /\ step = "queue" /\ next \in 1..count /\ vec /\ ctx.fd
      /\ Len(buffer_vec) = count /\ queue = Counting(next - 1)
  BY DEF QueueBuffer, DevInv, OpenInv, Steps
<1>3. Append(Counting(next - 1), next) = Counting(next)
  <2>0. next - 1 \in Nat
    BY <1>1, <1>2
  <2>1. Append(Counting(next - 1), (next - 1) + 1) = Counting((next - 1) + 1)
    BY <2>0, CountingFacts
  <2>2. (next - 1) + 1 = next
    BY <1>1, <1>2
  <2> QED BY <2>1, <2>2
<1>4. CASE Fails
  BY <1>0, <1>2, <1>4, OpenGoesOn DEF Fails
<1>5. CASE /\ queue' = Append(queue, next)
           /\ IF use_libv4l2 THEN NoFault /\ UNCHANGED buffer_vec ELSE BufferExport
           /\ Onward("queue", "open")
           /\ UNCHANGED <<vec, ctx, started, filled, lost>>
  <2>1. /\ buffer_vec' \in Seq(SUBSET Resources) /\ Len(buffer_vec') = count
        /\ \A i \in 1..Len(buffer_vec') : buffer_vec'[i] # {}
    <3>1. CASE buffer_vec' = buffer_vec
      BY <1>1, <1>2, <3>1
    <3>2. CASE buffer_vec' = [buffer_vec EXCEPT ![next] = @ \cup {"fd"}]
      <4>1. buffer_vec[next] \in SUBSET Resources
        BY <1>1, <1>2, ElementOfSeq
      <4>2. buffer_vec[next] \cup {"fd"} \in SUBSET Resources
        BY <4>1 DEF Resources
      <4>3. /\ buffer_vec' \in Seq(SUBSET Resources) /\ Len(buffer_vec') = count
            /\ \A i \in 1..count : buffer_vec'[i] = IF i = next THEN buffer_vec[next] \cup {"fd"}
                                                    ELSE buffer_vec[i]
        BY <1>1, <1>2, <3>2, <4>2, ExceptSeq
      <4> QED BY <1>1, <1>2, <4>3
    <3> QED BY <1>5, <3>1, <3>2 DEF BufferExport
  <2>2. /\ count' = count /\ queue' = Counting(next)
        /\ \/ next = count /\ step' = "open" /\ next' = 1
           \/ next # count /\ step' = "queue" /\ next' = next + 1 /\ next' \in 1..count
    BY <1>1, <1>2, <1>3, <1>5, OnwardFacts
  <2>3. OpenInv'
    <3>1. step' = "queue" => /\ next' \in 1..count' /\ Len(buffer_vec') = count'
                             /\ queue' = Counting(next' - 1)
      BY <1>1, <1>2, <2>1, <2>2
    <3>2. step' = "open" => queue' = Counting(count')
      BY <2>2
    <3>3. step' \in {"open", "queue"}
      BY <2>2
    <3> QED BY <1>1, <1>2, <1>5, <3>1, <3>2, <3>3 DEF OpenInv, Before, Live
  <2>4. step' \in Steps /\ next \in 1..Len(buffer_vec') /\ Len(buffer_vec') <= count
    BY <1>1, <1>2, <2>1, <2>2 DEF Steps
  <2>5. NoFault \/ Fault
    BY <1>5 DEF BufferExport
  <2> QED BY <1>0, <1>1, <1>2, <1>5, <2>1, <2>2, <2>3, <2>4, <2>5, DevGetsBuffer
<1> QED BY <1>4, <1>5 DEF QueueBuffer

\* A stream that could not be opened is deleted with what it has.
LEMMA DevDeletesUnopened ==
  ASSUME DevInv, app = "source", UNCHANGED graphVars, DeleteUnopened
  PROVE  DevInv'
<1>0. Open
  BY DEF Open
<1>1. /\ Frames = {} /\ Frames' = {} /\ app' = "source" /\ stops' = stops
      /\ filled = <<>> /\ filled' = <<>> /\ lost = {} /\ lost' = {}
      /\ count \in Nat /\ buffer_vec \in Seq(SUBSET Resources)
  BY <1>0, OpenedBefore
<1>2. /\ step = "failed" /\ vec' = FALSE /\ ctx' = Closed /\ queue' = <<>>
      /\ buffer_vec' = Kept({}) /\ UNCHANGED <<setup, step, next, count, started, faults>>
  BY DEF DeleteUnopened, openVars
<1>3. /\ buffer_vec' \in Seq(SUBSET Resources) /\ Len(buffer_vec') = Len(buffer_vec)
      /\ \A i \in 1..Len(buffer_vec') : buffer_vec'[i] = {}
  BY <1>1, <1>2, KeptFacts
<1>4. /\ queue' \in Seq(Indices) /\ filled' \in Seq([index : Indices, bytes : BOOLEAN])
      /\ Waiting' = {} /\ IsInjective(queue') /\ Indices' = Indices
  BY <1>1, <1>2, NothingQueued DEF Indices
<1>5. ctx' \in Contexts /\ ~ctx'.started
  BY <1>2, ContextTypes DEF Closed
<1>6. DevTypes'
  BY <1>1, <1>2, <1>3, <1>4, <1>5 DEF DevInv, DevTypes
<1>7. OpenInv'
  BY <1>1, <1>2, <1>5 DEF OpenInv, Before, Live
<1>8. Apart' /\ Backed' /\ NoneMissing'
  BY <1>1, <1>2, <1>3, <1>4, <1>5, OpenedParts
<1> QED BY <1>6, <1>7, <1>8 DEF DevInv

\* Every step of Open.
LEMMA DevOpens ==
  ASSUME DevInv, app = "source", UNCHANGED graphVars, Open
  PROVE  DevInv'
BY DevOpensEarly, DevRequests, DevAllocates, DevMaps, DevQueues, DevDeletesUnopened DEF Open

\* The source takes the stream that is open, or there is none.
LEMMA DevTaken ==
  ASSUME DevInv, app = "source", stops' = stops, UNCHANGED capVars, Frames' = Frames,
         (app' = "filter" /\ step = "open") \/ app' = "end"
  PROVE  DevInv'
<1>1. UNCHANGED <<setup, step, next, count, buffer_vec, vec, ctx, started, queue, filled, lost,
                  faults>>
  BY DEF capVars, openVars, devVars
<1>2. /\ Indices' = Indices /\ memory_type' = memory_type /\ Waiting' = Waiting
      /\ Ready' = Ready
  BY <1>1 DEF Indices, memory_type, Waiting, Ready
<1>3. DevTypes'
  BY <1>1, <1>2 DEF DevInv, DevTypes
<1>4. OpenInv'
  BY <1>1, <1>2 DEF DevInv, OpenInv, Live
<1>5. Apart' /\ Backed'
  BY <1>1, <1>2 DEF DevInv, Apart, Backed
<1>6. NoneMissing'
  <2>1. CASE app' = "end"
    BY <2>1 DEF NoneMissing, Building
  <2>2. CASE step = "open" /\ memory_type # "USERPTR"
    <3>1. queue = Counting(count) /\ count \in Nat
      BY <2>2 DEF DevInv, DevTypes, OpenInv
    <3>2. Waiting = Indices
      BY <3>1, CountingFacts DEF Waiting, Indices
    <3> QED BY <1>2, <3>2 DEF NoneMissing
  <2>3. CASE memory_type = "USERPTR"
    BY <1>2, <2>3 DEF NoneMissing
  <2> QED BY <2>1, <2>2, <2>3
<1> QED BY <1>3, <1>4, <1>5, <1>6 DEF DevInv

-----------------------------------------------------------------------------
(* The flows: what installing slots and connecting outputs leaves.         *)

\* A slot comes no later than there are slots.
LEMMA PlaceFacts ==
  ASSUME NEW s \in Seq(Nat), NEW i \in ToSet(s)
  PROVE  Place(s, i) \in 1..Len(s)
<1>1. Len(s) \in Nat /\ ToSet(s) = {s[k] : k \in 1..Len(s)} /\ \A k \in 1..Len(s) : s[k] \in Nat
  BY LenProperties, ElementOfSeq DEF ToSet
<1>2. IsFiniteSet(1..Len(s)) /\ Cardinality(1..Len(s)) = Len(s)
  <2>1. \A n \in Nat : IsFiniteSet(1..n) /\ Cardinality(1..n) = n
    BY FS_Interval
  <2> QED BY <1>1, <2>1
<1>3. s \in Surjection(1..Len(s), ToSet(s))
  BY <1>1, LenProperties DEF Surjection
<1>4. IsFiniteSet(ToSet(s)) /\ Cardinality(ToSet(s)) <= Len(s)
  BY <1>2, <1>3, FS_Surjection
<1> DEFINE upTo == {j \in ToSet(s) : j <= i}
<1>5. upTo \subseteq ToSet(s) /\ i \in upTo
  BY <1>1
<1>6. IsFiniteSet(upTo) /\ Cardinality(upTo) <= Cardinality(ToSet(s))
  BY <1>4, <1>5, FS_Subset
<1>7. Cardinality(upTo) \in Nat /\ Cardinality(upTo) # 0 /\ Cardinality(ToSet(s)) \in Nat
  BY <1>4, <1>5, <1>6, FS_CardinalityType, FS_EmptySet
<1> QED BY <1>1, <1>4, <1>6, <1>7 DEF Place

\* The inputs that a slot map makes of those there are.
Inputs(v, m) == Filled(v, m.in, Unset, LAMBDA k : Input(m, k))
Counted(v)   == \A i \in DOMAIN v : v[i].model = "ASYNCCOMMON" => v[i].cache \in Int

LEMMA FilledInputs ==
  ASSUME NEW v, NEW m, SlotMapOK(m), Counted(v), NEW w, w = Inputs(v, m)
  PROVE  /\ Counted(w)
         /\ \A i \in DOMAIN w : i \in ToSet(m.in) => w[i].cache \in Int
         /\ DOMAIN w = IF m.in = <<>> THEN DOMAIN v ELSE DOMAIN v \cup 0..TopSlot(m.in)
<1>1. m.in \in Seq(Nat) /\ (m.model = "ASYNCCOMMON" => \A k \in 1..Len(m.in) : m.cache[k] \in Int)
  BY DEF SlotMapOK
<1>2. \A i \in ToSet(m.in) : /\ Input(m, Place(m.in, i)).cache \in Int
                             /\ Input(m, Place(m.in, i)).model = m.model
  <2>1. \A k : /\ Input(m, k).cache = IF m.model = "ASYNCCOMMON" THEN m.cache[k] ELSE 0
               /\ Input(m, k).model = m.model
    BY DEF Input
  <2>2. \A i \in ToSet(m.in) : Place(m.in, i) \in 1..Len(m.in)
    BY <1>1, PlaceFacts
  <2> QED BY <1>1, <2>1, <2>2
<1>3. Unset.model = "NONE"
  BY DEF Unset
<1>4. CASE m.in = <<>>
  BY <1>1, <1>4, ToSetEmpty DEF Inputs, Filled
<1>5. CASE m.in # <<>>
  <2>1. w = [i \in DOMAIN Grown(v, m.in, Unset) |->
               IF i \in ToSet(m.in) THEN Input(m, Place(m.in, i)) ELSE Grown(v, m.in, Unset)[i]]
    BY <1>5 DEF Inputs, Filled
  <2>2. /\ DOMAIN Grown(v, m.in, Unset) = DOMAIN v \cup 0..TopSlot(m.in)
        /\ \A i \in DOMAIN v \cup 0..TopSlot(m.in) :
             Grown(v, m.in, Unset)[i] = IF i \in DOMAIN v THEN v[i] ELSE Unset
    BY DEF Grown
  <2>3. DOMAIN w = DOMAIN v \cup 0..TopSlot(m.in)
    BY <2>1, <2>2
  <2>4. \A i \in DOMAIN w : w[i] = IF i \in ToSet(m.in) THEN Input(m, Place(m.in, i))
                                   ELSE IF i \in DOMAIN v THEN v[i] ELSE Unset
    BY <2>1, <2>2
  <2>5. Counted(w)
    <3> SUFFICES ASSUME NEW i \in DOMAIN w, w[i].model = "ASYNCCOMMON"
                 PROVE  w[i].cache \in Int
      BY DEF Counted
    <3>1. CASE i \in ToSet(m.in)
      BY <1>2, <2>4, <3>1
    <3>2. CASE i \notin ToSet(m.in) /\ i \in DOMAIN v
      BY <2>4, <3>2 DEF Counted
    <3>3. CASE i \notin ToSet(m.in) /\ i \notin DOMAIN v
      BY <1>3, <2>4, <3>3
    <3> QED BY <3>1, <3>2, <3>3
  <2> QED BY <1>2, <1>5, <2>3, <2>4, <2>5
<1> QED BY <1>4, <1>5

\* What InstallSlotMap leaves of a flow, as far as it is needed here.
LEMMA InstalledFacts ==
  ASSUME NEW f, NEW m, DOMAIN f = FlowFields
  PROVE  /\ DOMAIN Installed(f, m) = FlowFields
         /\ Installed(f, m).v_input = Inputs(f.v_input, m)
         /\ Installed(f, m).down_flow_num = f.down_flow_num
BY DEF Installed, Inputs, FlowFields

LEMMA NewFlowFacts ==
  /\ DOMAIN NewFlow = FlowFields /\ NewFlow.v_input = NoSlots /\ DOMAIN NoSlots = {}
  /\ Counted(NoSlots)
  /\ DOMAIN SetAsSource(NewFlow) = FlowFields /\ SetAsSource(NewFlow).down_flow_num = 0
<1>1. DOMAIN NewFlow = FlowFields /\ NewFlow.v_input = NoSlots /\ NewFlow.down_flow_num = 0
  BY DEF NewFlow, FlowFields
<1>2. DOMAIN NoSlots = {}
  BY DEF NoSlots
<1> DEFINE f == [NewFlow EXCEPT !.start = TRUE]
<1>3. DOMAIN f = FlowFields /\ f.down_flow_num = 0
  BY <1>1 DEF FlowFields
<1>4. SetAsSource(NewFlow) = Installed(f, SourceMap)
  BY DEF SetAsSource
<1> HIDE DEF f
<1> QED BY <1>1, <1>2, <1>3, <1>4, InstalledFacts DEF Counted

\* Connections leave the inputs alone.
LEMMA ConnectedFacts ==
  ASSUME NEW f, DOMAIN f = FlowFields, NEW down, NEW slot, NEW in_slot
  PROVE  /\ DOMAIN AddDownFlow(f, down, slot, in_slot) = FlowFields
         /\ AddDownFlow(f, down, slot, in_slot).v_input = f.v_input
         /\ DOMAIN RemoveDownFlow(f, down) = FlowFields
         /\ RemoveDownFlow(f, down).v_input = f.v_input
BY DEF AddDownFlow, RemoveDownFlow, FlowFields

-----------------------------------------------------------------------------
(* Where the frames are.                                                   *)

\* A step that leaves the parameters and the ring's size leaves the types.
LEMMA SameTypes ==
  ASSUME UNCHANGED openVars
  PROVE  /\ setup' = setup /\ count' = count /\ step' = step
         /\ MaybeFrame' = MaybeFrame /\ Outs' = Outs /\ Indices' = Indices
BY DEF openVars, MaybeFrame, Outs, Indices

\* The flows are as they were.
LEMMA SameGraph ==
  ASSUME graph' = graph
  PROVE  /\ source' = source /\ filter' = filter /\ sink' = sink
         /\ HasInput' = HasInput /\ fmodel' = fmodel
BY DEF source, filter, sink, HasInput, fmodel

\* Nobody takes a frame or lets one go.
LEMMA FramesSame ==
  ASSUME UNCHANGED <<rbuf, source_out, fin, cached_buffer, cached_buffers, filter_out,
                     sink_inputs, sink_in>>
  PROVE  Frames' = Frames
BY DEF Frames

\* The frames by where they are: in a variable, in the filter's queue, in the
\* sink's.
Single == {rbuf, source_out, fin, cached_buffer, filter_out.frame, sink_in.frame}
InOuts == {o.frame : o \in ToSet(sink_inputs)}

LEMMA FramesParts == Frames = (Single \cup ToSet(cached_buffers) \cup InOuts) \ {Null}
BY DEF Frames, Single, InOuts

\* The sink's queue, when an output comes or goes.
LEMMA OutsFacts ==
  ASSUME NEW s \in Seq(Outs), NEW x \in Outs
  PROVE  /\ Append(s, x) \in Seq(Outs)
         /\ {o.frame : o \in ToSet(Append(s, x))} = {o.frame : o \in ToSet(s)} \cup {x.frame}
         /\ s # <<>> => /\ Head(s) \in Outs /\ Tail(s) \in Seq(Outs)
                        /\ {o.frame : o \in ToSet(s)}
                             = {Head(s).frame} \cup {o.frame : o \in ToSet(Tail(s))}
<1>1. ToSet(Append(s, x)) = ToSet(s) \cup {x} /\ Append(s, x) \in Seq(Outs)
  BY ToSetFacts, AppendProperties
<1>2. CASE s = <<>>
  BY <1>1, <1>2
<1>3. CASE s # <<>>
  <2>1. /\ Head(s) \in Outs /\ Tail(s) \in Seq(Outs)
        /\ ToSet(s) = {Head(s)} \cup ToSet(Tail(s))
    BY <1>3, ToSetFacts
  <2> QED BY <1>1, <2>1
<1> QED BY <1>2, <1>3

\* What is in a queue that is full can be dropped.
LEMMA FullFacts ==
  ASSUME NEW S, NEW s \in Seq(S), NEW cache \in Int, cache > 0, Len(s) >= cache
  PROVE  s # <<>>
BY LenProperties, EmptySeq

-----------------------------------------------------------------------------
(* The application puts the pipeline together.                             *)

LEMMA InitInv == Init => IInv
<1> SUFFICES ASSUME Init
             PROVE  IInv
  OBVIOUS
<1>1. /\ setup \in Setups /\ step = "new" /\ next = 1 /\ count = 0 /\ buffer_vec = <<>> /\ vec = TRUE
      /\ ctx = Closed /\ started = FALSE /\ queue = <<>> /\ filled = <<>> /\ lost = {} /\ faults = 0
  BY DEF Init, CaptureInit
<1>2. /\ app = "source" /\ source = NewFlow /\ filter = NewFlow /\ sink = NewFlow
      /\ DOMAIN graph = {"source", "filter", "sink"}
      /\ loop = FALSE /\ on = TRUE /\ fon = TRUE
      /\ rpc = "none" /\ rbuf = Null /\ source_out = Null /\ fpc = "none" /\ fin = Null
      /\ cached_buffer = Null /\ cached_buffers = <<>> /\ filter_out = NoOut
      /\ sink_inputs = <<>> /\ sink_in = NoOut /\ stops = 0 /\ crashed = FALSE
  BY DEF Init, source, filter, sink
<1>3. Frames = {}
  BY <1>2, ToSetEmpty DEF Frames, NoOut, Out
<1>4. Waiting = {} /\ Ready = {}
  BY <1>1, ToSetEmpty DEF Waiting, Ready
<1>5. /\ Closed \in Contexts /\ ~Closed.started /\ faults \in 0..MaxFaults
  <2>1. Closed \in Contexts /\ ~Closed.started
    BY ContextTypes DEF Closed
  <2>2. faults \in 0..MaxFaults
    BY <1>1, MaxFaultsAssumption
  <2> QED BY <2>1, <2>2
<1>6. DevTypes
  <2>1. vec \in BOOLEAN /\ started \in BOOLEAN /\ ctx \in Contexts
    BY <1>1, <1>5
  <2>2. \A S : <<>> \in Seq(S)
    BY EmptySeq
  <2>3. /\ setup \in Setups /\ faults \in 0..MaxFaults /\ count \in Nat /\ step \in Steps
        /\ lost \subseteq Indices /\ Len(buffer_vec) <= count
    BY <1>1, <1>5 DEF Steps
  <2> QED BY <1>1, <2>1, <2>2, <2>3 DEF DevTypes
<1>7. OpenInv
  BY <1>1, <1>2, <1>3, <1>5 DEF OpenInv, Live, Before
<1>8. Apart
  BY <1>1, <1>3, <1>4 DEF Apart, IsInjective
<1>9. Backed
  BY <1>1, <1>3, <1>4, <1>5 DEF Backed
<1>10. NoneMissing
  BY <1>2 DEF NoneMissing, Building
<1>11. GraphTypes
  <2>1. setup.stops \in Nat
    BY <1>1, SetupsAssumption
  <2>2. NoOut \in Outs
    BY DEF NoOut, Out, Outs, MaybeFrame
  <2>3. crashed \in BOOLEAN /\ loop \in BOOLEAN /\ on \in BOOLEAN /\ fon \in BOOLEAN
    BY <1>2
  <2>4. Null \in MaybeFrame /\ stops \in 0..setup.stops
    BY <1>2, <2>1 DEF MaybeFrame
  <2>5. cached_buffers \in Seq(MaybeFrame) /\ sink_inputs \in Seq(Outs)
    BY <1>2
  <2> QED BY <1>2, <2>2, <2>3, <2>4, <2>5 DEF GraphTypes
<1>12. Shape
  <2>1. \A i \in DOMAIN sink.v_input :
          sink.v_input[i].model = "ASYNCCOMMON" => sink.v_input[i].cache \in Int
    BY <1>2, NewFlowFacts
  <2> QED BY <1>2, <2>1, NewFlowFacts DEF Shape
<1>13. Threads
  BY <1>2 DEF Threads, Live
<1> QED BY <1>6, <1>7, <1>8, <1>9, <1>10, <1>11, <1>12, <1>13 DEF IInv, DevInv, GraphInv

\* The source's constructor opens the stream, before there is a thread.
LEMMA OpenStreamInv ==
  ASSUME IInv, OpenStream
  PROVE  IInv'
<1>1. /\ DevInv /\ GraphInv /\ app = "source" /\ Open /\ UNCHANGED graphVars
      /\ UNCHANGED <<app, graph, loop, on, rpc, rbuf, source_out, fon, fpc, fin, cached_buffer,
                     cached_buffers, filter_out, sink_inputs, sink_in, stops, crashed>>
  BY DEF IInv, OpenStream, At, graphVars, appVars, sourceVars, filterVars, sinkVars
<1>2. DevInv'
  BY <1>1, DevOpens
<1>3. Frames = {} /\ setup' = setup
  BY <1>1, OpenedBefore
<1>4. /\ rbuf = Null /\ source_out = Null /\ fin = Null /\ cached_buffer = Null
      /\ filter_out.frame = Null /\ sink_in.frame = Null
      /\ cached_buffers = <<>> /\ sink_inputs = <<>>
  BY <1>1, <1>3 DEF Frames, GraphInv, Threads
<1>5. filter_out \in Outs' /\ sink_in \in Outs'
  <2>1. filter_out \in Outs /\ sink_in \in Outs
    BY <1>1 DEF GraphInv, GraphTypes
  <2>2. Null \in MaybeFrame'
    BY DEF MaybeFrame
  <2> QED BY <1>3, <1>4, <2>1, <2>2 DEF Outs
<1>6. GraphTypes'
  BY <1>1, <1>3, <1>4, <1>5 DEF GraphInv, GraphTypes, MaybeFrame
<1>7. Shape' /\ Threads'
  BY <1>1, SameGraph DEF GraphInv, Shape, Threads
<1> QED BY <1>2, <1>6, <1>7 DEF IInv, GraphInv

\* The source is made of a stream that is open, or not at all.
LEMMA NewSourceInv ==
  ASSUME IInv, NewSource
  PROVE  IInv'
<1>1. /\ DevInv /\ GraphInv /\ app = "source" /\ UNCHANGED capVars
      /\ UNCHANGED <<on, rbuf, source_out, fon, fpc, fin, cached_buffer, cached_buffers,
                     filter_out, sink_inputs, sink_in, stops, crashed>>
  BY DEF IInv, NewSource, At, filterVars, sinkVars
<1>2. \/ /\ step = "open" /\ graph' = [graph EXCEPT !.source = SetAsSource(@)]
         /\ loop' = TRUE /\ rpc' = "wait" /\ app' = "filter"
      \/ app' = "end" /\ UNCHANGED <<graph, loop, rpc>>
  BY DEF NewSource
<1>3. DevInv'
  <2>1. Frames' = Frames
    BY <1>1, FramesSame
  <2> QED BY <1>1, <1>2, <2>1, DevTaken
<1>4. UNCHANGED openVars
  BY <1>1 DEF capVars
<1>5. GraphTypes'
  <2>1. loop' \in BOOLEAN /\ app' \in {"source", "end"} \cup Live \cup Gone /\ rpc' \in {"wait", rpc}
    BY <1>1, <1>2 DEF GraphInv, GraphTypes, Live
  <2> QED BY <1>1, <1>4, <2>1, SameTypes DEF GraphInv, GraphTypes
<1>6. CASE app' = "end" /\ UNCHANGED <<graph, loop, rpc>>
  <2>1. Shape'
    BY <1>1, <1>6, SameGraph DEF GraphInv, Shape
  <2>2. Threads'
    BY <1>1, <1>6, SameGraph DEF GraphInv, Threads, Live
  <2> QED BY <1>3, <1>5, <2>1, <2>2 DEF IInv, GraphInv
<1>7. CASE /\ graph' = [graph EXCEPT !.source = SetAsSource(@)]
           /\ loop' = TRUE /\ rpc' = "wait" /\ app' = "filter"
  <2>1. /\ source = NewFlow /\ filter = NewFlow /\ sink = NewFlow /\ fpc = "none"
        /\ DOMAIN graph = {"source", "filter", "sink"}
    BY <1>1 DEF GraphInv, Shape
  <2>2. /\ source' = SetAsSource(NewFlow) /\ filter' = NewFlow /\ sink' = NewFlow
        /\ DOMAIN graph' = {"source", "filter", "sink"}
    BY <1>7, <2>1 DEF source, filter, sink
  <2>3. Shape'
    BY <1>1, <1>7, <2>1, <2>2, NewFlowFacts DEF Shape, Counted
  <2>4. /\ rpc = "none" /\ on /\ rbuf = Null /\ fin = Null
    <3>1. on
      BY <1>1, Zenon DEF GraphInv, Threads
    <3>2. rpc = "none" /\ rbuf = Null /\ fin = Null
      BY <1>1, <2>1 DEF GraphInv, Threads
    <3> QED BY <3>1, <3>2
  <2>5. source'.down_flow_num = 0
    BY <2>2, NewFlowFacts
  <2>6. Threads'
    BY <1>1, <1>7, <2>1, <2>4, <2>5 DEF Threads, Live
  <2> QED BY <1>3, <1>5, <2>3, <2>6 DEF IInv, GraphInv
<1> QED BY <1>2, <1>6, <1>7

\* What becomes of a filter's parameters has an input with a number to count to.
LEMMA FilterMapFacts ==
  ASSUME NEW p, p.parts \in Nat, p.parts >= 1, p.cache \subseteq Int
  PROVE  /\ SlotMapOK(FilterMap(p)) /\ FilterMap(p).in # <<>> /\ 0 \in ToSet(FilterMap(p).in)
         /\ TopSlot(FilterMap(p).in) \in Nat
<1> DEFINE sm == FilterMap(p)
           slots == [i \in 1..p.parts |-> i - 1]
           number == ParseParamToSlotMap(p, 2).cache[1]
<1>1. sm.in = slots /\ sm.cache = [i \in 1..p.parts |-> number]
  BY DEF FilterMap, ParseParamToSlotMap
<1>2. number \in Int
  <2>1. number = IF p.cache = {} THEN 2 ELSE CHOOSE n \in p.cache : TRUE
    BY DEF ParseParamToSlotMap
  <2> HIDE DEF number
  <2> QED BY <2>1
<1>3. slots \in Seq(Nat) /\ Len(slots) = p.parts /\ slots[1] = 0 /\ slots[p.parts] = p.parts - 1
  OBVIOUS
<1> HIDE DEF number
<1>4. \A k \in 1..Len(slots) : sm.cache[k] \in Int
  BY <1>1, <1>2, <1>3
<1>5. slots # <<>> /\ ToSet(slots) = {i - 1 : i \in 1..p.parts}
  BY <1>3 DEF ToSet
<1>6. TopSlot(slots) \in ToSet(slots)
  <2>1. p.parts - 1 \in ToSet(slots) /\ \A j \in ToSet(slots) : j <= p.parts - 1
    BY <1>5
  <2> HIDE DEF slots
  <2> QED BY <2>1 DEF TopSlot
<1>7. ToSet(slots) \subseteq Nat /\ 0 \in ToSet(slots)
  BY <1>5
<1> HIDE DEF slots, sm
<1>8. SlotMapOK(sm)
  BY <1>1, <1>3, <1>4 DEF SlotMapOK
<1> QED BY <1>1, <1>5, <1>6, <1>7, <1>8 DEF sm

\* The filter, or none: then everything is taken down.
LEMMA NewFilterInv ==
  ASSUME IInv, NewFilter
  PROVE  IInv'
<1> DEFINE sm == FilterMap(setup.filter)
<1>1. /\ DevInv /\ GraphInv /\ app = "filter" /\ UNCHANGED <<openVars, devVars>>
      /\ (NoFault \/ Fault)
      /\ UNCHANGED <<loop, on, rpc, rbuf, source_out, fon, fin, cached_buffer, cached_buffers,
                     filter_out, sink_inputs, sink_in, stops, crashed>>
  BY DEF IInv, NewFilter, At, sourceVars, sinkVars
<1>2. \/ /\ ParseWrapFlowParams(setup.filter)
         /\ graph' = [graph EXCEPT !.filter = Installed(@, sm)]
         /\ fpc' \in {"idle", "fetch"} /\ app' = "sink"
      \/ app' = "stop" /\ UNCHANGED <<graph, fpc>>
  BY DEF NewFilter
<1>3. DevInv'
  <2>1. Frames' = Frames
    BY <1>1, FramesSame
  <2>2. Passes
    BY <1>1, <1>2 DEF Passes, Live, Building
  <2> QED BY <1>1, <2>1, <2>2, DevKept
<1>4. GraphTypes'
  <2>1. app' \in {"source", "end"} \cup Live \cup Gone /\ fpc' \in {"idle", "fetch", fpc}
    BY <1>1, <1>2 DEF Live
  <2> QED BY <1>1, <2>1, SameTypes DEF GraphInv, GraphTypes
<1>5. /\ filter = NewFlow /\ sink = NewFlow /\ fpc = "none" /\ on
      /\ DOMAIN graph = {"source", "filter", "sink"} /\ DOMAIN source = FlowFields
  <2>1. on
    BY <1>1, Zenon DEF GraphInv, Threads
  <2> QED BY <1>1, <2>1 DEF GraphInv, Shape
<1>6. CASE app' = "stop" /\ UNCHANGED <<graph, fpc>>
  <2>1. Shape'
    BY <1>1, <1>6, SameGraph DEF GraphInv, Shape
  <2>2. Threads'
    BY <1>1, <1>6, SameGraph DEF GraphInv, Threads, Live
  <2> QED BY <1>3, <1>4, <2>1, <2>2 DEF IInv, GraphInv
<1>7. CASE /\ ParseWrapFlowParams(setup.filter)
           /\ graph' = [graph EXCEPT !.filter = Installed(@, sm)]
           /\ fpc' \in {"idle", "fetch"} /\ app' = "sink"
  <2>1. /\ SlotMapOK(sm) /\ sm.in # <<>> /\ 0 \in ToSet(sm.in) /\ TopSlot(sm.in) \in Nat
    <3>1. setup.filter.parts \in Nat /\ setup.filter.cache \subseteq Int
      BY <1>1, SetupsAssumption DEF DevInv, DevTypes
    <3>2. setup.filter.parts >= 1
      BY <1>7 DEF ParseWrapFlowParams
    <3> QED BY <3>1, <3>2, FilterMapFacts
  <2> DEFINE new == Installed(NewFlow, sm)
  <2>2. /\ source' = source /\ filter' = new /\ sink' = NewFlow
        /\ DOMAIN graph' = {"source", "filter", "sink"}
    BY <1>5, <1>7 DEF source, filter, sink
  <2>3. /\ DOMAIN new = FlowFields
        /\ new.v_input = Inputs(NoSlots, sm)
    BY NewFlowFacts, InstalledFacts
  <2>4. HasInput'
    <3>1. /\ DOMAIN new.v_input = {} \cup 0..TopSlot(sm.in)
          /\ \A i \in DOMAIN new.v_input : i \in ToSet(sm.in) => new.v_input[i].cache \in Int
      <4> HIDE DEF new, sm
      <4> QED BY <2>1, <2>3, NewFlowFacts, FilledInputs
    <3>2. 0 \in DOMAIN new.v_input /\ new.v_input[0].cache \in Int
      <4> HIDE DEF new, sm
      <4> QED BY <2>1, <3>1
    <3>3. HasInput' <=> 0 \in DOMAIN filter'.v_input /\ filter'.v_input[0].cache \in Int
      BY DEF HasInput
    <3> QED BY <2>2, <3>2, <3>3
  <2> HIDE DEF new, sm
  <2>5. Shape'
    BY <1>1, <1>5, <1>7, <2>2, <2>3, <2>4, NewFlowFacts DEF Shape, Counted
  <2>6. Threads'
    <3>1. rpc # "none" /\ fin = Null
          /\ (rpc \in {"none", "wait", "asleep", "loop", "start", "dqbuf", "ended"} => rbuf = Null)
      BY <1>1, <1>5 DEF GraphInv, Threads, Live
    <3>2. on'
      BY <1>1, <1>5
    <3> QED BY <1>1, <1>7, <2>4, <3>1, <3>2 DEF Threads, Live
  <2> QED BY <1>3, <1>4, <2>5, <2>6 DEF IInv, GraphInv
<1> QED BY <1>2, <1>6, <1>7

\* The flow at the end gets its inputs, in one go or two.
LEMMA NewSinkInv ==
  ASSUME IInv, NewSink
  PROVE  IInv'
<1> DEFINE first == Installed(NewFlow, setup.sink[1])
           both  == Installed(first, setup.sink[2])
<1>1. /\ DevInv /\ GraphInv /\ app = "sink" /\ UNCHANGED capVars
      /\ UNCHANGED <<loop, on, rpc, rbuf, source_out, fon, fpc, fin, cached_buffer, cached_buffers,
                     filter_out, sink_inputs, sink_in, stops>>
  BY DEF IInv, NewSink, At, sourceVars, filterVars, sinkVars
<1>2. \/ app' = "stop" /\ UNCHANGED <<graph, crashed>>
      \/ graph' = [graph EXCEPT !.sink = first] /\ app' = "wire" /\ UNCHANGED crashed
      \/ /\ Len(setup.sink) # 1
         /\ graph' = [graph EXCEPT !.sink = both] /\ app' = "wire"
         /\ crashed' = Aborts(first, setup.sink[2])
  BY DEF NewSink
<1>3. UNCHANGED <<openVars, devVars>> /\ NoFault
  BY <1>1 DEF capVars, NoFault
<1>4. DevInv'
  <2>1. Frames' = Frames
    BY <1>1, FramesSame
  <2>2. Passes
    BY <1>1, <1>2 DEF Passes, Live, Building
  <2> QED BY <1>1, <1>3, <2>1, <2>2, DevKept
<1>5. GraphTypes'
  <2>1. app' \in {"source", "end"} \cup Live \cup Gone
    BY <1>1, <1>2 DEF Live
  <2>2. Aborts(first, setup.sink[2]) \in BOOLEAN
    BY DEF Aborts
  <2>3. crashed' \in BOOLEAN
    BY <1>1, <1>2, <2>2, Zenon DEF GraphInv, GraphTypes
  <2> QED BY <1>1, <1>3, <2>1, <2>3, SameTypes DEF GraphInv, GraphTypes
<1>6. CASE app' = "stop" /\ UNCHANGED <<graph, crashed>>
  <2>1. Shape'
    BY <1>1, <1>6, SameGraph DEF GraphInv, Shape
  <2>2. Threads'
    BY <1>1, <1>6, SameGraph DEF GraphInv, Threads, Live
  <2> QED BY <1>4, <1>5, <2>1, <2>2 DEF IInv, GraphInv
<1>7. ASSUME NEW made, graph' = [graph EXCEPT !.sink = made], app' = "wire",
             DOMAIN made = FlowFields, Counted(made.v_input)
      PROVE  IInv'
  <2>1. /\ DOMAIN graph = {"source", "filter", "sink"} /\ HasInput
        /\ DOMAIN source = FlowFields /\ DOMAIN filter = FlowFields
    BY <1>1 DEF GraphInv, Shape
  <2>2. /\ source' = source /\ filter' = filter /\ sink' = made
        /\ DOMAIN graph' = {"source", "filter", "sink"}
    BY <1>7, <2>1 DEF source, filter, sink
  <2>3. HasInput' = HasInput /\ fmodel' = fmodel
    BY <2>2 DEF HasInput, fmodel
  <2>4. Shape'
    BY <1>1, <1>7, <2>1, <2>2, <2>3 DEF Shape, Counted
  <2>5. Threads'
    BY <1>1, <1>7, <2>1, <2>2, <2>3 DEF GraphInv, Threads, Live
  <2> QED BY <1>4, <1>5, <2>4, <2>5 DEF IInv, GraphInv
<1>8. Len(setup.sink) \in 1..2 /\ \A k \in 1..Len(setup.sink) : SlotMapOK(setup.sink[k])
  BY <1>1, SetupsAssumption DEF DevInv, DevTypes
<1>9. DOMAIN first = FlowFields /\ Counted(first.v_input)
  <2>1. /\ DOMAIN first = FlowFields
        /\ first.v_input = Inputs(NoSlots, setup.sink[1])
    BY NewFlowFacts, InstalledFacts
  <2>2. SlotMapOK(setup.sink[1])
    BY <1>8
  <2> HIDE DEF first
  <2> QED BY <2>1, <2>2, NewFlowFacts, FilledInputs
<1>10. ASSUME Len(setup.sink) # 1
       PROVE  DOMAIN both = FlowFields /\ Counted(both.v_input)
  <2>1. /\ DOMAIN both = FlowFields
        /\ both.v_input = Inputs(first.v_input, setup.sink[2])
    BY <1>9, InstalledFacts
  <2>2. SlotMapOK(setup.sink[2])
    BY <1>8, <1>10
  <2> HIDE DEF first, both
  <2> QED BY <1>9, <2>1, <2>2, FilledInputs
<1> HIDE DEF first, both
<1> QED BY <1>2, <1>6, <1>7, <1>9, <1>10

\* An output is connected, or no more; the reader may be woken.
LEMMA Rewired ==
  ASSUME IInv, app = "wire", app' \in {"wire", "unwired"}, UNCHANGED capVars,
         UNCHANGED <<loop, on, rbuf, source_out, fon, fpc, fin, cached_buffer, cached_buffers,
                     filter_out, sink_inputs, sink_in, stops, crashed>>,
         rpc' = rpc \/ Wake,
         NEW made, DOMAIN made = FlowFields,
         \/ graph' = [graph EXCEPT !.source = made]
         \/ graph' = [graph EXCEPT !.filter = made] /\ made.v_input = filter.v_input
  PROVE  IInv'
<1>1. DevInv /\ GraphInv /\ UNCHANGED <<openVars, devVars>> /\ NoFault
  BY DEF IInv, capVars, NoFault
<1>2. DevInv'
  <2>1. Frames' = Frames
    BY FramesSame
  <2>2. Passes
    BY DEF Passes, Live, Building
  <2> QED BY <1>1, <2>1, <2>2, DevKept
<1>3. GraphTypes'
  <2>1. rpc' \in {rpc, "loop"} /\ app' \in Live
    BY DEF Wake, Live
  <2> QED BY <1>1, <2>1, SameTypes DEF GraphInv, GraphTypes
<1>4. /\ DOMAIN graph = {"source", "filter", "sink"} /\ HasInput
      /\ DOMAIN source = FlowFields /\ DOMAIN filter = FlowFields /\ DOMAIN sink = FlowFields
  BY <1>1 DEF GraphInv, Shape
<1>5. /\ DOMAIN graph' = {"source", "filter", "sink"} /\ sink' = sink
      /\ DOMAIN source' = FlowFields /\ DOMAIN filter' = FlowFields
      /\ filter'.v_input = filter.v_input
  BY <1>4 DEF source, filter, sink
<1>6. HasInput' = HasInput /\ fmodel' = fmodel
  BY <1>5 DEF HasInput, fmodel
<1>7. Shape'
  BY <1>1, <1>4, <1>5, <1>6 DEF GraphInv, Shape
<1>8. Threads'
  <2>1. on
    BY <1>1, Zenon DEF GraphInv, Threads
  <2>2. /\ rpc' # "none" /\ rpc' \in {rpc, "loop"} /\ (rpc = "sync" => rpc' = "sync")
        /\ (rpc' \in {"none", "wait", "asleep", "loop", "start", "dqbuf", "ended"} => rbuf = Null)
        /\ (fpc # "process" => fin = Null)
        /\ (fpc = "process" /\ fmodel = "SYNC" => rpc = "sync")
    BY <1>1 DEF GraphInv, Threads, Live, Wake
  <2>3. app' \in Live /\ app' \notin {"source", "off", "notify", "join"}
    BY DEF Live
  <2> QED BY <1>4, <1>6, <2>1, <2>2, <2>3 DEF Threads
<1> QED BY <1>2, <1>3, <1>7, <1>8 DEF IInv, GraphInv

LEMMA WiringInv ==
  ASSUME IInv, WireSource \/ WireFilter \/ Unwire
  PROVE  IInv'
<1>1. DOMAIN source = FlowFields /\ DOMAIN filter = FlowFields
  BY DEF IInv, GraphInv, Shape
<1>2. CASE WireSource
  <2> DEFINE made == AddDownFlow(source, "filter", 0, 0)
  <2>1. graph' = [graph EXCEPT !.source = made] /\ DOMAIN made = FlowFields
    BY <1>1, <1>2, ConnectedFacts DEF WireSource, source
  <2> HIDE DEF made
  <2> QED BY <1>2, <2>1, Rewired DEF WireSource, At, filterVars, sinkVars
<1>3. CASE WireFilter
  <2> DEFINE made == AddDownFlow(filter, "sink", 0, setup.slot)
  <2>1. /\ graph' = [graph EXCEPT !.filter = made] /\ DOMAIN made = FlowFields
        /\ made.v_input = filter.v_input
    BY <1>1, <1>3, ConnectedFacts DEF WireFilter, filter
  <2> HIDE DEF made
  <2> QED BY <1>3, <2>1, Rewired DEF WireFilter, At, sourceVars, filterVars, sinkVars
<1>4. CASE Unwire
  <2> DEFINE made == RemoveDownFlow(source, "filter")
  <2>1. graph' = [graph EXCEPT !.source = made] /\ DOMAIN made = FlowFields
    BY <1>1, <1>4, ConnectedFacts DEF Unwire, source
  <2> HIDE DEF made
  <2> QED BY <1>4, <2>1, Rewired DEF Unwire, At, filterVars, sinkVars
<1> QED BY <1>2, <1>3, <1>4

-----------------------------------------------------------------------------
(* The pipeline is taken down.                                             *)

\* The application goes on, and the flows stay what they are.
LEMMA SameFlows ==
  ASSUME GraphInv, UNCHANGED openVars,
         UNCHANGED <<graph, rbuf, source_out, fpc, fin, cached_buffer, cached_buffers,
                     filter_out, sink_inputs, sink_in, crashed>>,
         stops' \in 0..setup.stops, loop' \in BOOLEAN, on' \in BOOLEAN, fon' \in BOOLEAN,
         rpc' \in {rpc, "loop"},
         app' \in {app} \cup ((Live \ {"filter", "sink", "wire", "unwired"}) \cup Gone \cup {"end"})
  PROVE  GraphTypes' /\ Shape'
<1>1. GraphTypes'
  BY SameTypes DEF GraphInv, GraphTypes
<1>2. Shape'
  BY SameGraph DEF GraphInv, Shape, Live, Gone
<1> QED BY <1>1, <1>2

LEMMA ControlStreamOffInv ==
  ASSUME IInv, ControlStreamOff
  PROVE  IInv'
<1>1. /\ DevInv /\ GraphInv /\ app = "wire" /\ StreamOff /\ stops < setup.stops /\ stops' = stops + 1
      /\ UNCHANGED <<app, graph, loop, on, rpc, rbuf, source_out, fon, fpc, fin, cached_buffer,
                     cached_buffers, filter_out, sink_inputs, sink_in, crashed>>
  BY DEF IInv, ControlStreamOff, At, appVars, sourceVars, filterVars, sinkVars
<1>2. UNCHANGED openVars
  BY <1>1 DEF StreamOff
<1>3. stops \in Nat /\ setup.stops \in Nat
  <2>1. setup.stops \in Nat
    BY <1>1, SetupsAssumption DEF DevInv, DevTypes
  <2> QED BY <1>1, <2>1 DEF GraphInv, GraphTypes
<1>4. stops' # 0 /\ stops' \in 0..setup.stops
  BY <1>1, <1>3
<1>5. DevInv'
  <2>1. Frames' = Frames
    BY <1>1, FramesSame
  <2>2. app \in Live /\ app' \in Live
    BY <1>1 DEF Live
  <2> QED BY <1>1, <1>4, <2>1, <2>2, DevSwitchedOff
<1>6. GraphTypes' /\ Shape'
  <2>1. loop' \in BOOLEAN /\ on' \in BOOLEAN /\ fon' \in BOOLEAN
    BY <1>1 DEF GraphInv, GraphTypes
  <2> QED BY <1>1, <1>2, <1>4, <2>1, SameFlows
<1>7. Threads'
  BY <1>1, SameGraph DEF GraphInv, Threads
<1> QED BY <1>5, <1>6, <1>7 DEF IInv, GraphInv

LEMMA StopInv ==
  ASSUME IInv, Stop
  PROVE  IInv'
<1>1. /\ DevInv /\ GraphInv /\ app \in {"wire", "unwired", "stop"} /\ app' = "off"
      /\ loop' = FALSE /\ on' = FALSE /\ UNCHANGED <<openVars, devVars>> /\ NoFault
      /\ UNCHANGED <<graph, rpc, rbuf, source_out, fon, fpc, fin, cached_buffer,
                     cached_buffers, filter_out, sink_inputs, sink_in, stops, crashed>>
  BY DEF IInv, Stop, At, filterVars, sinkVars, capVars, NoFault
<1>2. DevInv'
  <2>1. Frames' = Frames
    BY <1>1, FramesSame
  <2>2. Passes
    BY <1>1 DEF Passes, Live, Building
  <2> QED BY <1>1, <2>1, <2>2, DevKept
<1>3. GraphTypes' /\ Shape'
  <2>1. /\ loop' \in BOOLEAN /\ on' \in BOOLEAN /\ fon' \in BOOLEAN
        /\ stops' \in 0..setup.stops
    BY <1>1 DEF GraphInv, GraphTypes
  <2>2. app' \in Live \ {"filter", "sink", "wire", "unwired"}
    BY <1>1 DEF Live
  <2> QED BY <1>1, <2>1, <2>2, SameFlows
<1>4. Threads'
  <2>1. ~HasInput => /\ fpc = "none"
                     /\ rpc \in {"none", "wait", "asleep", "loop", "ended"}
    BY <1>1, Zenon DEF GraphInv, Threads
  <2> QED BY <1>1, SameGraph DEF GraphInv, Threads, Live
<1> QED BY <1>2, <1>3, <1>4 DEF IInv, GraphInv

\* What is let go is put back, or the call fails.
LEMMA DevAfterRelease ==
  ASSUME DevInv, Passes, Frames' \subseteq Frames, Release \/ (PutBack(FALSE) /\ Fault)
  PROVE  DevInv' /\ UNCHANGED openVars
<1>1. PICK fails \in BOOLEAN : Put(Frames \ Frames', Frames', fails) /\ UNCHANGED openVars
                               /\ (NoFault \/ Fault)
  BY DEF Release, PutBack
<1> QED BY <1>1, DevReleases

LEMMA StopStreamInv ==
  ASSUME IInv, StopStream
  PROVE  IInv'
<1>1. /\ DevInv /\ GraphInv /\ app = "off" /\ app' = "notify" /\ StreamOff
      /\ UNCHANGED <<graph, loop, on, rpc, rbuf, source_out, fon, fpc, fin, cached_buffer,
                     cached_buffers, filter_out, sink_inputs, sink_in, stops, crashed>>
  BY DEF IInv, StopStream, At, sourceVars, filterVars, sinkVars
<1>2. UNCHANGED openVars
  BY <1>1 DEF StreamOff
<1>3. DevInv'
  <2>1. Frames' = Frames
    BY <1>1, FramesSame
  <2>2. app \in Live /\ app' \in Live /\ app' \notin Building
    BY <1>1 DEF Live, Building
  <2> QED BY <1>1, <2>1, <2>2, DevSwitchedOff
<1>4. GraphTypes' /\ Shape'
  <2>1. /\ loop' \in BOOLEAN /\ on' \in BOOLEAN /\ fon' \in BOOLEAN
        /\ stops' \in 0..setup.stops
    BY <1>1, <1>2 DEF GraphInv, GraphTypes
  <2>2. app' \in Live \ {"filter", "sink", "wire", "unwired"}
    BY <1>1 DEF Live
  <2> QED BY <1>1, <1>2, <2>1, <2>2, SameFlows
<1>5. Threads'
  BY <1>1, SameGraph DEF GraphInv, Threads, Live
<1> QED BY <1>3, <1>4, <1>5 DEF IInv, GraphInv

LEMMA NotifyReaderInv ==
  ASSUME IInv, NotifyReader
  PROVE  IInv'
<1>1. /\ DevInv /\ GraphInv /\ app = "notify" /\ app' = "join" /\ Wake
      /\ UNCHANGED <<openVars, devVars>> /\ NoFault
      /\ UNCHANGED <<graph, loop, on, rbuf, source_out, fon, fpc, fin, cached_buffer,
                     cached_buffers, filter_out, sink_inputs, sink_in, stops, crashed>>
  BY DEF IInv, NotifyReader, At, filterVars, sinkVars, capVars, NoFault
<1>2. DevInv'
  <2>1. Frames' = Frames
    BY <1>1, FramesSame
  <2>2. Passes
    BY <1>1 DEF Passes, Live, Building
  <2> QED BY <1>1, <2>1, <2>2, DevKept
<1>3. GraphTypes' /\ Shape'
  <2>1. /\ loop' \in BOOLEAN /\ on' \in BOOLEAN /\ fon' \in BOOLEAN
        /\ stops' \in 0..setup.stops
    BY <1>1 DEF GraphInv, GraphTypes
  <2>2. app' \in Live \ {"filter", "sink", "wire", "unwired"} /\ rpc' \in {rpc, "loop"}
    BY <1>1 DEF Live, Wake
  <2> QED BY <1>1, <2>1, <2>2, SameFlows
<1>4. Threads'
  <2>1. ~loop /\ ~loop'
    BY <1>1, Zenon DEF GraphInv, Threads
  <2>2. ~HasInput => fpc = "none" /\ rpc \in {"none", "wait", "asleep", "loop", "ended"}
    BY <1>1, Zenon DEF GraphInv, Threads
  <2>3. ~HasInput' => /\ fpc' = "none"
                      /\ rpc' = "none" \/ (rpc' \in {"wait", "asleep", "loop", "ended"} /\ ~loop')
    BY <1>1, <2>1, <2>2, SameGraph DEF Wake
  <2>4. /\ rpc' # "none" /\ (rpc = "sync" => rpc' = "sync")
        /\ (rpc' \in {"none", "wait", "asleep", "loop", "start", "dqbuf", "ended"} => rbuf' = Null)
        /\ (fpc' # "process" => fin' = Null)
        /\ (fpc' = "process" /\ fmodel' = "SYNC" => rpc = "sync")
    BY <1>1, SameGraph DEF GraphInv, Threads, Live, Wake
  <2>5. app' \in Live /\ app' \notin {"source", "filter", "sink", "wire", "unwired"}
    BY <1>1 DEF Live
  <2> QED BY <1>1, <2>1, <2>3, <2>4, <2>5 DEF Threads
<1> QED BY <1>2, <1>3, <1>4 DEF IInv, GraphInv

LEMMA DeleteStreamInv ==
  ASSUME IInv, DeleteStream
  PROVE  IInv'
<1>1. /\ DevInv /\ GraphInv /\ app = "join" /\ rpc = "ended" /\ app' = "members"
      /\ CloseStream(Frames)
      /\ UNCHANGED <<graph, loop, on, rpc, rbuf, source_out, fon, fpc, fin, cached_buffer,
                     cached_buffers, filter_out, sink_inputs, sink_in, stops, crashed>>
  BY DEF IInv, DeleteStream, At, sourceVars, filterVars, sinkVars
<1>2. UNCHANGED openVars
  BY <1>1 DEF CloseStream
<1>3. DevInv'
  <2>1. Frames' = Frames
    BY <1>1, FramesSame
  <2>2. app \in Live /\ app' \in Gone
    BY <1>1 DEF Live, Gone
  <2> QED BY <1>1, <2>1, <2>2, DevCloses
<1>4. GraphTypes' /\ Shape'
  <2>1. /\ loop' \in BOOLEAN /\ on' \in BOOLEAN /\ fon' \in BOOLEAN
        /\ stops' \in 0..setup.stops
    BY <1>1, <1>2 DEF GraphInv, GraphTypes
  <2>2. app' \in Gone
    BY <1>1 DEF Gone
  <2> QED BY <1>1, <1>2, <2>1, <2>2, SameFlows
<1>5. Threads'
  BY <1>1, SameGraph DEF GraphInv, Threads, Live
<1> QED BY <1>3, <1>4, <1>5 DEF IInv, GraphInv

\* The stream is gone: what is left of source, filter and sink goes.
LEMMA GoneInv ==
  ASSUME IInv, app \in Gone, app' \in Gone \cup {"end"},
         UNCHANGED <<graph, loop, on, rpc, rbuf, fpc, fin, sink_in, stops, crashed>>,
         fon' \in BOOLEAN,
         source_out' \in {source_out, Null}, cached_buffer' \in {cached_buffer, Null},
         cached_buffers' = cached_buffers \/ cached_buffers' = <<>>,
         filter_out' \in {filter_out, NoOut}, sink_inputs' = sink_inputs \/ sink_inputs' = <<>>,
         Release \/ (UNCHANGED <<openVars, devVars>> /\ NoFault /\ Frames' = Frames)
  PROVE  IInv'
<1>1. DevInv /\ GraphInv
  BY DEF IInv
<1>2. Frames' \subseteq Frames
  BY ToSetEmpty DEF Frames, NoOut, Out
<1>3. Passes
  BY DEF Passes, Gone, Live, Building
<1>4. DevInv' /\ UNCHANGED openVars
  BY <1>1, <1>2, <1>3, DevKept, DevAfterRelease
<1>5. GraphTypes'
  <2>1. NoOut \in Outs /\ Null \in MaybeFrame
    BY DEF NoOut, Out, Outs, MaybeFrame
  <2>2. cached_buffers' \in Seq(MaybeFrame) /\ sink_inputs' \in Seq(Outs)
    <3>1. <<>> \in Seq(MaybeFrame) /\ <<>> \in Seq(Outs)
      BY EmptySeq
    <3>2. cached_buffers \in Seq(MaybeFrame) /\ sink_inputs \in Seq(Outs)
      BY <1>1 DEF GraphInv, GraphTypes
    <3> QED BY <3>1, <3>2
  <2> QED BY <1>1, <1>4, <2>1, <2>2, SameTypes DEF GraphInv, GraphTypes
<1>6. Shape'
  BY <1>1, SameGraph DEF GraphInv, Shape, Gone
<1>7. Threads'
  <2>1. app \notin Live /\ app' \notin Live \cup {"source"} /\ rpc \in {"none", "ended"}
    BY <1>1 DEF GraphInv, Threads, Live, Gone
  <2>2. app' \notin {"source", "filter", "sink", "wire", "unwired", "off", "notify", "join"}
    BY DEF Gone
  <2>3. ~HasInput => fpc = "none" /\ (rpc = "none" \/ ~loop)
    BY <1>1, <2>1, Zenon DEF GraphInv, Threads
  <2> QED BY <1>1, <2>1, <2>2, SameGraph DEF GraphInv, Threads
<1> QED BY <1>4, <1>5, <1>6, <1>7 DEF IInv, GraphInv

LEMMA GoingInv ==
  ASSUME IInv, DeleteSource \/ StopFilter \/ DeleteFilter \/ DeleteSink
  PROVE  IInv'
<1>1. fon \in BOOLEAN
  BY DEF IInv, GraphInv, GraphTypes
<1>2. /\ app \in Gone /\ app' \in Gone \cup {"end"}
      /\ UNCHANGED <<graph, loop, on, rpc, rbuf, fpc, fin, sink_in, stops, crashed>>
  BY DEF DeleteSource, StopFilter, DeleteFilter, DeleteSink, At, Gone, sourceVars, filterVars,
         sinkVars
<1>3. CASE DeleteSource
  BY <1>1, <1>2, <1>3, GoneInv DEF DeleteSource, filterVars, sinkVars
<1>4. CASE StopFilter
  <2>1. UNCHANGED <<source_out, cached_buffer, cached_buffers, filter_out, sink_inputs>>
        /\ fon' = FALSE /\ UNCHANGED <<openVars, devVars>> /\ NoFault
    BY <1>4 DEF StopFilter, sourceVars, sinkVars, capVars, NoFault
  <2>2. Frames' = Frames
    BY <1>2, <2>1, FramesSame
  <2> QED BY <1>2, <2>1, <2>2, GoneInv
<1>5. CASE DeleteFilter
  BY <1>1, <1>2, <1>5, GoneInv DEF DeleteFilter, sourceVars, sinkVars
<1>6. CASE DeleteSink
  BY <1>1, <1>2, <1>6, GoneInv DEF DeleteSink, sourceVars, filterVars
<1> QED BY <1>3, <1>4, <1>5, <1>6

-----------------------------------------------------------------------------
(* The threads.                                                            *)

\* A step of the reader or the filter when the filter is there.
LEMMA ThreadStep ==
  ASSUME GraphInv, HasInput, UNCHANGED openVars,
         UNCHANGED <<app, graph, loop, on, fon, stops, sink_in>>, crashed' \in BOOLEAN,
         rbuf' \in MaybeFrame, source_out' \in MaybeFrame, fin' \in MaybeFrame,
         cached_buffer' \in MaybeFrame, cached_buffers' \in Seq(MaybeFrame),
         filter_out' \in Outs, sink_inputs' \in Seq(Outs),
         \/ rpc' = rpc
         \/ /\ rpc \notin {"none", "ended"}
            /\ rpc' \in {"loop", "start", "dqbuf", "send", "process", "sync", "ended"},
         fpc' \in {"none", "idle", "fetch", "process", "ended"},
         rpc' \in {"none", "wait", "asleep", "loop", "start", "dqbuf", "ended"} => rbuf' = Null,
         fpc' # "process" => fin' = Null,
         fpc' = "process" /\ fmodel = "SYNC" => rpc' = "sync"
  PROVE  GraphInv'
<1>1. app \notin {"source", "filter"}
  <2>1. app \in {"source", "filter"} => filter = NewFlow
    BY DEF GraphInv, Shape
  <2> QED BY <2>1, NewFlowFacts DEF HasInput
<1>2. GraphTypes'
  BY SameTypes DEF GraphInv, GraphTypes
<1>3. Shape'
  BY <1>1, SameGraph DEF GraphInv, Shape
<1>4. Threads'
  <2>1. /\ app \in Live => rpc' # "none"
        /\ rpc' \notin {"none", "ended"} => app \in Live
    BY DEF GraphInv, Threads
  <2>2. /\ app \in {"source", "filter", "sink", "wire", "unwired"} => on
        /\ app \in {"off", "notify", "join"} => ~loop
    BY Zenon DEF GraphInv, Threads
  <2>3. HasInput' /\ fmodel' = fmodel
    BY SameGraph
  <2> QED BY <1>1, <2>1, <2>2, <2>3 DEF Threads
<1> QED BY <1>2, <1>3, <1>4 DEF GraphInv

\* What the invariant says of the values.
LEMMA ValueTypes ==
  ASSUME IInv
  PROVE  /\ DevInv /\ GraphInv
         /\ rbuf \in MaybeFrame /\ source_out \in MaybeFrame /\ fin \in MaybeFrame
         /\ cached_buffer \in MaybeFrame /\ cached_buffers \in Seq(MaybeFrame)
         /\ filter_out \in Outs /\ sink_in \in Outs /\ sink_inputs \in Seq(Outs)
         /\ Null \in MaybeFrame /\ NoOut \in Outs
         /\ fpc \in {"none", "idle", "fetch", "process", "ended"}
         /\ rpc \in {"none", "wait", "asleep", "loop", "start", "dqbuf", "ended"} => rbuf = Null
         /\ fpc # "process" => fin = Null
         /\ fpc = "process" /\ fmodel = "SYNC" => rpc = "sync"
         /\ rpc \notin {"none", "ended"} => app \in Live
         /\ fpc # "none" => HasInput
         /\ rpc \notin {"none", "wait", "asleep", "loop", "ended"} => HasInput
<1>1. NoOut \in Outs /\ Null \in MaybeFrame
  BY DEF NoOut, Out, Outs, MaybeFrame
<1>2. /\ fpc # "none" => HasInput
      /\ rpc \notin {"none", "wait", "asleep", "loop", "ended"} => HasInput
  BY Zenon DEF IInv, GraphInv, Threads
<1> QED BY <1>1, <1>2 DEF IInv, GraphInv, GraphTypes, Threads

LEMMA ReaderLoopInv ==
  ASSUME IInv, ReadWait \/ ReadLoop
  PROVE  IInv'
<1>1. /\ UNCHANGED capVars
      /\ UNCHANGED <<app, graph, loop, on, stops, rbuf, source_out, fon, fpc, fin, cached_buffer,
                     cached_buffers, filter_out, sink_inputs, sink_in, crashed>>
  BY DEF ReadWait, ReadLoop, ReaderOnly, appVars, filterVars, sinkVars
<1>2. \/ rpc = "wait" /\ rpc' = "asleep" /\ source.down_flow_num = 0 /\ on
      \/ rpc = "wait" /\ rpc' = "loop" /\ ~(source.down_flow_num = 0 /\ on)
      \/ rpc = "loop" /\ rpc' = "start" /\ loop
      \/ rpc = "loop" /\ rpc' = "ended" /\ ~loop
  BY DEF ReadWait, ReadLoop
<1>3. DevInv'
  <2>1. Frames' = Frames
    BY <1>1, FramesSame
  <2>2. Passes /\ UNCHANGED <<openVars, devVars>> /\ NoFault
    BY <1>1 DEF Passes, capVars, NoFault
  <2> QED BY <2>1, <2>2, DevKept DEF IInv
<1>4. GraphTypes' /\ Shape'
  <2>1. UNCHANGED openVars /\ rpc' \in {"asleep", "loop", "start", "ended"}
    BY <1>1, <1>2 DEF capVars
  <2> QED BY <1>1, <2>1, SameTypes, SameGraph DEF IInv, GraphInv, GraphTypes, Shape
<1>5. Threads'
  <2>1. ~HasInput => fpc = "none" /\ (~loop \/ (rpc = "wait" /\ on /\ source.down_flow_num = 0))
    BY <1>2, Zenon DEF IInv, GraphInv, Threads
  <2>2. ~HasInput' => /\ fpc' = "none"
                      /\ \/ rpc' = "asleep" /\ on' /\ source'.down_flow_num = 0
                         \/ rpc' \in {"asleep", "loop", "ended"} /\ ~loop'
    BY <1>1, <1>2, <2>1, SameGraph
  <2>3. /\ app' \in Live /\ app' # "source" /\ rpc' # "none" /\ rbuf' = Null
        /\ (fpc' # "process" => fin' = Null)
        /\ ~(fpc' = "process" /\ fmodel' = "SYNC")
    BY <1>1, <1>2, SameGraph DEF IInv, GraphInv, Threads, Live
  <2>4. /\ app' \in {"source", "filter", "sink", "wire", "unwired"} => on'
        /\ app' \in {"off", "notify", "join"} => ~loop'
    BY <1>1, Zenon DEF IInv, GraphInv, Threads
  <2> QED BY <2>2, <2>3, <2>4 DEF Threads
<1> QED BY <1>3, <1>4, <1>5 DEF IInv, GraphInv

LEMMA ReadStartInv ==
  ASSUME IInv, ReadStart
  PROVE  IInv'
<1>1. /\ rpc = "start" /\ SetStarted /\ rpc' = "dqbuf"
      /\ UNCHANGED <<app, graph, loop, on, stops, rbuf, source_out, fon, fpc, fin, cached_buffer,
                     cached_buffers, filter_out, sink_inputs, sink_in, crashed>>
  BY DEF ReadStart, ReaderOnly, appVars, filterVars, sinkVars
<1>2. UNCHANGED openVars
  BY <1>1, Zenon DEF SetStarted, capVars
<1>3. DevInv'
  <2>1. Frames' = Frames
    BY <1>1, FramesSame
  <2> QED BY <1>1, <2>1, ValueTypes, DevStarts
<1>4. GraphInv'
  <2>1. crashed' \in BOOLEAN
    BY <1>1 DEF IInv, GraphInv, GraphTypes
  <2> QED BY <1>1, <1>2, <2>1, ValueTypes, ThreadStep
<1> QED BY <1>3, <1>4 DEF IInv

\* The reader takes the buffer that was filled first, or none.
LEMMA DequeueInv ==
  ASSUME IInv, Dequeue
  PROVE  IInv'
<1>1. /\ rpc = "dqbuf" /\ rpc' = "send"
      /\ UNCHANGED <<app, graph, loop, on, stops, source_out, fon, fpc, fin, cached_buffer,
                     cached_buffers, filter_out, sink_inputs, sink_in, crashed>>
  BY DEF Dequeue, ReaderOnly, appVars, filterVars, sinkVars
<1>2. DevInv /\ GraphInv /\ rbuf = Null /\ app \in Live /\ HasInput
  BY <1>1, ValueTypes
<1>3. rbuf' = Null => Frames' = Frames
  BY <1>1, <1>2 DEF Frames
<1>5. crashed' \in BOOLEAN
  BY <1>1 DEF IInv, GraphInv, GraphTypes
<1>6. ASSUME UNCHANGED openVars, rbuf' \in MaybeFrame
      PROVE  GraphInv'
  BY <1>1, <1>2, <1>5, <1>6, ValueTypes, ThreadStep
<1>7. CASE rbuf' = Null /\ UNCHANGED <<openVars, devVars>> /\ (NoFault \/ Fault)
  <2>1. Passes
    BY <1>1 DEF Passes
  <2> QED BY <1>2, <1>3, <1>6, <1>7, <2>1, ValueTypes, DevKept DEF IInv
<1>8. CASE /\ ctx.started /\ filled # <<>> /\ filled' = Tail(filled)
           /\ rbuf' = Head(filled).index
           /\ UNCHANGED <<openVars, faults, queue, lost, buffer_vec, vec, ctx, started>>
  <2>1. Head(filled).index \in Indices
    BY <1>2, <1>8, FilledTail
  <2>2. Head(filled).index \in MaybeFrame /\ Head(filled).index # Null
    BY <1>2, <2>1 DEF MaybeFrame, Indices, Null, DevInv, DevTypes
  <2>3. Frames' = Frames \cup {Head(filled).index}
    <3> DEFINE x == Head(filled).index
    <3>1. rbuf' = x /\ x # Null
      BY <1>8, <2>2
    <3> HIDE DEF x
    <3>2. Frames' = Frames \cup {x}
      BY <1>1, <1>2, <3>1 DEF Frames
    <3> QED BY <3>2 DEF x
  <2>4. DevInv'
    BY <1>1, <1>2, <1>8, <2>3, DevLends
  <2> QED BY <1>6, <1>8, <2>2, <2>4 DEF IInv
<1>9. CASE /\ ctx.started /\ filled # <<>> /\ filled' = Tail(filled) /\ rbuf' = Null
           /\ \/ QBUF({Head(filled).index}, FALSE) /\ NoFault
              \/ QBUF({Head(filled).index}, TRUE) /\ Fault
           /\ UNCHANGED <<openVars, buffer_vec, vec, ctx, started>>
  <2>1. PICK fails \in BOOLEAN : QBUF({Head(filled).index}, fails) /\ (NoFault \/ Fault)
    BY <1>9
  <2>2. DevInv'
    BY <1>1, <1>2, <1>3, <1>9, <2>1, DevRequeues
  <2> QED BY <1>6, <1>9, <2>2, ValueTypes DEF IInv
<1> QED BY <1>7, <1>8, <1>9 DEF Dequeue, capVars, NoFault

\* The source's own input takes the frame if the source is still enabled.
LEMMA SourceSendInputInv ==
  ASSUME IInv, SourceSendInput
  PROVE  IInv'
<1>1. /\ rpc = "send" /\ Release
      /\ \/ rpc' = "process" /\ rbuf' = rbuf
         \/ rpc' = "loop" /\ rbuf' = Null
      /\ UNCHANGED <<app, graph, loop, on, stops, source_out, fon, fpc, fin, cached_buffer,
                     cached_buffers, filter_out, sink_inputs, sink_in, crashed>>
  BY DEF SourceSendInput, ReaderOnly, appVars, filterVars, sinkVars
<1>2. DevInv' /\ UNCHANGED openVars
  <2>1. Frames' \subseteq Frames
    BY <1>1 DEF Frames
  <2>2. Passes
    BY <1>1 DEF Passes
  <2> QED BY <1>1, <2>1, <2>2, ValueTypes, DevAfterRelease
<1>3. GraphInv'
  <2>1. crashed' \in BOOLEAN
    BY <1>1 DEF IInv, GraphInv, GraphTypes
  <2> QED BY <1>1, <1>2, <2>1, ValueTypes, ThreadStep
<1> QED BY <1>2, <1>3 DEF IInv

\* The frame goes to the source's output and to the filter's input.
LEMMA SourceRunOnceInv ==
  ASSUME IInv, SourceRunOnce
  PROVE  IInv'
<1> DEFINE buffer == IF on THEN rbuf ELSE Null
           cache  == filter.v_input[0].cache
           full   == cache > 0 /\ Len(cached_buffers) >= cache
<1>1. /\ rpc = "process" /\ Release /\ source_out' = IF on THEN rbuf ELSE source_out
      /\ UNCHANGED <<app, graph, loop, on, stops, fon, filter_out, sink_inputs, sink_in, crashed>>
  BY DEF SourceRunOnce, ReaderOnly, appVars, sinkVars
<1>2. \/ /\ rpc' = "loop" /\ rbuf' = Null
         /\ UNCHANGED <<fpc, fin, cached_buffer, cached_buffers>>
      \/ /\ fin' = buffer /\ fpc' = "process" /\ rpc' = "sync"
         /\ UNCHANGED <<rbuf, cached_buffer, cached_buffers>>
      \/ /\ cached_buffer' = buffer /\ rpc' = "loop" /\ rbuf' = Null
         /\ UNCHANGED <<fpc, fin, cached_buffers>>
      \/ /\ \/ ~full /\ cached_buffers' = Append(cached_buffers, buffer)
            \/ full /\ cached_buffers' = Append(Tail(cached_buffers), buffer)
            \/ full /\ cached_buffers' = cached_buffers
         /\ rpc' = "loop" /\ rbuf' = Null
         /\ UNCHANGED <<fpc, fin, cached_buffer>>
  BY DEF SourceRunOnce
<1>3. buffer \in {rbuf, Null} /\ source_out' \in {rbuf, source_out}
  BY <1>1
<1>4. HasInput /\ cache \in Int
  BY <1>1, ValueTypes DEF HasInput
<1> HIDE DEF buffer, cache
<1>5. /\ cached_buffers' \in Seq(MaybeFrame)
      /\ ToSet(cached_buffers') \subseteq ToSet(cached_buffers) \cup {buffer}
  <2>1. cached_buffers \in Seq(MaybeFrame) /\ buffer \in MaybeFrame
    BY <1>3, ValueTypes
  <2>2. CASE cached_buffers' = cached_buffers
    BY <2>1, <2>2
  <2>3. CASE cached_buffers' = Append(cached_buffers, buffer)
    BY <2>1, <2>3, ToSetFacts, AppendProperties
  <2>4. CASE full /\ cached_buffers' = Append(Tail(cached_buffers), buffer)
    <3> DEFINE rest == Tail(cached_buffers)
    <3>1. cached_buffers # <<>>
      BY <1>4, <2>1, <2>4, FullFacts
    <3>2. rest \in Seq(MaybeFrame) /\ ToSet(rest) \subseteq ToSet(cached_buffers)
      BY <2>1, <3>1, ToSetFacts
    <3>3. cached_buffers' = Append(rest, buffer)
      BY <2>4
    <3> HIDE DEF rest
    <3>4. ToSet(cached_buffers') = ToSet(rest) \cup {buffer}
      BY <2>1, <3>3, <3>2, ToSetFacts
    <3>5. cached_buffers' \in Seq(MaybeFrame)
      BY <2>1, <3>3, <3>2, AppendProperties
    <3> QED BY <3>2, <3>4, <3>5
  <2> QED BY <1>2, <2>2, <2>3, <2>4
<1>6. /\ rbuf' \in {rbuf, Null} /\ fin' \in {fin, buffer} /\ cached_buffer' \in {cached_buffer, buffer}
      /\ rpc' \in {"loop", "sync"} /\ (rpc' = "loop" => rbuf' = Null)
      /\ \/ fpc' = fpc /\ fin' = fin /\ rpc' = "loop"
         \/ fpc' = "process" /\ rpc' = "sync"
  BY <1>2
<1>7. Frames' \subseteq Frames
  <2>1. /\ InOuts' = InOuts
        /\ Single' \subseteq Single \cup {Null} /\ buffer \in Single \cup {Null}
    BY <1>1, <1>3, <1>6 DEF InOuts, Single
  <2>2. Frames' = (Single' \cup ToSet(cached_buffers') \cup InOuts') \ {Null}
    BY DEF Frames, Single, InOuts
  <2> QED BY <1>5, <2>1, <2>2, FramesParts
<1>8. DevInv' /\ UNCHANGED openVars
  <2>1. Passes
    BY <1>1 DEF Passes
  <2> QED BY <1>1, <1>7, <2>1, ValueTypes, DevAfterRelease
<1>9. GraphInv'
  <2>1. crashed' \in BOOLEAN
    BY <1>1 DEF IInv, GraphInv, GraphTypes
  <2>2. /\ rbuf' \in MaybeFrame /\ source_out' \in MaybeFrame /\ fin' \in MaybeFrame
        /\ cached_buffer' \in MaybeFrame
    BY <1>3, <1>6, ValueTypes
  <2>3. /\ (fpc' # "process" => fin' = Null)
        /\ (fpc' = "process" /\ fmodel = "SYNC" => rpc' = "sync")
        /\ fpc' \in {"none", "idle", "fetch", "process", "ended"}
    BY <1>1, <1>6, ValueTypes
  <2> QED BY <1>1, <1>4, <1>5, <1>6, <1>8, <2>1, <2>2, <2>3, ValueTypes, ThreadStep
<1> QED BY <1>8, <1>9 DEF IInv

\* The filter's coroutine takes its input, or ends.
LEMMA FetchInv ==
  ASSUME IInv, ASyncFetchInputCommon \/ ASyncFetchInputAtomic \/ FilterQuit
  PROVE  IInv'
<1>1. /\ fpc = "fetch" /\ UNCHANGED capVars
      /\ UNCHANGED <<app, graph, loop, on, stops, source_out, rpc, rbuf, fon, cached_buffer,
                     filter_out, sink_inputs, sink_in, crashed>>
  BY DEF ASyncFetchInputCommon, ASyncFetchInputAtomic, FilterQuit, FilterOnly, appVars, sinkVars
<1>2. \/ /\ fmodel = "ASYNCCOMMON" /\ cached_buffers # <<>> /\ fpc' = "process"
         /\ fin' = Head(cached_buffers) /\ cached_buffers' = Tail(cached_buffers)
      \/ fmodel = "ASYNCATOMIC" /\ fin' = cached_buffer /\ fpc' = "process" /\ UNCHANGED cached_buffers
      \/ fpc' = "ended" /\ UNCHANGED <<fin, cached_buffers>>
      \/ fmodel = "ASYNCCOMMON" /\ fpc' = "process" /\ UNCHANGED <<fin, cached_buffers>>
  BY DEF ASyncFetchInputCommon, ASyncFetchInputAtomic, FilterQuit
<1>3. fin = Null /\ HasInput
  BY <1>1, ValueTypes
<1>4. /\ cached_buffers' \in Seq(MaybeFrame) /\ fin' \in MaybeFrame
      /\ \/ ToSet(cached_buffers) = {fin'} \cup ToSet(cached_buffers')
         \/ cached_buffers' = cached_buffers /\ fin' \in {cached_buffer, Null}
  <2>1. CASE cached_buffers # <<>> /\ fin' = Head(cached_buffers) /\ cached_buffers' = Tail(cached_buffers)
    BY <2>1, ValueTypes, ToSetFacts
  <2>2. CASE fin' = cached_buffer /\ UNCHANGED cached_buffers
    BY <2>2, ValueTypes
  <2>3. CASE UNCHANGED <<fin, cached_buffers>>
    BY <1>3, <2>3, ValueTypes
  <2> QED BY <1>2, <2>1, <2>2, <2>3
<1>5. Frames' = Frames
  BY <1>1, <1>3, <1>4 DEF Frames
<1>6. DevInv' /\ UNCHANGED openVars
  <2>1. Passes /\ UNCHANGED <<openVars, devVars>> /\ NoFault
    BY <1>1 DEF Passes, capVars, NoFault
  <2> QED BY <1>5, <2>1, ValueTypes, DevKept
<1>7. GraphInv'
  <2>1. crashed' \in BOOLEAN
    BY <1>1 DEF IInv, GraphInv, GraphTypes
  <2>2. /\ fpc' \in {"process", "ended"} /\ (fpc' # "process" => fin' = Null)
        /\ (fpc' = "process" => fmodel # "SYNC")
    BY <1>2, <1>3
  <2> QED BY <1>1, <1>3, <1>4, <1>6, <2>1, <2>2, ValueTypes, ThreadStep
<1> QED BY <1>6, <1>7 DEF IInv

\* What arrives at the flow at the end is queued there, or dropped.
LEMMA ArrivesFacts ==
  ASSUME IInv, NEW out \in Outs, Arrives(out)
  PROVE  /\ sink_inputs' \in Seq(Outs) /\ crashed' \in BOOLEAN
         /\ InOuts' \subseteq InOuts \cup {out.frame}
<1> DEFINE input == sink.v_input[setup.slot]
           full  == input.cache > 0 /\ Len(sink_inputs) >= input.cache
           to    == SendInputTo(sink, setup.slot)
<1>1. crashed \in BOOLEAN /\ sink_inputs \in Seq(Outs)
  BY DEF IInv, GraphInv, GraphTypes
<1>2. \/ UNCHANGED <<sink_inputs, crashed>>
      \/ crashed' = TRUE /\ UNCHANGED sink_inputs
      \/ /\ to = "ASYNCCOMMON" /\ UNCHANGED crashed
         /\ \/ ~full /\ sink_inputs' = Append(sink_inputs, out)
            \/ full /\ sink_inputs' = Append(Tail(sink_inputs), out)
            \/ full /\ sink_inputs' = sink_inputs
  BY DEF Arrives
<1>3. crashed' \in BOOLEAN
  BY <1>1, <1>2
<1>4. to = "ASYNCCOMMON" => input.cache \in Int
  BY DEF SendInputTo, IInv, GraphInv, Shape
<1> HIDE DEF input, to
<1>5. CASE sink_inputs' = sink_inputs
  BY <1>1, <1>3, <1>5 DEF InOuts
<1>6. CASE sink_inputs' = Append(sink_inputs, out)
  BY <1>1, <1>3, <1>6, OutsFacts DEF InOuts
<1>7. CASE to = "ASYNCCOMMON" /\ full /\ sink_inputs' = Append(Tail(sink_inputs), out)
  <2> DEFINE rest == Tail(sink_inputs)
  <2>1. sink_inputs # <<>>
    BY <1>1, <1>4, <1>7, FullFacts
  <2>2. rest \in Seq(Outs) /\ {o.frame : o \in ToSet(rest)} \subseteq {o.frame : o \in ToSet(sink_inputs)}
    BY <1>1, <2>1, OutsFacts
  <2>3. sink_inputs' = Append(rest, out)
    BY <1>7
  <2> HIDE DEF rest
  <2>4. /\ sink_inputs' \in Seq(Outs)
        /\ {o.frame : o \in ToSet(sink_inputs')} = {o.frame : o \in ToSet(rest)} \cup {out.frame}
    BY <2>2, <2>3, OutsFacts
  <2> QED BY <1>3, <2>2, <2>4 DEF InOuts
<1> QED BY <1>2, <1>5, <1>6, <1>7

\* RunOnce ends: the frame that was worked on is let go, and what was made of it
\* refers to that frame or to none.
LEMMA RunOnceInv ==
  ASSUME IInv, fpc = "process", Returns, FilterOnly,
         UNCHANGED <<fon, cached_buffer, cached_buffers, sink_in>>,
         Release \/ (PutBack(FALSE) /\ Fault),
         crashed' \in BOOLEAN, sink_inputs' \in Seq(Outs), InOuts' \subseteq InOuts \cup {fin, Null},
         filter_out' \in Outs, filter_out'.frame \in {filter_out.frame, fin, Null}
  PROVE  IInv'
<1>1. /\ fin' = Null /\ UNCHANGED <<app, graph, loop, on, source_out, stops>>
      /\ \/ fmodel = "SYNC" /\ fpc' = "idle" /\ rpc' = "loop" /\ rbuf' = Null
         \/ fmodel # "SYNC" /\ fpc' \in {"fetch", "ended"} /\ UNCHANGED <<rpc, rbuf>>
  BY DEF Returns, FilterOnly, appVars
<1>2. Frames' \subseteq Frames
  <2>1. /\ Single' \subseteq Single \cup {Null} /\ fin \in Single
        /\ ToSet(cached_buffers') = ToSet(cached_buffers)
    BY <1>1 DEF Single
  <2>2. Frames' = (Single' \cup ToSet(cached_buffers') \cup InOuts') \ {Null}
    BY DEF Frames, Single, InOuts
  <2> QED BY <2>1, <2>2, FramesParts
<1>3. DevInv' /\ UNCHANGED openVars
  <2>1. Passes
    BY <1>1 DEF Passes
  <2> QED BY <1>2, <2>1, ValueTypes, DevAfterRelease
<1>4. HasInput /\ (fmodel = "SYNC" => rpc = "sync")
  BY ValueTypes
<1>5. GraphInv'
  BY <1>1, <1>3, <1>4, ValueTypes, ThreadStep
<1> QED BY <1>3, <1>5 DEF IInv

\* Outputs are what the types say.
LEMMA OutTypes ==
  ASSUME NEW frame \in MaybeFrame, NEW kind \in {"null", "empty", setup.filter.name}
  PROVE  Out(kind, frame) \in Outs /\ Out(kind, frame).frame = frame
BY DEF Out, Outs

LEMMA FilterSendsInv ==
  ASSUME IInv, FilterSends
  PROVE  IInv'
<1> DEFINE queued == filter.downflowmap[0].queued
           held   == queued \/ Attached(filter)
           out    == Out(setup.filter.name, IF held THEN Related ELSE Null)
<1>1. /\ fpc = "process" /\ Returns /\ FilterOnly /\ Release
      /\ UNCHANGED <<fon, cached_buffer, cached_buffers, sink_in>>
      /\ Arrives(out) /\ filter_out' = IF queued THEN NoOut ELSE out
  BY DEF FilterSends
<1>2. (IF held THEN Related ELSE Null) \in {fin, Null}
  BY DEF Related
<1>3. out \in Outs /\ out.frame \in {fin, Null}
  BY <1>2, ValueTypes, OutTypes
<1> HIDE DEF out, queued
<1>4. sink_inputs' \in Seq(Outs) /\ crashed' \in BOOLEAN /\ InOuts' \subseteq InOuts \cup {fin, Null}
  BY <1>1, <1>3, ArrivesFacts
<1>5. filter_out' \in Outs /\ filter_out'.frame \in {fin, Null}
  BY <1>1, <1>3, ValueTypes DEF NoOut, Out
<1> QED BY <1>1, <1>4, <1>5, RunOnceInv

LEMMA FilterFailsInv ==
  ASSUME IInv, FilterFails
  PROVE  IInv'
<1> DEFINE out == IF hold = "HOLD_INPUT" THEN Out("empty", fin) ELSE NoOut
<1>1. /\ fpc = "process" /\ Returns /\ FilterOnly
      /\ UNCHANGED <<fon, cached_buffer, cached_buffers, filter_out, sink_in>>
      /\ Release \/ (PutBack(FALSE) /\ Fault)
      /\ Arrives(out) \/ (crashed' = TRUE /\ UNCHANGED sink_inputs)
  BY DEF FilterFails
<1>2. out \in Outs /\ out.frame \in {fin, Null}
  BY ValueTypes, OutTypes DEF NoOut, Out
<1> HIDE DEF out
<1>3. sink_inputs' \in Seq(Outs) /\ crashed' \in BOOLEAN /\ InOuts' \subseteq InOuts \cup {fin, Null}
  <2>1. CASE Arrives(out)
    BY <1>2, <2>1, ArrivesFacts
  <2>2. CASE crashed' = TRUE /\ UNCHANGED sink_inputs
    BY <2>2, ValueTypes DEF InOuts
  <2> QED BY <1>1, <2>1, <2>2
<1> QED BY <1>1, <1>3, ValueTypes, RunOnceInv

LEMMA FilterAbortsInv ==
  ASSUME IInv, FilterAborts
  PROVE  IInv'
<1>1. /\ UNCHANGED <<openVars, devVars>> /\ (NoFault \/ Fault) /\ crashed' = TRUE
      /\ fpc = "process"
      /\ UNCHANGED <<app, graph, loop, on, stops, source_out, rpc, rbuf, fon, fpc, fin, cached_buffer,
                     cached_buffers, filter_out, sink_inputs, sink_in>>
  BY DEF FilterAborts, FilterOnly, appVars, filterVars, sinkVars
<1>2. DevInv'
  <2>1. Frames' = Frames /\ Passes
    BY <1>1, FramesSame DEF Passes
  <2> QED BY <1>1, <2>1, ValueTypes, DevKept
<1>3. GraphInv'
  <2>1. crashed' \in BOOLEAN
    BY <1>1
  <2> QED BY <1>1, <2>1, ValueTypes, ThreadStep
<1> QED BY <1>2, <1>3 DEF IInv

\* The flow at the end takes an output from its queue.
LEMMA SinkTakesInv ==
  ASSUME IInv, SinkTakes
  PROVE  IInv'
<1>1. /\ sink_in = NoOut /\ sink_inputs # <<>>
      /\ sink_in' = Head(sink_inputs) /\ sink_inputs' = Tail(sink_inputs)
      /\ UNCHANGED <<openVars, devVars>> /\ NoFault
      /\ UNCHANGED <<app, graph, loop, on, rpc, rbuf, source_out, fon, fpc, fin, cached_buffer,
                     cached_buffers, filter_out, stops, crashed>>
  BY DEF SinkTakes, appVars, sourceVars, filterVars, capVars, NoFault
<1>2. /\ sink_in' \in Outs /\ sink_inputs' \in Seq(Outs)
      /\ InOuts = {sink_in'.frame} \cup InOuts'
  BY <1>1, ValueTypes, OutsFacts DEF InOuts
<1>3. Frames' = Frames
  <2>1. sink_in.frame = Null
    BY <1>1 DEF NoOut, Out
  <2>2. /\ Single \cup {sink_in'.frame} = Single' \cup {Null}
        /\ ToSet(cached_buffers') = ToSet(cached_buffers)
    BY <1>1, <2>1 DEF Single
  <2>3. Frames' = (Single' \cup ToSet(cached_buffers') \cup InOuts') \ {Null}
    BY DEF Frames, Single, InOuts
  <2>4. sink_in'.frame \in Single'
    BY DEF Single
  <2> QED BY <1>2, <2>2, <2>3, <2>4, FramesParts
<1>4. DevInv'
  <2>1. Passes
    BY <1>1 DEF Passes
  <2> QED BY <1>1, <1>3, <2>1, ValueTypes, DevKept
<1>5. GraphTypes' /\ Shape'
  BY <1>1, <1>2, SameTypes, SameGraph DEF IInv, GraphInv, GraphTypes, Shape
<1>6. Threads'
  BY <1>1, SameGraph DEF IInv, GraphInv, Threads
<1> QED BY <1>4, <1>5, <1>6 DEF IInv, GraphInv

\* ... and lets it go when it is done.
LEMMA SinkDoneInv ==
  ASSUME IInv, SinkDone
  PROVE  IInv'
<1>1. /\ sink_in' = NoOut /\ Release
      /\ UNCHANGED <<app, graph, loop, on, rpc, rbuf, source_out, fon, fpc, fin, cached_buffer,
                     cached_buffers, filter_out, sink_inputs, stops, crashed>>
  BY DEF SinkDone, appVars, sourceVars, filterVars
<1>2. DevInv' /\ UNCHANGED openVars
  <2>1. Frames' \subseteq Frames
    BY <1>1 DEF Frames, NoOut, Out
  <2>2. Passes
    BY <1>1 DEF Passes
  <2> QED BY <1>1, <2>1, <2>2, ValueTypes, DevAfterRelease
<1>3. GraphTypes' /\ Shape'
  BY <1>1, <1>2, ValueTypes, SameTypes, SameGraph DEF GraphInv, GraphTypes, Shape
<1>4. Threads'
  BY <1>1, SameGraph DEF IInv, GraphInv, Threads
<1> QED BY <1>2, <1>3, <1>4 DEF IInv, GraphInv

\* The driver fills a buffer.
LEMMA DeviceInv ==
  ASSUME IInv, NEW bytes \in BOOLEAN, Device(bytes)
  PROVE  IInv'
<1>1. /\ Fill(bytes) /\ UNCHANGED openVars
      /\ UNCHANGED <<app, graph, loop, on, rpc, rbuf, source_out, fon, fpc, fin, cached_buffer,
                     cached_buffers, filter_out, sink_inputs, sink_in, stops, crashed>>
  BY DEF Device, Fill, graphVars, appVars, sourceVars, filterVars, sinkVars
<1>2. DevInv'
  <2>1. Frames' = Frames
    BY <1>1, FramesSame
  <2> QED BY <1>1, <2>1, DevFills DEF IInv
<1>3. GraphTypes' /\ Shape'
  BY <1>1, SameTypes, SameGraph DEF IInv, GraphInv, GraphTypes, Shape
<1>4. Threads'
  BY <1>1, SameGraph DEF IInv, GraphInv, Threads
<1> QED BY <1>2, <1>3, <1>4 DEF IInv, GraphInv

\* Every step keeps the invariant.
LEMMA StepInv == IInv /\ [Next]_vars => IInv'
<1> SUFFICES ASSUME IInv, [Next]_vars
             PROVE  IInv'
  OBVIOUS
<1>1. CASE Build \/ Unwire \/ ControlStreamOff \/ Stop
  BY <1>1, OpenStreamInv, NewSourceInv, NewFilterInv, NewSinkInv, WiringInv, ControlStreamOffInv,
     StopInv DEF Build
<1>2. CASE Teardown
  BY <1>2, StopStreamInv, NotifyReaderInv, DeleteStreamInv, GoingInv DEF Teardown
<1>3. CASE Reader
  BY <1>3, ReaderLoopInv, ReadStartInv, DequeueInv, SourceSendInputInv, SourceRunOnceInv DEF Reader
<1>4. CASE Coroutine
  BY <1>4, FetchInv, FilterSendsInv, FilterFailsInv, FilterAbortsInv DEF Coroutine
<1>5. CASE Sink
  BY <1>5, SinkTakesInv, SinkDoneInv DEF Sink
<1>6. CASE \E bytes \in BOOLEAN : Device(bytes)
  BY <1>6, DeviceInv
<1>7. CASE UNCHANGED vars
  <2>1. /\ UNCHANGED openVars
        /\ UNCHANGED <<setup, step, next, count, buffer_vec, vec, ctx, started, queue, filled, lost, faults>>
        /\ UNCHANGED <<app, graph, loop, on, rpc, rbuf, source_out, fon, fpc, fin, cached_buffer,
                       cached_buffers, filter_out, sink_inputs, sink_in, stops, crashed>>
    BY <1>7 DEF vars, capVars, openVars, devVars, graphVars, appVars, sourceVars, filterVars, sinkVars
  <2>2. DevInv'
    <3>1. Frames' = Frames /\ Passes /\ NoFault
      BY <2>1, FramesSame DEF Passes, NoFault
    <3> QED BY <2>1, <3>1, DevKept DEF IInv, openVars, devVars
  <2>3. GraphTypes' /\ Shape'
    BY <2>1, SameTypes, SameGraph DEF IInv, GraphInv, GraphTypes, Shape
  <2>4. Threads'
    BY <2>1, SameGraph DEF IInv, GraphInv, Threads
  <2> QED BY <2>2, <2>3, <2>4 DEF IInv, GraphInv
<1> QED BY <1>1, <1>2, <1>3, <1>4, <1>5, <1>6, <1>7 DEF Next

-----------------------------------------------------------------------------
(* The theorems.                                                           *)

\* The invariant of every behaviour, whatever is asked for, however many buffers
\* the driver grants and whichever calls fail.
THEOREM CaptureInvariant == Spec => []IInv
<1> QED BY InitInv, StepInv, PTL DEF Spec

LEMMA InvTypes == IInv => TypeOK
<1> SUFFICES ASSUME IInv
             PROVE  TypeOK
  OBVIOUS
<1>1. /\ {rbuf, source_out, fin, cached_buffer} \cup ToSet(cached_buffers) \subseteq MaybeFrame
      /\ {filter_out, sink_in} \cup ToSet(sink_inputs) \subseteq Outs
  BY ValueTypes, ToSetFacts
<1>2. DOMAIN buffer_vec \subseteq Indices
  BY LenProperties DEF IInv, DevInv, DevTypes, Indices
<1>3. /\ setup \in Setups /\ faults \in 0..MaxFaults
      /\ ctx \in [fd : BOOLEAN, started : BOOLEAN, stream : BOOLEAN]
      /\ vec \in BOOLEAN /\ started \in BOOLEAN
      /\ queue \in Seq(Indices) /\ filled \in Seq([index : Indices, bytes : BOOLEAN])
      /\ lost \subseteq Indices
  BY DEF IInv, DevInv, DevTypes, Contexts
<1>4. /\ stops \in 0..setup.stops /\ crashed \in BOOLEAN
      /\ loop \in BOOLEAN /\ on \in BOOLEAN /\ fon \in BOOLEAN
  BY DEF IInv, GraphInv, GraphTypes
<1> QED BY <1>1, <1>2, <1>3, <1>4 DEF TypeOK

\* Two filled buffers are never the same one, so that they count as many.
LEMMA ReadyCardinality ==
  ASSUME IInv
  PROVE  Cardinality(Ready) = Len(filled)
<1> DEFINE numbers == [k \in 1..Len(filled) |-> filled[k].index]
<1>1. /\ filled \in Seq([index : Indices, bytes : BOOLEAN]) /\ Len(filled) \in Nat
      /\ \A i, j \in 1..Len(filled) : filled[i].index = filled[j].index => i = j
  BY LenProperties DEF IInv, DevInv, DevTypes, Apart
<1>2. \A k \in 1..Len(filled) : filled[k].index \in Indices
  <2>1. \A k \in 1..Len(filled) : filled[k] \in [index : Indices, bytes : BOOLEAN]
    BY <1>1, ElementOfSeq
  <2> QED BY <2>1
<1>3. numbers \in Seq(Indices) /\ Len(numbers) = Len(filled) /\ DOMAIN numbers = 1..Len(filled)
  BY <1>1, <1>2
<1>4. IsInjective(numbers)
  BY <1>1, <1>3 DEF IsInjective
<1>5. ToSet(numbers) = Ready
  <2>1. ToSet(filled) = {filled[k] : k \in 1..Len(filled)}
    BY <1>1, LenProperties DEF ToSet
  <2>2. ToSet(numbers) = {filled[k].index : k \in 1..Len(filled)}
    BY <1>3 DEF ToSet
  <2> QED BY <2>1, <2>2 DEF Ready
<1> HIDE DEF numbers
<1> QED BY <1>3, <1>4, <1>5, InjectiveCardinality

LEMMA InvOwner == IInv => OneOwner
<1> SUFFICES ASSUME IInv
             PROVE  OneOwner
  OBVIOUS
<1>1. /\ queue \in Seq(Indices) /\ IsInjective(queue) /\ Waiting \cap Ready = {}
      /\ (Waiting \cup Ready) \cap (Frames \cup lost) = {} /\ Frames \cap lost = {}
  BY DEF IInv, DevInv, DevTypes, Apart
<1>2. Cardinality(Waiting) = Len(queue) /\ Cardinality(Ready) = Len(filled)
  BY <1>1, InjectiveCardinality, ReadyCardinality DEF Waiting
<1>3. Waiting \cup Ready \cup Frames \cup lost \subseteq Indices
  <2>1. /\ Waiting \cup Ready \cup Frames \subseteq 1..Len(buffer_vec) /\ lost \subseteq Indices
        /\ Len(buffer_vec) <= count /\ count \in Nat /\ buffer_vec \in Seq(SUBSET Resources)
    BY DEF IInv, DevInv, DevTypes, Backed
  <2>2. 1..Len(buffer_vec) \subseteq Indices
    BY <2>1, LenProperties DEF Indices
  <2> QED BY <2>1, <2>2
<1>4. app \in Building /\ stops = 0 /\ memory_type # "USERPTR"
        => Waiting \cup Ready \cup Frames \cup lost = Indices
  BY <1>3 DEF IInv, DevInv, NoneMissing
<1> QED BY <1>1, <1>2, <1>4 DEF OneOwner, Waiting, Ready, Building

LEMMA InvRelease == IInv => SafeRelease
<1> SUFFICES ASSUME IInv
             PROVE  SafeRelease
  OBVIOUS
<1>1. \A i \in Frames : buffer_vec[i] # {} /\ ctx.fd
  BY DEF IInv, DevInv, Backed
<1>2. queue \o [k \in DOMAIN filled |-> filled[k].index] # <<>> => ctx.fd
  <2>1. queue = <<>> /\ filled = <<>>
          => queue \o [k \in DOMAIN filled |-> filled[k].index] = <<>>
    OBVIOUS
  <2> QED BY <2>1 DEF IInv, DevInv, Backed
<1>3. ~vec /\ Frames = {} => ctx = Closed /\ \A i \in DOMAIN buffer_vec : buffer_vec[i] = {}
  BY LenProperties DEF IInv, DevInv, DevTypes, Backed
<1> QED BY <1>1, <1>2, <1>3 DEF SafeRelease

\* The variables keep their types: in particular no index that is queued, filled
\* or lent is one the driver did not grant.
THEOREM CaptureTypes == Spec => []TypeOK
<1> QED BY CaptureInvariant, InvTypes, PTL

\* A buffer has one owner, and none goes missing: queued, filled and lent are
\* apart whatever is sent, dropped, held, requeued or given back late.
THEOREM CaptureOneOwner == Spec => []OneOwner
<1> QED BY CaptureInvariant, InvOwner, PTL

\* Whoever has a frame has its memory and an open device, in whatever order the
\* stream and the flows go, and nothing is left when the last has gone.
THEOREM CaptureSafeRelease == Spec => []SafeRelease
<1> QED BY CaptureInvariant, InvRelease, PTL

=============================================================================
