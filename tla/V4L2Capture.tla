---------------------------- MODULE V4L2Capture ----------------------------
(***************************************************************************)
(* The V4L2 capture stream: a device that is opened step by step and owns  *)
(* a ring of loop_num buffers, a stream that lends them one by one, and    *)
(* buffers that put themselves back when their last reference goes. The    *)
(* context (the open device) is shared: the stream has a reference and so  *)
(* has every frame that is still lent.                                     *)
(*                                                                         *)
(* The driver is external: it fills the queued buffers in order.           *)
(***************************************************************************)
EXTENDS Integers, FiniteSets, SequencesExt, Filters

CONSTANTS
  Setups,    \* what an application may ask for: parameters of all parts
  Counts(_), \* how many buffers a driver may grant when so many are asked for
  MaxFaults  \* bound on failing calls

VARIABLES
  setup,     \* the parameters, chosen once
  step,      \* where Open is; then "open" or "failed"
  next,      \* the buffer Open is at
  count,     \* req.count
  buffer_vec,\* resources of each buffer's memory
  vec,       \* the stream, and with it buffer_vec, is there
  ctx,       \* V4L2Context: [fd, started, stream], stream: its stream's reference
  started,   \* V4L2CaptureStream::started
  queue,     \* driver: buffers queued, in order
  filled,    \* driver: buffers filled, [index, bytes]
  lost,      \* buffers whose VIDIOC_QBUF failed
  faults

openVars == <<setup, step, next, count>>
devVars  == <<buffer_vec, vec, ctx, started, queue, filled, lost>>
capVars  == <<openVars, devVars, faults>>

ASSUME MaxFaultsAssumption == MaxFaults \in Nat

Indices  == 1..count
Fault    == faults < MaxFaults /\ faults' = faults + 1
NoFault  == UNCHANGED faults
Closed   == [fd |-> FALSE, started |-> FALSE, stream |-> FALSE]

CaptureInit ==
  /\ setup \in Setups
  /\ step = "new" /\ next = 1 /\ count = 0
  /\ buffer_vec = <<>> /\ vec = TRUE /\ ctx = Closed /\ started = FALSE
  /\ queue = <<>> /\ filled = <<>> /\ lost = {}
  /\ faults = 0

(***************************************************************************)
(* Open. Any step may fail, and the factory then deletes the stream.       *)
(***************************************************************************)
Goto(s)  == step' = s /\ UNCHANGED <<setup, next, count>>
Fails    == Goto("failed") /\ Fault /\ UNCHANGED devVars

\* The constructor: what is not given, or not a number, keeps its default; of
\* a type that is unknown 0 is taken. Width and height have none.
GetV4L2Type(s) == IF s \in {"MMAP", "USERPTR", "OVERLAY", "DMABUF"} THEN s ELSE "0"
parse_media_param_match(value, default) == IF value = "" THEN default ELSE value
memory_type    == GetV4L2Type(parse_media_param_match(setup.memory, "MMAP"))
use_libv4l2    == setup.libv4l2
LoopNum(s)     == IF s.loop_num = 0 THEN 2 ELSE s.loop_num
loop_num       == LoopNum(setup)

ASSUME CountsAssumption == \A s \in Setups : Counts(LoopNum(s)) \subseteq Nat

\* libv4l2 can only be used by a build that has it.
SetV4L2IoFunction == use_libv4l2 => setup.have_libv4l2

OpenNew ==
  /\ step = "new"
  /\ IF setup.size /\ SetV4L2IoFunction THEN Goto("device") ELSE Goto("failed")
  /\ UNCHANGED <<devVars, faults>>

OpenDevice ==
  /\ step = "device"
  /\ \/ Fails
     \/ /\ ctx' = [fd |-> TRUE, started |-> FALSE, stream |-> TRUE]
        /\ Goto("caps") /\ NoFault
        /\ UNCHANGED <<buffer_vec, vec, started, queue, filled, lost>>

QueryCap ==
  /\ step = "caps"
  /\ \/ Fails
     \/ Goto("format") /\ NoFault /\ UNCHANGED devVars

\* The format must be one of the table, and the driver must take it, and the
\* size, as they are.
V4L2Fmts == {"nv12", "mjpeg", "h264"}
GetV4L2FmtByString(type) == IF type \in V4L2Fmts THEN type ELSE "0"

SetFormat ==
  /\ step = "format"
  /\ \/ Fails
     \/ /\ Goto(IF GetV4L2FmtByString(setup.type) = "0" THEN "failed" ELSE "request")
        /\ NoFault /\ UNCHANGED devVars

\* The driver decides how many there are, none at all perhaps. Only two kinds of
\* memory are set up: with another the stream opens without a buffer.
RequestBuffers ==
  /\ step = "request"
  /\ \/ Fails
     \/ /\ memory_type \notin {"0", "OVERLAY"}
        /\ count' \in Counts(loop_num) /\ NoFault
        /\ step' = IF memory_type = "USERPTR" \/ count' = 0 THEN "open" ELSE "memory"
        /\ UNCHANGED <<setup, next, devVars>>
     \/ /\ memory_type \in {"0", "OVERLAY"}
        /\ Goto("failed") /\ NoFault /\ UNCHANGED devVars

\* Mutant of Onward: the loop goes on while i <= req.count.
OnwardLate(first, then) ==
  /\ step' = IF next > count THEN then ELSE first
  /\ next' = IF next > count THEN 1 ELSE next + 1
  /\ UNCHANGED <<setup, count>>

Onward(first, then) ==
  /\ step' = IF next = count THEN then ELSE first
  /\ next' = IF next = count THEN 1 ELSE next + 1
  /\ UNCHANGED <<setup, count>>

\* Memory of its own for each buffer, which is queued at once.
AllocBuffer ==
  /\ step = "memory" /\ memory_type = "DMABUF"
  /\ \/ \E f \in AllocFaults :
          LET mem == Alloc2(setup.allocator, f)
          IN /\ IF f = "none" THEN NoFault ELSE Fault
             /\ IF mem = {}
                THEN Goto("failed") /\ UNCHANGED devVars
                ELSE /\ buffer_vec' = Append(buffer_vec, mem)
                     /\ queue' = Append(queue, next)
                     /\ Onward("memory", "open")
                     /\ UNCHANGED <<vec, ctx, started, filled, lost>>
     \/ /\ buffer_vec' = Append(buffer_vec, Alloc2(setup.allocator, "none"))
        /\ Goto("failed") /\ Fault            \* VIDIOC_QBUF
        /\ UNCHANGED <<vec, ctx, started, queue, filled, lost>>

\* The device's memory, mapped; what fails here had nothing yet.
MapBuffer ==
  /\ step = "memory" /\ memory_type = "MMAP"
  /\ \/ Fails
     \/ /\ buffer_vec' = Append(buffer_vec, {"ptr"})
        /\ Onward("memory", "queue") /\ NoFault
        /\ UNCHANGED <<vec, ctx, started, queue, filled, lost>>

\* Without libv4l2 each is exported too; one that cannot be goes without a descriptor.
BufferExport ==
  \/ NoFault /\ buffer_vec' = [buffer_vec EXCEPT ![next] = @ \cup {"fd"}]
  \/ Fault /\ UNCHANGED buffer_vec

QueueBuffer ==
  /\ step = "queue"
  /\ \/ Fails
     \/ /\ queue' = Append(queue, next)
        /\ IF use_libv4l2 THEN NoFault /\ UNCHANGED buffer_vec ELSE BufferExport
        /\ Onward("queue", "open")
        /\ UNCHANGED <<vec, ctx, started, filled, lost>>

\* The memory that is left when only some frames are: what a buffer has is
\* shared by the stream's own and a frame that was lent.
Kept(held) == [i \in DOMAIN buffer_vec |-> IF i \in held THEN buffer_vec[i] ELSE {}]

\* The stream is deleted: nothing has been lent.
DeleteUnopened ==
  /\ step = "failed" /\ vec
  /\ vec' = FALSE /\ ctx' = Closed /\ queue' = <<>>
  /\ buffer_vec' = Kept({})
  /\ UNCHANGED <<openVars, started, filled, lost, faults>>

Open ==
  \/ OpenNew \/ OpenDevice \/ QueryCap \/ SetFormat \/ RequestBuffers
  \/ AllocBuffer \/ MapBuffer \/ QueueBuffer \/ DeleteUnopened

(***************************************************************************)
(* The driver.                                                             *)
(***************************************************************************)
Fill(bytes) ==
  /\ ctx.started /\ queue # <<>>
  /\ queue' = Tail(queue)
  /\ filled' = Append(filled, [index |-> Head(queue), bytes |-> bytes])
  /\ IF bytes THEN NoFault ELSE Fault
  /\ UNCHANGED <<openVars, buffer_vec, vec, ctx, started, lost>>

(***************************************************************************)
(* The stream. started is not reset when the context is stopped: a stream  *)
(* that was switched off does not switch itself on again.                  *)
(***************************************************************************)
StartStreaming(c) == [c EXCEPT !.started = TRUE]

SetStarted ==    \* Read, first half
  IF started THEN UNCHANGED <<capVars>>
  ELSE \/ /\ started' = TRUE /\ ctx' = StartStreaming(ctx) /\ NoFault
          /\ UNCHANGED <<openVars, buffer_vec, vec, queue, filled, lost>>
       \/ Fault /\ UNCHANGED <<openVars, devVars>>

\* VIDIOC_STREAMOFF takes every buffer from the driver, filled or not.
StreamOff ==     \* IoCtrl(S_STREAM_OFF)
  /\ ctx' = [ctx EXCEPT !.started = FALSE]
  /\ IF ctx.started THEN queue' = <<>> /\ filled' = <<>> ELSE UNCHANGED <<queue, filled>>
  /\ UNCHANGED <<openVars, buffer_vec, vec, started, lost, faults>>

\* Buffers that are put back; of several whose last references go together any
\* may be the first.
QBUF(free, fails) ==
  /\ \E order \in SetToSeqs(free) : queue' = IF fails THEN queue ELSE queue \o order
  /\ lost' = IF fails THEN lost \cup free ELSE lost

\* The last reference to a frame gives up its part of the memory and of the
\* context, which closes the device when nobody else has it: `held` are the
\* frames that are still lent.
Put(free, held, fails) ==
  \/ free = {} /\ ~fails /\ UNCHANGED devVars
  \/ /\ free # {} /\ vec
     /\ QBUF(free, fails)
     /\ UNCHANGED <<buffer_vec, vec, ctx, started, filled>>
  \/ /\ free # {} /\ ~vec
     /\ buffer_vec' = Kept(held)
     /\ IF held = {}
        THEN ctx' = Closed /\ queue' = <<>> /\ UNCHANGED lost
        ELSE QBUF(free, fails) /\ UNCHANGED ctx
     /\ UNCHANGED <<vec, started, filled>>

\* Mutant of CloseStream: the memory goes with the stream, whoever uses it.
CloseStreamUnmapping(held) ==
  /\ vec' = FALSE /\ started' = FALSE
  /\ buffer_vec' = Kept({})
  /\ ctx' = IF held = {} THEN Closed ELSE [ctx EXCEPT !.started = FALSE, !.stream = FALSE]
  /\ queue' = <<>> /\ filled' = <<>>
  /\ UNCHANGED <<openVars, lost, faults>>

CloseStream(held) ==
  /\ vec' = FALSE /\ started' = FALSE
  /\ buffer_vec' = Kept(held)
  /\ ctx' = IF held = {} THEN Closed ELSE [ctx EXCEPT !.started = FALSE, !.stream = FALSE]
  /\ IF ctx.started \/ held = {} THEN queue' = <<>> /\ filled' = <<>>
                                 ELSE UNCHANGED <<queue, filled>>
  /\ UNCHANGED <<openVars, lost, faults>>
=============================================================================
