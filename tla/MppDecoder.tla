----------------------------- MODULE MppDecoder -----------------------------
(***************************************************************************)
(* The MPP video decoder: creation, the asynchronous calls SendInput and   *)
(* FetchOutput, and the synchronous Process of the JPEG decoder.           *)
(*                                                                         *)
(* MPP is outside the repository. It queues packets, decodes them in order *)
(* into the buffers of a group that is limited, stops at a change of the   *)
(* stream's parameters until it is told to go on, and a call to it may     *)
(* fail. A frame goes by the number of the packet it came in.              *)
(***************************************************************************)
EXTENDS Integers, Sequences, FiniteSets

CONSTANTS
  MppInputs,     \* packets MPP queues before it is full
  FrameLimits,   \* fg_limit_num, scaled: the buffers of the group, 0 for no limit
  Timeouts,      \* the output timeouts to try: "none", "block" or "some"
  EosPackets,    \* the packets with the end-of-file flag
  EmptyPackets,  \* the packets without content (not IsValid)
  MaxInfo, MaxMppFaults   \* bounds of the model

ASSUME MppDecoderAssumption == MppInputs \in Nat

VARIABLES
  jpeg,          \* coding_type: JPEG, decoded synchronously, or H.264 and H.265
  fg_limit_num, timeout,
  building,      \* how far construction has come
  mpp_in,        \* packets MPP has not decoded
  mpp_out,       \* what MPP has to give, oldest first
  awaits,        \* MPP waits for MPP_DEC_SET_INFO_CHANGE_READY
  task_inside,   \* a synchronous task that MPP was given and nobody took back
  good,          \* history: the frames decoded without error, in order
  infos, mpp_faults

confVars == <<jpeg, fg_limit_num, timeout>>
portVars == <<mpp_in, mpp_out, awaits, task_inside, good, infos>>
mppVars  == <<confVars, building, portVars, mpp_faults>>

MppFault == mpp_faults < MaxMppFaults /\ mpp_faults' = mpp_faults + 1

(***************************************************************************)
(* Construction. The limits 1 to 3 are called invalid, but the constructor *)
(* has set coding_type by then, and Init uses them.                        *)
(***************************************************************************)
DecoderInit ==
  /\ jpeg \in BOOLEAN /\ fg_limit_num \in FrameLimits /\ timeout \in Timeouts
  /\ building = "create"
  /\ mpp_in = <<>> /\ mpp_out = <<>> /\ awaits = FALSE /\ task_inside = FALSE
  /\ good = <<>> /\ infos = 0 /\ mpp_faults = 0

\* Each of them fails or leads to the next; a failure is the factory's.
Build(from, to) ==
  /\ building = from
  /\ \/ building' = to /\ UNCHANGED mpp_faults
     \/ building' = "failed" /\ MppFault
  /\ UNCHANGED <<confVars, portVars>>

CreateDecoder  == Build("create", IF timeout = "none" THEN "group" ELSE "timeout")
ControlTimeout == Build("timeout", "group")
LimitGroup     == Build("group", "built")

(***************************************************************************)
(* MPP itself.                                                             *)
(***************************************************************************)
NoOutput == [kind |-> "none", n |-> 0]

\* The buffers in use: held is the set of frames the program has.
BufferFree(held) ==
  \/ fg_limit_num = 0
  \/ Cardinality(held) + Len(SelectSeq(mpp_out, LAMBDA o : o.n # 0)) < fg_limit_num

\* What may come of a packet: its frame, with an error (errinfo, discard) or
\* without, and the end of the stream, as a flag of that frame or on its own.
Eos(n)      == [kind |-> "eos", n |-> n]
Made(p, ok) == [kind |-> IF ok THEN "frame" ELSE "bad", n |-> p]

Results(p, ok) ==
  CASE p \in EmptyPackets -> {IF p \in EosPackets THEN <<Eos(0)>> ELSE <<>>}
    [] p \in EosPackets \ EmptyPackets -> {<<Eos(p)>>, <<Made(p, ok), Eos(0)>>}
    [] OTHER -> {<<Made(p, ok)>>}

Decode(held) ==
  /\ mpp_in # <<>> /\ ~awaits
  /\ LET p == Head(mpp_in) IN \E ok \in BOOLEAN :
       /\ IF p \in EmptyPackets THEN ok ELSE BufferFree(held)
       /\ \E outputs \in Results(p, ok) : mpp_out' = mpp_out \o outputs
       /\ good' = IF ok /\ p \notin EmptyPackets THEN Append(good, p) ELSE good
       /\ IF ok THEN UNCHANGED mpp_faults ELSE MppFault
  /\ mpp_in' = Tail(mpp_in)
  /\ UNCHANGED <<confVars, building, awaits, task_inside, infos>>

ChangeInfo ==
  /\ mpp_in # <<>> /\ ~awaits /\ infos < MaxInfo
  /\ infos' = infos + 1 /\ awaits' = TRUE
  /\ mpp_out' = Append(mpp_out, [kind |-> "info", n |-> 0])
  /\ UNCHANGED <<confVars, building, mpp_in, task_inside, good, mpp_faults>>

(***************************************************************************)
(* SendInput.                                                              *)
(***************************************************************************)
EAGAIN == "again"

SendInput(packet, ret) ==
  /\ \/ /\ ret = "ok" /\ Len(mpp_in) < MppInputs
        /\ mpp_in' = Append(mpp_in, packet) /\ UNCHANGED mpp_faults
     \/ ret = EAGAIN /\ Len(mpp_in) >= MppInputs /\ UNCHANGED <<mpp_in, mpp_faults>>
     \/ ret = "failed" /\ MppFault /\ UNCHANGED mpp_in
  /\ UNCHANGED <<confVars, building, mpp_out, awaits, task_inside, good, infos>>

(***************************************************************************)
(* FetchOutput. A bad frame and a timeout give null, a change of           *)
(* parameters an image with nothing in it, and so does the end of the      *)
(* stream, which is looked for first: the frame that carries the flag is   *)
(* given back to MPP, whether it is good or not.                           *)
(***************************************************************************)
GetFrame(output) ==
  \/ output = NoOutput /\ mpp_out = <<>> /\ timeout # "block" /\ UNCHANGED mpp_out
  \/ mpp_out # <<>> /\ output = Head(mpp_out) /\ mpp_out' = Tail(mpp_out)

\* Mutant of InfoReady: MPP is not told to go on.
InfoUnacknowledged(output) == UNCHANGED awaits

InfoReady(output) == awaits' = (awaits /\ output.kind # "info")

FetchOutput(output) ==
  /\ GetFrame(output)
  /\ InfoReady(output)
  /\ UNCHANGED <<confVars, building, mpp_in, task_inside, good, infos, mpp_faults>>

IsImage(output) == output.kind \in {"frame", "info", "eos"}
FrameOf(output) == IF output.kind = "frame" THEN output.n ELSE 0

(***************************************************************************)
(* Process: one packet in, its frame out; a packet without content is      *)
(* ignored and leaves the output without one. When the output port fails   *)
(* the packet and the frame are given up, but the task is still inside,    *)
(* and the next call gets that one: assert(frame_out == frame) fails.      *)
(***************************************************************************)
ProcessPrepare(ret) ==  \* not a JPEG, no size, no buffer, the input port fails
  /\ ret = "failed" /\ MppFault
  /\ UNCHANGED <<task_inside, good, building>>

ProcessTimedOut(ret) ==
  /\ ret = "failed" /\ MppFault
  /\ task_inside' = TRUE /\ UNCHANGED <<good, building>>

ProcessBadFrame(ret) ==
  /\ ret = "failed" /\ ~task_inside /\ MppFault
  /\ UNCHANGED <<task_inside, good, building>>

ProcessDecoded(packet, ret) ==
  /\ ret = "ok" /\ ~task_inside
  /\ good' = Append(good, packet)
  /\ UNCHANGED <<task_inside, building, mpp_faults>>

OneInOneOutFails(ret) ==
  /\ ret = "failed" /\ task_inside
  /\ building' = "crashed"
  /\ UNCHANGED <<task_inside, good, mpp_faults>>

ProcessIgnored(ret) == ret = "ok" /\ UNCHANGED <<task_inside, good, building, mpp_faults>>

Process(packet, ret) ==
  /\ IF packet \in EmptyPackets THEN ProcessIgnored(ret)
     ELSE \/ ProcessPrepare(ret) \/ ProcessTimedOut(ret) \/ ProcessBadFrame(ret)
          \/ ProcessDecoded(packet, ret) \/ OneInOneOutFails(ret)
  /\ UNCHANGED <<confVars, mpp_in, mpp_out, awaits, infos>>
=============================================================================
