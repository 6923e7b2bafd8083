---------------------------- MODULE DecodeDisplay ----------------------------
(***************************************************************************)
(* A VideoDecoderFlow whose frames go down to an OutPutStreamFlow on a DRM *)
(* display: two coroutines, MPP between the packets and the frames, and an *)
(* application that sends packets and moves the rectangles meanwhile. The  *)
(* queues of the inputs are those of FlowInput, here one step per call;    *)
(* the flows live on (FlowInput has their end).                            *)
(*                                                                         *)
(* A frame goes by the number of its packet. A frame is held while the     *)
(* program refers to it anywhere: MPP uses its buffer again after that.    *)
(***************************************************************************)
EXTENDS DrmDisplay, MppDecoder

CONSTANTS
  InputCache,   \* the decoder flow's input_maxcachenum
  OutCache,     \* the output flow's input_maxcachenum
  OutModes,     \* "BLOCKING", "DROPCURRENT" or, for a flow with a rate, "ATOMIC"
  NullPackets,  \* the packets that are null, as a failing flow above sends them
  MaxPackets    \* bound of the model

ASSUME DecodeDisplayAssumption ==
  /\ InputCache \in Nat \ {0} /\ OutCache \in Nat \ {0} /\ MaxPackets \in Nat
  /\ OutModes \subseteq {"BLOCKING", "DROPCURRENT", "ATOMIC"}

VARIABLES
  sent, inq,        \* packets so far, the decoder flow's cached_buffers
  pc, packet, ret,  \* do_decode: where it is, its input, its result
  cached_buffers,   \* the decoder flow's output
  passed,           \* how many of it were sent down
  out_mode,         \* how the output flow's input works
  outq,             \* its cached_buffers, or for ATOMIC the one cached_buffer
  out_pc, buffer,   \* send_buffer: where it is, its input
  written           \* history: the images Write was given

inVars      == <<sent, inq>>
decoderVars == <<pc, packet, ret, cached_buffers, passed>>
outVars     == <<out_mode, outq>>
writerVars  == <<out_pc, buffer, written>>
pipeVars    == <<inVars, decoderVars, outVars, writerVars>>
vars        == <<drmVars, mppVars, pipeVars>>

Null  == [image |-> FALSE, frame |-> NoFrame]
Image(output) == [image |-> TRUE, frame |-> FrameOf(output)]

Init ==
  /\ DrmInit /\ DecoderInit
  /\ sent = 0 /\ inq = <<>>
  /\ pc = "none" /\ packet = 0 /\ ret = FALSE /\ cached_buffers = <<>> /\ passed = 0
  /\ out_mode \in OutModes /\ outq = <<>>
  /\ out_pc = "none" /\ buffer = Null /\ written = <<>>

\* The frames the program refers to.
InQueue(s) == {s[i].frame : i \in DOMAIN s}

\* Mutant of Held: the frames written are never given back to MPP.
HeldForever == (InQueue(cached_buffers) \cup InQueue(outq) \cup {buffer.frame, disp_buffer}
                 \cup ToSet(written)) \ {NoFrame, Blank}

Held == (InQueue(cached_buffers) \cup InQueue(outq) \cup {buffer.frame, disp_buffer})
          \ {NoFrame, Blank}

(***************************************************************************)
(* Construction: the stream and its flow, then the decoder and its flow. A *)
(* decoder that can only be used synchronously is found out by a null      *)
(* packet.                                                                 *)
(***************************************************************************)
OpenStream == OpenStep /\ UNCHANGED <<mppVars, pipeVars>>

InstallOutput ==
  /\ opening \in {"open", "blind"} /\ out_pc = "none"
  /\ out_pc' = "fetch"
  /\ UNCHANGED <<drmVars, mppVars, inVars, decoderVars, outVars, buffer, written>>

ConstructDecoder ==
  /\ out_pc # "none"
  /\ CreateDecoder \/ ControlTimeout \/ LimitGroup
  /\ UNCHANGED <<drmVars, pipeVars>>

InstallDecoder ==
  /\ building = "built" /\ pc = "none"
  /\ pc' = "fetch"
  /\ UNCHANGED <<drmVars, mppVars, inVars, packet, ret, cached_buffers, passed, outVars, writerVars>>

(***************************************************************************)
(* The application.                                                        *)
(***************************************************************************)
SendPacket ==
  /\ pc # "none" /\ sent < MaxPackets /\ Len(inq) < InputCache
  /\ sent' = sent + 1
  /\ inq' = Append(inq, IF sent + 1 \in NullPackets THEN 0 ELSE sent + 1)
  /\ UNCHANGED <<drmVars, mppVars, decoderVars, outVars, writerVars>>

Control ==
  /\ pc # "none"
  /\ IoCtrl
  /\ UNCHANGED <<mppVars, pipeVars>>

(***************************************************************************)
(* The coroutine of the decoder.                                           *)
(***************************************************************************)
Fetch ==
  /\ pc = "fetch" /\ inq # <<>>
  /\ packet' = Head(inq) /\ inq' = Tail(inq) /\ ret' = FALSE
  /\ pc' = IF Head(inq) = 0 THEN "down" ELSE IF jpeg THEN "process" ELSE "send"
  /\ UNCHANGED <<drmVars, mppVars, sent, cached_buffers, passed, outVars, writerVars>>

\* do_decode tries again, and does nothing else, while MPP is full.
Send ==
  /\ pc = "send"
  /\ \E result \in {"ok", EAGAIN, "failed"} :
       /\ SendInput(packet, result)
       /\ pc' = CASE result = "ok"     -> "output"
                  [] result = EAGAIN   -> "send"
                  [] result = "failed" -> "down"
  /\ UNCHANGED <<drmVars, inVars, packet, ret, cached_buffers, passed, outVars, writerVars>>

\* Every image there is, until there is none or a bad one.
Output ==
  /\ pc = "output"
  /\ \E output \in ToSet(mpp_out) \cup {NoOutput} :
       /\ FetchOutput(output)
       /\ IF IsImage(output)
            THEN /\ cached_buffers' = Append(cached_buffers, Image(output))
                 /\ ret' = TRUE /\ UNCHANGED pc
            ELSE pc' = "down" /\ UNCHANGED <<cached_buffers, ret>>
  /\ UNCHANGED <<drmVars, inVars, packet, passed, outVars, writerVars>>

\* The image Process fills, or leaves as it is.
Filled == [image |-> TRUE, frame |-> IF packet \in EmptyPackets THEN NoFrame ELSE packet]

ProcessSync ==
  /\ pc = "process"
  /\ \E result \in {"ok", "failed"} :
       /\ Process(packet, result)
       /\ ret' = (result = "ok")
       /\ cached_buffers' = IF result = "ok"
                            THEN Append(cached_buffers, Filled)
                            ELSE cached_buffers
  /\ pc' = "down"
  /\ UNCHANGED <<drmVars, inVars, packet, passed, outVars, writerVars>>

\* SendInput of the flow below. Mutants of Accepted: the limit is off by one; a
\* full queue drops its oldest.
AcceptedLate(item) ==
  IF Len(outq) <= OutCache THEN outq' = Append(outq, item) ELSE UNCHANGED outq

AcceptedNewest(item) ==
  outq' = Append(IF Len(outq) >= OutCache THEN Tail(outq) ELSE outq, item)

Accepted(item) ==
  CASE out_mode = "ATOMIC"      -> outq' = <<item>>
    [] Len(outq) < OutCache     -> outq' = Append(outq, item)
    [] out_mode = "DROPCURRENT" -> UNCHANGED outq
    [] OTHER                    -> FALSE  \* blocked until there is room

\* SendBufferDownFromDeque: a null buffer, or all of them one after the other,
\* and only then the list is cleared.
SendNullDown ==
  /\ pc = "down" /\ ~ret
  /\ Accepted(Null)
  /\ pc' = "fetch"
  /\ UNCHANGED <<drmVars, mppVars, inVars, packet, ret, cached_buffers, passed, out_mode, writerVars>>

SendDown ==
  /\ pc = "down" /\ ret
  /\ Accepted(cached_buffers[passed + 1])
  /\ IF passed + 1 < Len(cached_buffers)
       THEN passed' = passed + 1 /\ UNCHANGED <<cached_buffers, pc>>
       ELSE passed' = 0 /\ cached_buffers' = <<>> /\ pc' = "fetch"
  /\ UNCHANGED <<drmVars, mppVars, inVars, packet, ret, out_mode, writerVars>>

(***************************************************************************)
(* The coroutine of the output flow. An ATOMIC input keeps what it has:    *)
(* the same buffer is written again at every interval.                     *)
(***************************************************************************)
FetchBuffer ==
  /\ out_pc = "fetch"
  /\ outq # <<>>
  /\ buffer' = Head(outq)
  /\ outq' = IF out_mode = "ATOMIC" THEN outq ELSE Tail(outq)
  /\ out_pc' = "write"
  /\ UNCHANGED <<drmVars, mppVars, inVars, decoderVars, out_mode, written>>

Given == IF buffer.frame = NoFrame \/ (written # <<>> /\ Last(written) = buffer.frame)
         THEN written ELSE Append(written, buffer.frame)

SendBuffer ==
  /\ out_pc = "write"
  /\ IF buffer.image THEN \E ok \in BOOLEAN : Write(buffer.frame, ok) ELSE UNCHANGED drmVars
  /\ written' = Given
  /\ buffer' = Null /\ out_pc' = "fetch"
  /\ UNCHANGED <<mppVars, inVars, decoderVars, outVars>>

Mpp ==
  /\ pc # "none"
  /\ Decode(Held) \/ ChangeInfo
  /\ UNCHANGED <<drmVars, pipeVars>>

Construction == OpenStream \/ InstallOutput \/ ConstructDecoder \/ InstallDecoder
Decoder      == Fetch \/ Send \/ Output \/ ProcessSync \/ SendNullDown \/ SendDown
Writer       == FetchBuffer \/ SendBuffer

Next ==
  building # "crashed" /\ (Construction \/ SendPacket \/ Control \/ Decoder \/ Writer \/ Mpp)

\* Threads are scheduled, and MPP decodes what it can; no failure is forced.
Running == building # "crashed" /\ UNCHANGED <<mpp_faults, drm_faults>>

Decodes == pc # "none" /\ Decode(Held) /\ UNCHANGED <<drmVars, pipeVars>>

Spec ==
  /\ Init /\ [][Next]_vars
  /\ WF_vars(Running /\ Decoder) /\ WF_vars(Running /\ Writer) /\ WF_vars(Running /\ Decodes)

(***************************************************************************)
(* Properties.                                                             *)
(***************************************************************************)
TypeOK ==
  /\ opening \in OpenStates /\ ids.ok \in OkValues
  /\ pc \in {"none", "fetch", "send", "output", "process", "down"}
  /\ out_pc \in {"none", "fetch", "write"}
  /\ packet \in 0..MaxPackets /\ ret \in BOOLEAN
  /\ Len(inq) <= InputCache /\ Len(outq) <= OutCache /\ Len(mpp_in) <= MppInputs
  /\ pc = "down" /\ ret => cached_buffers # <<>>
  /\ plane.fb \in Blank..MaxPackets /\ disp_buffer \in Blank..MaxPackets

\* What is on its way to Write, the first to come first.
OnTheWay == <<buffer>> \o outq \o SubSeq(cached_buffers, passed + 1, Len(cached_buffers))
            \o [i \in DOMAIN mpp_out |-> Image(mpp_out[i])]

Frames(s)  == InQueue(s) \ {NoFrame}
InOrder(s) ==
  \A i, j \in DOMAIN s :
    i < j /\ s[i].frame # NoFrame /\ s[j].frame # NoFrame => s[i].frame < s[j].frame

\* The frames that FetchOutput may give back to MPP, although they are good: it
\* returns an image without content for a frame that carries the end of file.
Flagged == IF jpeg THEN {} ELSE EosPackets

\* Write is given frames that were decoded without error, in their order, and
\* none twice; and with a blocking input all of them, but perhaps one that
\* carries the end of file: each was written, or is on its way after those that
\* were, once and in that order, whatever failed before, was null, empty or
\* changed.
DecodedInOrder ==
  /\ \A i, j \in DOMAIN written : i < j => written[i] < written[j]
  /\ ToSet(written) \subseteq ToSet(good)
  /\ out_mode = "BLOCKING" =>
       /\ ToSet(good) \ Flagged \subseteq ToSet(written) \cup Frames(OnTheWay)
       /\ Frames(OnTheWay) \subseteq ToSet(good)
       /\ InOrder(OnTheWay)
       /\ \A f \in ToSet(written), g \in Frames(OnTheWay) : f < g

\* A frame on the screen is one the program refers to: MPP does not decode
\* another into its buffer meanwhile.
ScannedOutIsHeld ==
  plane.fb # NoFrame => plane.fb \in Held

\* The decoder's thread does not try to send one packet forever, although it
\* fetches nothing meanwhile, unless MPP waits to be told to go on: of two or
\* more buffers the screen keeps one. With a single one (fg_limit_num = 1 is
\* called invalid, but used) it does, and with two above a stream without ids,
\* whose writes may all be refused.
Progress ==
  (pc = "send" /\ ~awaits /\ ~Blind) ~> (pc # "send" \/ awaits)
=============================================================================
