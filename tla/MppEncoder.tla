----------------------------- MODULE MppEncoder -----------------------------
(***************************************************************************)
(* The MPP video encoder: creation and configuration with all their        *)
(* failures, changes requested while it encodes, and the encoding of one   *)
(* frame. EncoderFlow says who calls it.                                   *)
(*                                                                         *)
(* MPP itself is outside the repository: it returns packets in the order   *)
(* of the frames it accepted, and any call to it may fail.                 *)
(***************************************************************************)
EXTENDS Integers, Sequences

CONSTANTS
  Codings,        \* the output types to try, a subset of AllCodings
  RcModes,        \* the rate control modes to try
  Rates,          \* bit rates, at first or requested later
  MinBps, MaxBps, \* MPPCommonConfig::kMPPMinBps and kMPPMaxBps, scaled
  NumExtra,       \* NAL units MPP offers as extra data
  Masks,          \* the masks of changes an application requests
  StaleChange,    \* whether PeekChange may read a value already freed
  MaxRequests, MaxFaults  \* bounds of the model

AllCodings == {"avc", "hevc", "mjpeg"}
Kinds      == {"fps", "bps", "idr", "qp", "osd"}

ASSUME MppEncoderAssumption ==
  /\ Codings \subseteq AllCodings /\ RcModes \subseteq {"cbr", "vbr"}
  /\ Rates \subseteq Nat /\ MinBps \in Nat /\ MaxBps \in Nat
  /\ Masks \subseteq (SUBSET Kinds) \ {{}}
  /\ StaleChange \in BOOLEAN /\ NumExtra \in Nat /\ MaxFaults \in Nat

VARIABLES
  stage,        \* how far construction has come
  coding, rc_mode, pix_known, \* coding_type, vid_cfg.rc_mode ("none" if the name
                \* is unknown), whether the pixel format has an MPP equivalent
  extra_data,   \* number of NAL units in Codec::extra_data
  change_list,  \* VideoEncoder::change_list
  requests,     \* changes requested so far, numbered from 1
  applied,      \* history: the changes MPP accepted, as requested
  config,       \* Codec::config
  driver,       \* what MPP was told and accepted
  pending,      \* frames MPP has accepted and not returned
  ctx,          \* MPPContext: references, and how often mpp_destroy ran
  faults        \* failures of calls so far

typeVars   == <<coding, rc_mode, pix_known, extra_data>>
changeVars == <<change_list, requests, applied>>
confVars   == <<config, driver>>
encVars    == <<stage, typeVars, changeVars, confVars, pending, ctx, faults>>

(***************************************************************************)
(* Rate control: the limits MPP is given around a target.                  *)
(***************************************************************************)
Refused == [target |-> 0, max |-> 0, min |-> 0]

AtMost(a, b)  == IF a > b THEN b ELSE a
AtLeast(a, b) == IF a < b THEN b ELSE a

\* Mutant of CalcMppBps: divides before it multiplies.
CalcMppBpsRounded(bps) ==
  IF bps > MaxBps THEN Refused
  ELSE [target |-> bps, max |-> AtMost((bps \div 16) * 17, MaxBps),
        min |-> AtLeast((bps \div 16) * 15, MinBps)]

CalcMppBps(bps) ==
  IF bps > MaxBps THEN Refused
  ELSE LET hi == IF rc_mode = "cbr" THEN (bps * 17) \div 16 ELSE (bps * 3) \div 2
           lo == IF rc_mode = "cbr" THEN (bps * 15) \div 16 ELSE bps \div 2
       IN [target |-> bps, max |-> AtMost(hi, MaxBps), min |-> AtLeast(lo, MinBps)]

NoConfig == [bps |-> 0, fps |-> 0, qp |-> 0]
NoDriver == [rc |-> Refused, fps |-> 0, qp |-> 0]

EncoderInit ==
  /\ coding \in Codings /\ rc_mode \in RcModes \union {"none"} /\ pix_known \in BOOLEAN
  /\ extra_data = 0
  /\ change_list = <<>> /\ requests = 0 /\ applied = <<>>
  /\ config = NoConfig /\ driver = NoDriver
  /\ pending = <<>> /\ faults = 0
  /\ ctx = [created |-> FALSE, refs |-> 0, destroyed |-> 0, initFailed |-> FALSE]

Fault == faults < MaxFaults /\ faults' = faults + 1

(***************************************************************************)
(* The context belongs to the encoder and to every MPPPacketContext, which *)
(* a buffer handed on has whether there is a packet in it or not: the last *)
(* of them destroys it.                                                    *)
(***************************************************************************)
Created(c) == [c EXCEPT !.created = TRUE, !.refs = 1]

Drop(c, n) ==
  [c EXCEPT !.refs = @ - n,
            !.destroyed = @ + IF c.created /\ n > 0 /\ c.refs = n THEN 1 ELSE 0]

\* Mutant of WithPacket: no reference is kept.
WithoutPacket(c) == c

WithPacket(c) == [c EXCEPT !.refs = @ + 1]

(***************************************************************************)
(* Construction.                                                           *)
(***************************************************************************)

\* MPPEncoder::Init. When mpp_init fails it destroys the context, but mpp_ctx
\* keeps the pointers, with which its own destructor destroys it again.
CreateEncoder ==
  /\ stage = "create"
  /\ \/ stage' = "prep" /\ ctx' = Created(ctx) /\ UNCHANGED faults
     \/ stage' = "failed" /\ Fault /\ UNCHANGED ctx   \* mpp_create
     \/ /\ stage' = "failed" /\ Fault                 \* mpp_init
        /\ ctx' = Drop([Created(ctx) EXCEPT !.destroyed = 1, !.initFailed = TRUE], 1)
  /\ UNCHANGED <<typeVars, changeVars, confVars, pending>>

\* Any control of InitConfig fails; the encoder goes, and the context with it.
ControlFails ==
  /\ stage \in {"prep", "control", "codec", "extra"} /\ Fault
  /\ stage' = "failed" /\ ctx' = Drop(ctx, 1)
  /\ UNCHANGED <<typeVars, changeVars, confVars, pending>>

\* MppEncPrepConfig: the pixel format is converted or refused.
PrepConfig ==
  /\ stage = "prep"
  /\ IF pix_known THEN stage' = "control" /\ UNCHANGED ctx
                  ELSE stage' = "failed" /\ ctx' = Drop(ctx, 1)
  /\ UNCHANGED <<typeVars, changeVars, confVars, pending, faults>>

\* MPPCommonConfig::InitConfig: rate control, refused for an unknown mode or a
\* rate too large ...
InitRateControl(bps) ==
  LET rc == IF rc_mode = "none" THEN Refused ELSE CalcMppBps(bps) IN
  /\ stage = "control" /\ coding # "mjpeg"
  /\ IF rc = Refused
       THEN stage' = "failed" /\ ctx' = Drop(ctx, 1) /\ UNCHANGED driver
       ELSE stage' = "codec" /\ driver' = [driver EXCEPT !.rc = rc] /\ UNCHANGED ctx
  /\ UNCHANGED <<typeVars, changeVars, config, pending, faults>>

\* ... the codec ...
InitCodec ==
  /\ stage = "codec"
  /\ stage' = "extra"
  /\ UNCHANGED <<typeVars, changeVars, confVars, pending, ctx, faults>>

\* ... the extra data, if MPP has any, are copied; the configuration is kept.
InitExtra ==
  /\ stage = "extra"
  /\ stage' = "configured"
  /\ extra_data' \in {0, NumExtra}
  /\ config' = [config EXCEPT !.bps = driver.rc.target]
  /\ UNCHANGED <<coding, rc_mode, pix_known, changeVars, driver, pending, ctx, faults>>

\* MPPMJPEGConfig::InitConfig: the quantisation, neither rate nor extra data.
InitMjpeg ==
  /\ stage = "control" /\ coding = "mjpeg"
  /\ stage' = "configured"
  /\ UNCHANGED <<typeVars, changeVars, confVars, pending, ctx, faults>>

(***************************************************************************)
(* Changes.                                                                *)
(***************************************************************************)
RequestChange(mask, bps) ==
  /\ stage = "configured" /\ requests < MaxRequests
  /\ requests' = requests + 1
  /\ change_list' = Append(change_list, [id |-> requests + 1, mask |-> mask, bps |-> bps])
  /\ UNCHANGED <<stage, typeVars, applied, confVars, pending, ctx, faults>>

\* The one parameter of a mask that CheckConfigChange looks at.
First(mask) ==
  IF coding = "mjpeg" THEN (IF "qp" \in mask THEN "qp" ELSE "none")
  ELSE CHOOSE k \in {"fps", "bps", "idr", "qp", "none"} :
         /\ k \in mask \/ k = "none"
         /\ k # "fps" => "fps" \notin mask
         /\ k \notin {"fps", "bps"} => "bps" \notin mask
         /\ k \in {"qp", "none"} => "idr" \notin mask
         /\ k = "none" => "qp" \notin mask

\* What MPP is told by change c.
Told(c) ==
  CASE First(c.mask) = "fps" -> [driver EXCEPT !.fps = c.id]
    [] First(c.mask) = "bps" -> [driver EXCEPT !.rc = CalcMppBps(c.bps)]
    [] First(c.mask) = "qp"  -> [driver EXCEPT !.qp = c.id]
    [] OTHER                 -> driver

Accepts(c) ==
  /\ First(c.mask) # "none"
  /\ First(c.mask) = "bps" => CalcMppBps(c.bps) # Refused
  /\ First(c.mask) = "qp" => coding # "hevc"

Kept(d) == [bps |-> d.rc.target, fps |-> d.fps, qp |-> d.qp]

\* Mutant of Apply: the configuration is updated before MPP is asked.
ApplyEagerly(c, ok) ==
  /\ config' = Kept(Told(c))
  /\ driver' = IF ok THEN Told(c) ELSE driver

\* CheckConfigChange: the configuration follows what MPP accepted.
Apply(c, ok) ==
  /\ driver' = IF ok THEN Told(c) ELSE driver
  /\ config' = IF ok THEN Kept(Told(c)) ELSE config

\* Mutant of Remaining: the newest request goes.
RemainingLast == SubSeq(change_list, 1, Len(change_list) - 1)

Remaining == Tail(change_list)

\* PeekChange uses a reference to the element it has just popped: when the
\* caller of RequestChange kept no reference, the value is read after its
\* ParameterBuffer was freed.
Peeked == {Head(change_list)} \union
          (IF StaleChange THEN {[Head(change_list) EXCEPT !.bps = b] : b \in Rates} ELSE {})

\* The beginning of Process: one change per frame. A change that is refused,
\* by the code or by MPP, costs the frame.
TakeChange(frameLost) ==
  IF change_list = <<>>
    THEN ~frameLost /\ UNCHANGED <<changeVars, confVars, faults>>
    ELSE \E c \in Peeked :
           /\ IF Accepts(c) /\ frameLost THEN Fault ELSE UNCHANGED faults
           /\ Accepts(c) \/ frameLost
           /\ Apply(c, ~frameLost)
           /\ change_list' = Remaining
           /\ applied' = IF frameLost THEN applied ELSE Append(applied, Head(change_list).id)
           /\ UNCHANGED requests

(***************************************************************************)
(* One frame. The outcome is the frame whose packet comes out, Failed, or  *)
(* NoPacket: Process goes on with a null packet when a port yields no task *)
(* and when the task that comes back carries none, and returns 0.          *)
(***************************************************************************)
Failed   == 0
NoPacket == -1
Nothing  == {Failed, NoPacket}

\* The frame, the packet of the caller or the motion buffer cannot be prepared:
\* not an image, no format, no memory, an import that fails.
NotPrepared(outcome) ==
  Fault /\ outcome = Failed /\ UNCHANGED pending

\* The input port: poll, dequeue, enqueue.
NotAccepted(outcome) ==
  Fault /\ outcome \in Nothing /\ UNCHANGED pending

NotReturned(frame, outcome) ==   \* the output port: the packet stays in MPP
  /\ Fault /\ outcome \in Nothing
  /\ pending' = Append(pending, frame)

LostInside(frame, outcome) ==  \* the task cannot be given back and the packet
                               \* is leaked, or MPP made none of the frame
  /\ Fault /\ outcome \in Nothing
  /\ pending' = Tail(Append(pending, frame))

Encoded(frame, outcome) ==
  /\ outcome = Head(Append(pending, frame))
  /\ pending' = Tail(Append(pending, frame))
  /\ UNCHANGED faults

Encode(frame, outcome) ==
  /\ \/ NotPrepared(outcome) \/ NotAccepted(outcome) \/ NotReturned(frame, outcome) \/ LostInside(frame, outcome)
     \/ Encoded(frame, outcome)
  /\ UNCHANGED <<stage, typeVars, changeVars, confVars>>
=============================================================================
