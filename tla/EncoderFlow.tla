---------------------------- MODULE EncoderFlow ----------------------------
(***************************************************************************)
(* The two clients of MppEncoder. The flow: a DROPFRONT input served by    *)
(* one coroutine, an output slot, and if asked for a second one for motion *)
(* data; the extra data are queued by the constructor and go down before   *)
(* the first packet. The direct client: an application that calls Process  *)
(* itself, as mpp_enc_test does, and the only one that can request         *)
(* changes: the flow does not offer them.                                  *)
(*                                                                         *)
(* The input queue is that of FlowInput, here one step per call.           *)
(***************************************************************************)
EXTENDS MppEncoder, FiniteSets

CONSTANTS
  InputCache,  \* input_maxcachenum
  MaxFrames, MaxRounds, MaxToggles  \* bounds of the model

ASSUME EncoderFlowAssumption ==
  InputCache \in Nat \ {0} /\ MaxFrames \in Nat

VARIABLES
  client,       \* "flow" or "direct"
  extra_output, \* whether there is an output slot 1
  enable, quit, \* Flow::enable, Flow::quit
  sent, inq,    \* frames sent so far, the input's cached_buffers
  pc, src, dst, ret, \* encode: where it is, its input, output and result
  cached_buffers, \* FlowMap::cached_buffers of the output slots
  flows,        \* whether a flow is attached to a slot
  early,        \* history: attached since before anything went down
  received,     \* history: what the down flow of a slot was sent
  released,     \* how many of slot 0's its receiver has let go
  rounds, toggles  \* calls of encode, attachments and detachments

inVars   == <<sent, inq>>
workVars == <<pc, src, dst, ret>>
outVars  == <<cached_buffers, received>>
wireVars == <<flows, early, toggles>>
flowVars == <<client, extra_output, enable, quit, inVars, workVars, outVars, wireVars,
              released, rounds>>
vars     == <<encVars, flowVars>>

Slots    == {0, 1}
OutSlots == IF extra_output THEN Slots ELSE {0}

Null      == [kind |-> "null", n |-> 0]
Empty     == [kind |-> "empty", n |-> 0]   \* a MediaBuffer without content
Extra(i)  == [kind |-> "extra", n |-> i]
Packet(i) == [kind |-> "packet", n |-> i]
Bare      == [kind |-> "bare", n |-> 0]    \* no content, but an MPPPacketContext
Copy(i)   == [kind |-> "copy", n |-> i]    \* a packet's content in a buffer of the caller
IsPacket(b) == b.kind = "packet"
KeepsContext(b) == b.kind \in {"packet", "bare"}

Init ==
  /\ EncoderInit
  /\ client \in {"flow", "direct"} /\ extra_output \in BOOLEAN
  /\ client = "direct" => ~extra_output
  /\ stage = IF client = "flow" THEN "params" ELSE "create"
  /\ enable = TRUE /\ quit = FALSE
  /\ sent = 0 /\ inq = <<>>
  /\ pc = "none" /\ src = 0 /\ dst = Empty /\ ret = TRUE
  /\ cached_buffers = [s \in Slots |-> <<>>]
  /\ received = [s \in Slots |-> <<>>]
  /\ flows = [s \in Slots |-> FALSE]
  /\ early = [s \in Slots |-> TRUE]
  /\ released = 0 /\ rounds = 0 /\ toggles = 0

(***************************************************************************)
(* Construction of the flow.                                               *)
(***************************************************************************)
ParseParams ==    \* the flow's and the data types, which a factory must support
  /\ stage = "params"
  /\ \/ stage' = "media" /\ UNCHANGED faults
     \/ stage' = "failed" /\ Fault
  /\ UNCHANGED <<typeVars, changeVars, confVars, pending, ctx, flowVars>>

\* Every number must be there; names of modes and formats are looked up, and
\* one that is unknown is only found out by InitConfig.
ParseMediaConfigFromMap ==
  /\ stage = "media"
  /\ \/ stage' = "create" /\ UNCHANGED faults
     \/ stage' = "failed" /\ Fault
  /\ UNCHANGED <<typeVars, changeVars, confVars, pending, ctx, flowVars>>

ConstructEncoder ==
  /\ \/ CreateEncoder \/ ControlFails \/ PrepConfig \/ InitCodec \/ InitExtra \/ InitMjpeg
     \/ \E bps \in Rates : InitRateControl(bps)
  /\ UNCHANGED flowVars

\* InstallSlotMap starts the coroutine, then the extra data are queued: each
\* NAL unit on slot 0, a null buffer for it on slot 1.
Extras == [i \in 1..extra_data |-> Extra(i)]   \* split_h264_separate

\* Mutant of Install: nothing is queued on slot 1.
InstallUnpaired ==
  /\ client = "flow" /\ stage = "configured" /\ pc = "none"
  /\ pc' = "while"
  /\ cached_buffers' = [cached_buffers EXCEPT ![0] = Extras]
  /\ UNCHANGED <<encVars, client, extra_output, enable, quit, inVars, src, dst, ret,
                 received, wireVars, released, rounds>>

Install ==
  /\ client = "flow" /\ stage = "configured" /\ pc = "none"
  /\ pc' = "while"
  /\ cached_buffers' = [s \in Slots |->
       IF s = 0 THEN Extras
       ELSE IF extra_output THEN [i \in DOMAIN Extras |-> Null] ELSE <<>>]
  /\ UNCHANGED <<encVars, client, extra_output, enable, quit, inVars, src, dst, ret,
                 received, wireVars, released, rounds>>

Constructed == pc # "none"

(***************************************************************************)
(* The threads around the flow.                                            *)
(***************************************************************************)
FullLate == Len(inq) > InputCache   \* Mutant of Full: off by one.

Full == Len(inq) >= InputCache

SendInput ==
  /\ client = "flow" /\ Constructed /\ ~quit /\ enable /\ sent < MaxFrames
  /\ sent' = sent + 1
  /\ inq' = Append(IF Full THEN Tail(inq) ELSE inq, sent + 1)
  /\ UNCHANGED <<encVars, client, extra_output, enable, quit, workVars, outVars, wireVars,
                 released, rounds>>

\* AddDownFlow and RemoveDownFlow.
Wire(s) ==
  /\ client = "flow" /\ Constructed /\ ~quit /\ s \in OutSlots /\ toggles < MaxToggles
  /\ toggles' = toggles + 1
  /\ flows' = [flows EXCEPT ![s] = ~@]
  /\ early' = IF flows[s] \/ rounds > 0 THEN [early EXCEPT ![s] = FALSE] ELSE early
  /\ UNCHANGED <<encVars, client, extra_output, enable, quit, inVars, workVars, outVars,
                 released, rounds>>

SetDisable ==
  /\ client = "flow" /\ Constructed /\ enable
  /\ enable' = FALSE
  /\ UNCHANGED <<encVars, client, extra_output, quit, inVars, workVars, outVars, wireVars,
                 released, rounds>>

\* The destructor: StopAllThread ...
Stop ==
  /\ client = "flow" /\ Constructed /\ ~quit
  /\ enable' = FALSE /\ quit' = TRUE
  /\ UNCHANGED <<encVars, client, extra_output, inVars, workVars, outVars, wireVars,
                 released, rounds>>

\* ... and, when the coroutine has been joined, the members: the encoder with
\* its reference, then the buffers still cached with theirs.
Held(seq) == Cardinality({i \in DOMAIN seq : KeepsContext(seq[i])})

Destruct ==
  /\ client = "flow" /\ pc = "done" /\ stage # "gone"
  /\ stage' = "gone"
  /\ ctx' = Drop(ctx, 1 + Held(cached_buffers[0]))
  /\ cached_buffers' = [s \in Slots |-> <<>>]
  /\ UNCHANGED <<typeVars, changeVars, confVars, pending, faults, client, extra_output, enable,
                 quit, inVars, workVars, received, wireVars, released, rounds>>

\* The receiver of slot 0 lets its oldest buffer go, whenever it likes.
Release ==
  /\ released < Len(received[0])
  /\ released' = released + 1
  /\ ctx' = Drop(ctx, IF KeepsContext(received[0][released + 1]) THEN 1 ELSE 0)
  /\ UNCHANGED <<stage, typeVars, changeVars, confVars, pending, faults, client, extra_output,
                 enable, quit, inVars, workVars, outVars, wireVars, rounds>>

(***************************************************************************)
(* The coroutine.                                                          *)
(***************************************************************************)
While ==
  /\ client = "flow" /\ pc = "while" /\ (rounds < MaxRounds \/ quit)
  /\ pc' = IF quit THEN "done" ELSE "fetch"
  /\ UNCHANGED <<encVars, client, extra_output, enable, quit, inVars, src, dst, ret, outVars,
                 wireVars, released, rounds>>

\* ASyncFetchInputCommon: a disabled flow fetches null and leaves the queue.
Fetch ==
  /\ pc = "fetch" /\ (inq # <<>> \/ quit)
  /\ pc' = "process" /\ rounds' = rounds + 1
  /\ src' = IF enable THEN Head(inq) ELSE 0
  /\ inq' = IF enable THEN Tail(inq) ELSE inq
  /\ UNCHANGED <<encVars, client, extra_output, enable, quit, sent, dst, ret, outVars,
                 wireVars, released>>

\* encode, up to MPPEncoder::Process. Without input Process returns 0 at once
\* and leaves the output empty.
ProcessNothing ==
  /\ pc = "process" /\ src = 0
  /\ pc' = "set0" /\ dst' = Empty /\ ret' = TRUE
  /\ UNCHANGED <<encVars, client, extra_output, enable, quit, inVars, src, outVars, wireVars,
                 released, rounds>>

ProcessChange ==
  /\ pc = "process" /\ src # 0
  /\ \E frameLost \in BOOLEAN :
       /\ TakeChange(frameLost)
       /\ ret' = ~frameLost
       /\ pc' = IF ~frameLost THEN "encode" ELSE IF client = "flow" THEN "send0" ELSE "none"
  /\ UNCHANGED <<stage, typeVars, pending, ctx, client, extra_output, enable, quit, inVars,
                 src, dst, outVars, wireVars, released, rounds>>

\* The output buffer is new and empty: it keeps the packet of MPP, and with it,
\* or with the null packet in its place, a reference to the context.
ProcessFrame ==
  /\ client = "flow" /\ pc = "encode"
  /\ \E outcome \in NoPacket..sent :
       /\ Encode(src, outcome)
       /\ IF outcome = Failed
            THEN ret' = FALSE /\ pc' = "send0" /\ UNCHANGED <<dst, ctx>>
            ELSE /\ ret' = TRUE /\ pc' = "set0"
                 /\ dst' = IF outcome = NoPacket THEN Bare ELSE Packet(outcome)
                 /\ ctx' = WithPacket(ctx)
  /\ UNCHANGED <<client, extra_output, enable, quit, inVars, src, outVars, wireVars, released,
                 rounds>>

\* SetOutput on slot 0, then on slot 1: refused when the flow was disabled in
\* between. The encoder never fills the buffer of slot 1.
SetOutput0 ==
  /\ pc = "set0"
  /\ cached_buffers' = IF enable THEN [cached_buffers EXCEPT ![0] = Append(@, dst)]
                       ELSE cached_buffers
  /\ ctx' = IF ~enable /\ KeepsContext(dst) THEN Drop(ctx, 1) ELSE ctx
  /\ ret' = enable
  /\ pc' = IF extra_output THEN "set1" ELSE "send0"
  /\ UNCHANGED <<stage, typeVars, changeVars, confVars, pending, faults, client, extra_output,
                 enable, quit, inVars, src, dst, received, wireVars, released, rounds>>

SetOutput1 ==
  /\ pc = "set1"
  /\ cached_buffers' = IF enable THEN [cached_buffers EXCEPT ![1] = Append(@, Empty)]
                       ELSE cached_buffers
  /\ ret' = (ret /\ enable)
  /\ pc' = "send0"
  /\ UNCHANGED <<encVars, client, extra_output, enable, quit, inVars, src, dst, received,
                 wireVars, released, rounds>>

\* Mutant of Down: the queue is not cleared.
DownKeeps(s) ==
  /\ received' = [received EXCEPT ![s] = IF ~flows[s] THEN @ ELSE IF ret
                    THEN @ \o cached_buffers[s] ELSE Append(@, Null)]
  /\ UNCHANGED cached_buffers

\* SendBufferDownFromDeque: the whole queue, or one null buffer after a failure.
Down(s) ==
  /\ received' = [received EXCEPT ![s] = IF ~flows[s] THEN @ ELSE IF ret
                    THEN @ \o cached_buffers[s] ELSE Append(@, Null)]
  /\ cached_buffers' = [cached_buffers EXCEPT ![s] = IF ret THEN <<>> ELSE @]

\* Buffers nobody took are let go when the queue is cleared.
SendDown0 ==
  /\ pc = "send0"
  /\ Down(0)
  /\ ctx' = Drop(ctx, IF ret /\ ~flows[0] THEN Held(cached_buffers[0]) ELSE 0)
  /\ pc' = IF extra_output THEN "send1" ELSE "while"
  /\ dst' = Empty
  /\ UNCHANGED <<stage, typeVars, changeVars, confVars, pending, faults, client, extra_output,
                 enable, quit, inVars, src, ret, wireVars, released, rounds>>

SendDown1 ==
  /\ pc = "send1"
  /\ Down(1)
  /\ pc' = "while"
  /\ UNCHANGED <<encVars, client, extra_output, enable, quit, inVars, src, dst, ret, wireVars,
                 released, rounds>>

(***************************************************************************)
(* The direct client. It encodes into a buffer of its own: MPP writes to   *)
(* it or the packet is copied and let go, so none outlives the call.       *)
(***************************************************************************)
Request ==
  /\ client = "direct"
  /\ \E mask \in Masks : \E bps \in (IF "bps" \in mask THEN Rates ELSE {0}) :
       RequestChange(mask, bps)
  /\ UNCHANGED flowVars

CallProcess ==
  /\ client = "direct" /\ stage = "configured" /\ pc = "none" /\ sent < MaxFrames
  /\ sent' = sent + 1 /\ src' = sent + 1 /\ pc' = "process"
  /\ UNCHANGED <<encVars, client, extra_output, enable, quit, inq, dst, ret, outVars, wireVars,
                 released, rounds>>

ReturnProcess ==
  /\ client = "direct" /\ pc = "encode"
  /\ \E outcome \in NoPacket..sent :
       /\ Encode(src, outcome)
       /\ ret' = (outcome # Failed)
       /\ received' = IF outcome \in 1..sent THEN [received EXCEPT ![0] = Append(@, Copy(outcome))]
                      ELSE received
  /\ pc' = "none"
  /\ UNCHANGED <<ctx, client, extra_output, enable, quit, inVars, src, dst, cached_buffers,
                 wireVars, released, rounds>>

\* The client gives up the encoder.
Discard ==
  /\ client = "direct" /\ stage = "configured" /\ pc = "none"
  /\ stage' = "gone" /\ ctx' = Drop(ctx, 1)
  /\ UNCHANGED <<typeVars, changeVars, confVars, pending, faults, flowVars>>

Flow   == While \/ Fetch \/ ProcessNothing \/ ProcessChange \/ ProcessFrame \/ SetOutput0
          \/ SetOutput1 \/ SendDown0 \/ SendDown1
Around == SendInput \/ (\E s \in Slots : Wire(s)) \/ SetDisable \/ Stop \/ Destruct \/ Release
Direct == Request \/ CallProcess \/ ReturnProcess \/ Discard

Next == ParseParams \/ ParseMediaConfigFromMap \/ ConstructEncoder \/ Install \/ Flow \/ Around \/ Direct

Spec == Init /\ [][Next]_vars

(***************************************************************************)
(* Properties.                                                             *)
(***************************************************************************)
TypeOK ==
  /\ stage \in {"params", "media", "create", "prep", "control", "codec", "extra", "configured",
               "failed", "gone"}
  /\ pc \in {"none", "while", "fetch", "process", "encode", "set0", "set1", "send0", "send1",
             "done"}
  /\ src \in 0..MaxFrames /\ sent \in 0..MaxFrames /\ ret \in BOOLEAN
  /\ inq \in UNION {[1..n -> 1..MaxFrames] : n \in 0..InputCache}
  /\ ctx.refs \in Nat /\ ctx.destroyed \in 0..2
  /\ released \in 0..Len(received[0]) /\ Len(pending) <= MaxFaults

BetweenRounds == pc \in {"while", "fetch", "done"}

\* After k other buffers the extra data, each NAL unit once, and none later.
ExtrasAfter(got, k) ==
  /\ k + extra_data <= Len(got)
  /\ \A i \in 1..extra_data : got[k + i] = Extra(i)
  /\ \A i \in (k + extra_data + 1)..Len(got) : got[i].kind # "extra"

\* A down flow attached since the beginning gets a null buffer for each call of
\* encode that fails before the first that does not, then the extra data, once,
\* and only then packets, in the order of their frames and none twice; and it
\* gets exactly one buffer for each call: a packet, an empty or a null one.
Delivered ==
  client = "flow" /\ early[0] /\ flows[0] =>
    LET got == received[0]
    IN /\ \E k \in 0..Len(got) :
            /\ \A i \in 1..k : got[i] = Null
            /\ \/ k = Len(got) /\ (BetweenRounds => rounds = k)
               \/ ExtrasAfter(got, k) /\ (BetweenRounds => rounds = Len(got) - extra_data)
       /\ \A i, j \in DOMAIN got :
            i < j /\ IsPacket(got[i]) /\ IsPacket(got[j]) => got[i].n < got[j].n

\* Flows attached to both slots since the beginning can match what they get by
\* its position: the extra data and the null buffers with null, a packet or an
\* empty buffer with a buffer of motion data.
Paired ==
  client = "flow" /\ extra_output /\ BetweenRounds
  /\ (\A s \in Slots : early[s] /\ flows[s]) =>
    /\ Len(received[0]) = Len(received[1])
    /\ \A i \in DOMAIN received[0] :
         received[1][i] = IF received[0][i].kind \in {"extra", "null"} THEN Null ELSE Empty

Unreleased == Held(SubSeq(received[0], released + 1, Len(received[0])))

\* The MPP context lives as long as a packet of it, or an output that Process
\* left without one, is held anywhere, in a queue or by a receiver that outlives
\* the flow; it is destroyed when the encoder and the last of these buffers are
\* gone, and destroyed once, unless mpp_init failed.
ContextOutlivesPackets ==
  /\ Unreleased + Held(cached_buffers[0]) > 0 => ctx.destroyed = 0
  /\ stage = "gone" /\ Unreleased = 0 => ctx.destroyed = 1
  /\ ctx.destroyed > 1 => ctx.initFailed

\* The configuration the encoder reports is what MPP accepted, whatever was
\* refused; changes are applied in the order they were requested, each once.
ChangesKept ==
  /\ stage = "configured" => config = Kept(driver)
  /\ \A i, j \in DOMAIN applied : i < j => applied[i] < applied[j]
  /\ \A i \in DOMAIN applied, j \in DOMAIN change_list : applied[i] < change_list[j].id

\* MPP is never given limits that exclude their target, for rates of at least
\* kMPPMinBps.
RateWithinLimits ==
  driver.rc.target >= MinBps =>
    driver.rc.min <= driver.rc.target /\ driver.rc.target <= driver.rc.max
=============================================================================
