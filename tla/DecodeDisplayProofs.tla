------------------------- MODULE DecodeDisplayProofs -------------------------
(***************************************************************************)
(* What holds of the display pipeline for every board and request, every   *)
(* size of a queue and any number of packets, calls and failures: types,   *)
(* the rectangles, and who holds the frame on the screen; with a second    *)
(* invariant, the order in which the frames are displayed; with a third,   *)
(* that the ids Open chooses go together.                                  *)
(***************************************************************************)
EXTENDS DecodeDisplay, SequenceTheorems, WellFoundedInduction, TLAPS

-----------------------------------------------------------------------------
(* The invariant.                                                          *)

\* A record of ids with one of the three results.
IsIds(r) ==
  /\ r = [ok |-> r.ok, connectors |-> r.connectors, encoders |-> r.encoders,
          crtcs |-> r.crtcs, planes |-> r.planes]
  /\ r.ok \in OkValues

\* Open has not come to the rectangles.
Narrowing == {"device", "connector", "encoder", "crtc", "plane", "skip", "fps", "format", "type",
              "size", "agree", "mode", "set_crtc", "properties"}

\* No rectangle before Open sets them, no frame but on an open stream, and
\* then that of the image the stream keeps.
DrmInv ==
  /\ opening \in OpenStates /\ IsIds(ids)
  /\ plane = [fb |-> plane.fb, src |-> plane.src, dst |-> plane.dst]
  /\ plane.fb \in 0..MaxPackets /\ disp_buffer \in Blank..MaxPackets
  /\ opening \in Narrowing => src_rect = 0 /\ dst_rect = 0
  /\ RectsAgree
  /\ opening # "open" => plane.fb = NoFrame
  /\ plane.fb # NoFrame => plane.fb = disp_buffer

Images  == [image : BOOLEAN, frame : 0..MaxPackets]
Outputs == [kind : {"frame", "bad", "info", "eos"}, n : 0..MaxPackets]

\* do_decode returns whether it has queued an image; the index of the one to
\* send next is within the queue.
PipeInv ==
  /\ sent \in 0..MaxPackets /\ packet \in 0..MaxPackets /\ ret \in BOOLEAN
  /\ inq \in Seq(0..MaxPackets) /\ Len(inq) <= InputCache
  /\ mpp_in \in Seq(0..MaxPackets) /\ Len(mpp_in) <= MppInputs
  /\ mpp_out \in Seq(Outputs)
  /\ cached_buffers \in Seq(Images) /\ passed \in Nat
  /\ outq \in Seq(Images) /\ Len(outq) <= OutCache
  /\ buffer \in Images
  /\ pc \in {"none", "fetch", "send", "output", "process", "down"}
  /\ out_pc \in {"none", "fetch", "write"}
  /\ pc \in {"none", "fetch", "send", "process"} => cached_buffers = <<>>
  /\ pc \in {"send", "process"} => ~ret
  /\ pc \in {"output", "down"} /\ ~ret => cached_buffers = <<>>
  /\ pc \in {"output", "down"} /\ ret => cached_buffers # <<>>
  /\ pc # "down" \/ ~ret => passed = 0
  /\ pc = "down" /\ ret => passed < Len(cached_buffers)

IInv == DrmInv /\ PipeInv

-----------------------------------------------------------------------------
(* The results of narrowing.                                               *)

\* Failing and crashing are results.
LEMMA FailIds ==
  ASSUME NEW r, IsIds(r), NEW s
  PROVE  IsIds(Fail(r)) /\ IsIds(Crash(r)) /\ IsIds(FailIfNone(r, s))
BY DEF IsIds, Fail, Crash, FailIfNone, OkValues

\* Every id of a type may be removed.
LEMMA ExceptIds ==
  ASSUME NEW r, IsIds(r), NEW s
  PROVE  /\ IsIds([r EXCEPT !.connectors = s]) /\ IsIds([r EXCEPT !.encoders = s])
         /\ IsIds([r EXCEPT !.crtcs = s]) /\ IsIds([r EXCEPT !.planes = s])
BY DEF IsIds

\* One step of narrowing.
LEMMA NarrowIds ==
  ASSUME NEW b, NEW r, IsIds(r)
  PROVE  /\ \A kept : IsIds(KeepConnectors(r, kept))
         /\ IsIds(ConnectorsByEncoders(b, r))
         /\ IsIds(EncodersByCrtcs(b, r))
         /\ \A possible : IsIds(CrtcsByPossible(r, possible))
         /\ \A kept : IsIds(KeepPlanes(r, kept))
         /\ IsIds(PlanesByCrtcs(b, r))
<1>1. \A kept : IsIds(KeepConnectors(r, kept))
  BY FailIds, ExceptIds DEF KeepConnectors
<1>2. IsIds(ConnectorsByEncoders(b, r))
  BY <1>1 DEF ConnectorsByEncoders
<1>3. IsIds(EncodersByCrtcs(b, r))
  <2>1. CASE Hole(r.encoders)
    BY <2>1, FailIds DEF EncodersByCrtcs
  <2>2. CASE ~Hole(r.encoders)
    <3> DEFINE kept == Among({e \in ToSet(r.encoders) :
                                b.encoder[e].crtcs \cap ToSet(r.crtcs) # {}}, r.encoders)
    <3>1. EncodersByCrtcs(b, r) = [r EXCEPT !.encoders = WithCount(kept, Len(r.encoders)),
                                            !.planes = WithCount(r.planes, Len(kept))]
      BY <2>2, Zenon DEF EncodersByCrtcs
    <3> HIDE DEF kept
    <3> QED BY <3>1 DEF IsIds
  <2> QED BY <2>1, <2>2
<1>4. \A possible : IsIds(CrtcsByPossible(r, possible))
  BY ExceptIds DEF CrtcsByPossible
<1>5. \A kept : IsIds(KeepPlanes(r, kept))
  BY FailIds, ExceptIds DEF KeepPlanes
<1>6. IsIds(PlanesByCrtcs(b, r))
  BY <1>5 DEF PlanesByCrtcs
<1> QED BY <1>1, <1>2, <1>3, <1>4, <1>5, <1>6

\* A change of one type of ids that is passed on to the others.
LEMMA PassedOn ==
  ASSUME NEW b, NEW r, IsIds(r)
  PROVE  IsIds(FromEncoders(b, r)) /\ IsIds(FromConnectors(b, r)) /\ IsIds(FromPlanes(b, r))
<1>1. ASSUME NEW q, IsIds(q)
      PROVE  IsIds(FromEncoders(b, q))
  <2>1. CASE Hole(q.encoders)
    BY <1>1, <2>1, FailIds DEF FromEncoders
  <2>2. CASE ~Hole(q.encoders)
    <3> DEFINE narrowed == CrtcsByPossible(q, CrtcsOfEncoders(b, q))
               planes   == PlanesByCrtcs(b, narrowed)
    <3>1. IsIds(narrowed)
      BY <1>1, NarrowIds
    <3>2. IsIds(planes)
      BY <3>1, NarrowIds
    <3>3. FromEncoders(b, q) \in
            {Fail(narrowed), q, planes, FailIfNone(planes, planes.planes)}
      BY <2>2 DEF FromEncoders
    <3> QED BY <1>1, <3>1, <3>2, <3>3, FailIds
  <2> QED BY <2>1, <2>2
<1>2. IsIds(FromConnectors(b, r))
  <2> DEFINE union == EncodersOfConnectors(b, r)
             kept  == EncodersByUnion(r, union)
             q     == [r EXCEPT !.encoders = kept]
  <2>1. IsIds(q)
    BY ExceptIds
  <2>2. FromConnectors(b, r) \in {Crash(r), Fail(r), r, FromEncoders(b, q)}
    BY DEF FromConnectors
  <2> HIDE DEF q
  <2> QED BY <1>1, <2>1, <2>2, FailIds
<1>3. IsIds(FromPlanes(b, r))
  <2>1. CASE Hole(r.planes)
    BY <2>1, FailIds DEF FromPlanes
  <2>2. CASE ~Hole(r.planes)
    <3> DEFINE narrowed == CrtcsByPossible(r, CrtcsOfPlanes(b, r))
               encoders == EncodersByCrtcs(b, narrowed)
    <3>1. IsIds(narrowed)
      BY NarrowIds
    <3>2. IsIds(encoders)
      BY <3>1, NarrowIds
    <3>3. FromPlanes(b, r) \in
            {Fail(narrowed), r, encoders, FailIfNone(encoders, encoders.encoders)}
      BY <2>2 DEF FromPlanes
    <3> QED BY <3>1, <3>2, <3>3, FailIds
  <2> QED BY <2>1, <2>2
<1> QED BY <1>1, <1>2, <1>3

\* What the user may ask for.
LEMMA ReserveIds ==
  ASSUME NEW b, NEW r, IsIds(r), NEW id
  PROVE  /\ IsIds(ReserveConnector(b, r, id)) /\ IsIds(ReserveEncoder(b, r, id))
         /\ IsIds(ReserveCrtc(b, r, id)) /\ IsIds(ReservePlane(b, r, id))
<1>1. IsIds(ReserveConnector(b, r, id))
  <2> DEFINE q == [r EXCEPT !.connectors = RemoveElementExcept(@, id)]
  <2>1. IsIds(q)
    BY ExceptIds
  <2>2. ReserveConnector(b, r, id) \in {Fail(r), FromConnectors(b, q)}
    BY DEF ReserveConnector
  <2> HIDE DEF q
  <2> QED BY <2>1, <2>2, FailIds, PassedOn
<1>2. IsIds(ReserveEncoder(b, r, id))
  <2> DEFINE q        == [r EXCEPT !.encoders = RemoveElementExcept(@, id)]
             narrowed == ConnectorsByEncoders(b, q)
  <2>1. IsIds(q)
    BY ExceptIds
  <2>2. IsIds(narrowed)
    BY <2>1, NarrowIds
  <2>3. ReserveEncoder(b, r, id)
          \in {Fail(r), narrowed, Fail(narrowed), FromEncoders(b, narrowed)}
    BY DEF ReserveEncoder
  <2> HIDE DEF narrowed
  <2> QED BY <2>2, <2>3, FailIds, PassedOn
<1>3. IsIds(ReserveCrtc(b, r, id))
  <2> DEFINE q == [r EXCEPT !.crtcs = RemoveElementExcept(@, id)]
  <2>1. IsIds(q)
    BY ExceptIds
  <2>2. ReserveCrtc(b, r, id) \in {Fail(r), EncodersByCrtcs(b, q)}
    BY DEF ReserveCrtc
  <2> HIDE DEF q
  <2> QED BY <2>1, <2>2, FailIds, NarrowIds
<1>4. IsIds(ReservePlane(b, r, id))
  <2> DEFINE q == [r EXCEPT !.planes = RemoveElementExcept(@, id)]
  <2>1. IsIds(q)
    BY ExceptIds
  <2>2. ReservePlane(b, r, id) \in {Fail(r), FromPlanes(b, q)}
    BY DEF ReservePlane
  <2> HIDE DEF q
  <2> QED BY <2>1, <2>2, FailIds, PassedOn
<1> QED BY <1>1, <1>2, <1>3, <1>4

\* Conditions on connectors and on planes.
LEMMA ConditionIds ==
  ASSUME NEW b, NEW r, IsIds(r), NEW x
  PROVE  /\ IsIds(ByConnectorCondition(b, r, x)) /\ IsIds(ByDataType(b, r, x))
         /\ IsIds(ByPlaneType(b, r, x)) /\ IsIds(BySkipped(b, r, x))
<1>1. IsIds(ByConnectorCondition(b, r, x))
  <2> DEFINE narrowed == KeepConnectors(r, x)
  <2>1. IsIds(narrowed)
    BY NarrowIds
  <2>2. ByConnectorCondition(b, r, x)
          \in {narrowed, Fail(narrowed), r, FromConnectors(b, narrowed)}
    BY DEF ByConnectorCondition
  <2> HIDE DEF narrowed
  <2> QED BY <2>1, <2>2, FailIds, PassedOn
<1>2. ASSUME NEW q, IsIds(q), NEW kept
      PROVE  IsIds(ByPlaneCondition(b, q, kept))
  <2> DEFINE narrowed == KeepPlanes(q, kept)
  <2>1. IsIds(narrowed)
    BY <1>2, NarrowIds
  <2>2. ByPlaneCondition(b, q, kept) \in {narrowed, FromPlanes(b, narrowed)}
    BY DEF ByPlaneCondition
  <2> HIDE DEF narrowed
  <2> QED BY <2>1, <2>2, PassedOn
<1>3. IsIds(FailIfNone(r, r.planes))
  BY FailIds
<1>4. IsIds(ByDataType(b, r, x)) /\ IsIds(ByPlaneType(b, r, x)) /\ IsIds(BySkipped(b, r, x))
  BY <1>2, <1>3, FailIds DEF ByDataType, ByPlaneType, BySkipped
<1> QED BY <1>1, <1>4

-----------------------------------------------------------------------------
(* The stream.                                                             *)

\* A step of Open that narrows the ids.
LEMMA OpenInv ==
  ASSUME DrmInv, NEW from \in Narrowing, NEW to \in Narrowing \union {"failed"},
         NEW result, IsIds(result), Open(from, to, result)
  PROVE  DrmInv'
<1>1. /\ UNCHANGED <<support_scale, src_rect, dst_rect, plane, disp_buffer>>
      /\ opening = from /\ ids' = result
      /\ opening' \in Narrowing \union {"failed", "crashed"}
  BY DEF Open, rectVars, IsIds, OkValues
<1>2. src_rect = 0 /\ dst_rect = 0 /\ from # "open" /\ from # "blind"
  BY <1>1 DEF DrmInv, Narrowing
<1>3. opening' \in OpenStates /\ opening' # "open" /\ opening' # "blind"
  BY <1>1 DEF Narrowing, OpenStates
<1> QED BY <1>1, <1>2, <1>3 DEF DrmInv, RectsAgree, Blind

\* The rectangles agree after any of the three calls.
LEMMA SetInv ==
  ASSUME DrmInv, NEW r, NEW s, NEW ok \in BOOLEAN,
         SetSource(r, ok) \/ SetDestination(r, ok) \/ SetBoth(r, s, ok),
         UNCHANGED support_scale, Blind' = Blind
  PROVE  /\ RectsAgree' /\ plane'.fb = plane.fb
         /\ plane' = [fb |-> plane'.fb, src |-> plane'.src, dst |-> plane'.dst]
<1>1. CASE UNCHANGED <<src_rect, dst_rect, plane>>
  BY <1>1 DEF DrmInv, RectsAgree
<1>2. ASSUME NEW x, NEW y, Set(x, y), support_scale \/ x = 0 \/ y = 0 \/ x = y
      PROVE  /\ RectsAgree' /\ plane'.fb = plane.fb
             /\ plane' = [fb |-> plane'.fb, src |-> plane'.src, dst |-> plane'.dst]
  <2>1. src_rect' = x /\ dst_rect' = y
    BY <1>2 DEF Set
  <2>2. CASE Blind
    BY <1>2, <2>1, <2>2 DEF Set, DrmInv, RectsAgree
  <2>3. CASE ~Blind
    <3>1. plane' = [plane EXCEPT !.src = x, !.dst = y]
      BY <1>2, <2>3 DEF Set
    <3>2. plane' = [fb |-> plane.fb, src |-> x, dst |-> y]
      BY <3>1 DEF DrmInv
    <3> QED BY <1>2, <2>1, <2>3, <3>2 DEF RectsAgree
  <2> QED BY <2>2, <2>3
<1>3. \/ UNCHANGED <<src_rect, dst_rect, plane>>
      \/ \E x, y : Set(x, y) /\ (support_scale \/ x = 0 \/ y = 0 \/ x = y)
  <2>1. CASE SetSource(r, ok)
    BY <2>1 DEF SetSource, Refused, NotAsked
  <2>2. CASE SetDestination(r, ok)
    BY <2>2 DEF SetDestination, Refused, NotAsked
  <2>3. CASE SetBoth(r, s, ok)
    BY <2>3 DEF SetBoth, Refused, NotAsked
  <2> QED BY <2>1, <2>2, <2>3
<1> QED BY <1>1, <1>2, <1>3

\* Every step of Open.
LEMMA OpenStepInv ==
  ASSUME DrmInv, OpenStep
  PROVE  DrmInv'
<1> USE DecodeDisplayAssumption DEF Blank
<1>1. CASE OpenDevice
  <2>1. \/ Open("device", "connector", IF want.plane \in want.skip THEN Fail(ids) ELSE ids)
        \/ Open("device", "failed", Fail(ids))
    BY <1>1 DEF OpenDevice
  <2>2. IsIds(ids) /\ IsIds(Fail(ids))
    BY FailIds DEF DrmInv
  <2>3. IsIds(IF want.plane \in want.skip THEN Fail(ids) ELSE ids)
    BY <2>2
  <2> QED BY <2>1, <2>2, <2>3, OpenInv DEF Narrowing
<1>2. CASE OpenConnector \/ OpenEncoder \/ OpenCrtc \/ OpenPlane
  <2> DEFINE c == IF want.connector = 0 THEN ByConnectorCondition(board, ids, Ready(board))
                  ELSE IF want.connector \in Ready(board)
                         THEN ReserveConnector(board, ids, want.connector)
                  ELSE Fail(ids)
             e == IF want.encoder = 0 THEN ids ELSE ReserveEncoder(board, ids, want.encoder)
             k == IF want.crtc = 0 THEN ids ELSE ReserveCrtc(board, ids, want.crtc)
             q == IF want.plane = 0 THEN ids ELSE ReservePlane(board, ids, want.plane)
  <2>1. IsIds(ids) /\ IsIds(c) /\ IsIds(e) /\ IsIds(k) /\ IsIds(q)
    BY FailIds, ReserveIds, ConditionIds DEF DrmInv
  <2>2. \/ Open("connector", "encoder", c) \/ Open("encoder", "crtc", e)
        \/ Open("crtc", "plane", k) \/ Open("plane", "skip", q)
    BY <1>2 DEF OpenConnector, OpenEncoder, OpenCrtc, OpenPlane
  <2> HIDE DEF c, e, k, q
  <2> QED BY <2>1, <2>2, OpenInv DEF Narrowing
<1>3. CASE OpenSkipped \/ OpenFps \/ OpenFormat \/ OpenType \/ OpenSize
  <2> DEFINE k == IF want.skip = {} THEN ids ELSE BySkipped(board, ids, want.skip)
             f == IF want.fps = 0 THEN ids
                  ELSE ByConnectorCondition(board, ids, HasFps(board, want.fps))
             d == ByDataType(board, ids, want.format)
             t == IF want.type = "" THEN ids ELSE ByPlaneType(board, ids, want.type)
             z == IF Matched = 0 THEN ids
                  ELSE ByConnectorCondition(board, ids, HasSize(board, want.size))
  <2>1. IsIds(ids) /\ IsIds(k) /\ IsIds(f) /\ IsIds(d) /\ IsIds(t) /\ IsIds(z)
    BY ConditionIds DEF DrmInv
  <2>2. \/ Open("skip", "fps", k) \/ Open("fps", "format", f) \/ Open("format", "type", d)
        \/ Open("type", "size", t) \/ Open("size", "agree", z)
    BY <1>3 DEF OpenSkipped, OpenFps, OpenFormat, OpenType, OpenSize
  <2> HIDE DEF k, f, d, t, z
  <2> QED BY <2>1, <2>2, OpenInv DEF Narrowing
<1>4. CASE Agree \/ AgreeMode
  <2>1. /\ UNCHANGED <<ids, support_scale, src_rect, dst_rect, plane, disp_buffer>>
        /\ opening \in {"agree", "mode"}
        /\ opening' \in {"crashed", "blind", "mode", "properties", "set_crtc"}
    BY <1>4 DEF Agree, AgreeMode, rectVars
  <2> QED BY <2>1 DEF DrmInv, RectsAgree, Blind, Narrowing, OpenStates
<1>5. CASE SetCrtc \/ GetProperties
  <2>1. /\ UNCHANGED <<ids, src_rect, dst_rect, plane>> /\ opening \in {"set_crtc", "properties"}
        /\ opening' \in {"properties", "failed", "source"}
        /\ disp_buffer' \in {disp_buffer, Blank, NoFrame}
    BY <1>5 DEF SetCrtc, GetProperties, rectVars
  <2>2. src_rect = 0 /\ dst_rect = 0 /\ plane.fb = NoFrame /\ ~Blind
    BY <2>1 DEF DrmInv, Narrowing, Blind
  <2>3. disp_buffer' \in Blank..MaxPackets /\ opening' \in OpenStates /\ opening' # "open"
    BY <2>1 DEF DrmInv, NoFrame, OpenStates
  <2> QED BY <2>1, <2>2, <2>3 DEF DrmInv, RectsAgree
<1>6. CASE OpenSource \/ OpenDestination
  <2>1. PICK ok \in BOOLEAN :
          /\ SetSource(mode.size, ok) \/ SetDestination(mode.size, ok)
          /\ opening' = IF ok THEN (IF opening = "source" THEN "destination" ELSE "open")
                        ELSE "failed"
          /\ disp_buffer' = IF ok THEN disp_buffer ELSE NoFrame
    BY <1>6 DEF OpenSource, OpenDestination
  <2>2. UNCHANGED <<ids, support_scale>> /\ opening \in {"source", "destination"}
    BY <1>6 DEF OpenSource, OpenDestination
  <2>3. Blind' = Blind
    BY <2>1, <2>2 DEF Blind
  <2>4. /\ RectsAgree' /\ plane'.fb = plane.fb
        /\ plane' = [fb |-> plane'.fb, src |-> plane'.src, dst |-> plane'.dst]
    BY <2>1, <2>2, <2>3, SetInv
  <2>5. plane.fb = NoFrame
    BY <2>2 DEF DrmInv
  <2>6. opening' \in OpenStates \ Narrowing /\ disp_buffer' \in Blank..MaxPackets
    BY <2>1, <2>2 DEF DrmInv, OpenStates, Narrowing, NoFrame
  <2> QED BY <2>2, <2>4, <2>5, <2>6 DEF DrmInv
<1> QED BY <1>1, <1>2, <1>3, <1>4, <1>5, <1>6 DEF OpenStep

\* IoCtrl moves the rectangles only.
LEMMA IoCtrlInv ==
  ASSUME DrmInv, IoCtrl
  PROVE  DrmInv'
<1>1. UNCHANGED <<opening, ids, support_scale, disp_buffer>> /\ opening \in {"open", "blind"}
  BY DEF IoCtrl, openVars
<1>2. PICK ok \in BOOLEAN, r \in Rects :
        SetSource(r, ok) \/ SetDestination(r, ok) \/ \E s \in Rects : SetBoth(r, s, ok)
  BY DEF IoCtrl
<1>3. Blind' = Blind
  BY <1>1 DEF Blind
<1>4. /\ RectsAgree' /\ plane'.fb = plane.fb
      /\ plane' = [fb |-> plane'.fb, src |-> plane'.src, dst |-> plane'.dst]
  BY <1>1, <1>2, <1>3, SetInv
<1> QED BY <1>1, <1>4 DEF DrmInv, Narrowing

\* Write changes what is shown and what is kept together.
LEMMA WriteInv ==
  ASSUME DrmInv, NEW frame \in 0..MaxPackets, NEW ok, Write(frame, ok)
  PROVE  DrmInv'
<1>1. UNCHANGED <<opening, ids, support_scale, src_rect, dst_rect>> /\ opening \in {"open", "blind"}
  BY DEF Write, openVars, rectVars
<1>2. CASE UNCHANGED <<plane, disp_buffer>>
  BY <1>1, <1>2 DEF DrmInv, RectsAgree, Blind
<1>3. CASE Shown(frame)
  <2>1. disp_buffer' = frame /\ frame \in Blank..MaxPackets
    BY <1>3 DEF Shown, Blank
  <2>2. CASE Blind
    BY <1>1, <1>3, <2>1, <2>2 DEF Shown, DrmInv, RectsAgree, Blind, NoFrame
  <2>3. CASE ~Blind
    <3>1. plane' = [fb |-> frame, src |-> plane.src, dst |-> plane.dst]
      BY <1>3, <2>3 DEF Shown, DrmInv
    <3>2. opening = "open"
      BY <1>1, <2>3 DEF Blind
    <3> QED BY <1>1, <2>1, <2>3, <3>1, <3>2 DEF DrmInv, RectsAgree, Blind
  <2> QED BY <2>2, <2>3
<1> QED BY <1>2, <1>3 DEF Write

-----------------------------------------------------------------------------
(* The pipe.                                                               *)

\* Initially nothing is open and nothing on its way.
LEMMA InitInv ==
  ASSUME Init
  PROVE  IInv
<1> USE DecodeDisplayAssumption, MppDecoderAssumption
<1>1. DrmInv
  <2>1. IsIds(ids)
    BY DEF Init, DrmInit, AllIds, IsIds, OkValues
  <2>2. Blank = -1 /\ NoFrame = 0
    BY DEF Blank, NoFrame
  <2>3. /\ opening = "device" /\ src_rect = 0 /\ dst_rect = 0 /\ disp_buffer = 0
        /\ plane = [fb |-> 0, src |-> 0, dst |-> 0]
    BY <2>2 DEF Init, DrmInit
  <2> QED BY <2>1, <2>2, <2>3 DEF DrmInv, RectsAgree, OpenStates
<1>2. PipeInv
  <2>1. /\ \A S : <<>> \in Seq(S)
        /\ Len(<<>>) = 0
    OBVIOUS
  <2>2. buffer \in Images
    BY DEF Init, Null, NoFrame, Images
  <2>3. /\ inq = <<>> /\ mpp_in = <<>> /\ mpp_out = <<>> /\ cached_buffers = <<>> /\ outq = <<>>
        /\ sent = 0 /\ packet = 0 /\ passed = 0 /\ ret = FALSE /\ pc = "none" /\ out_pc = "none"
    BY DEF Init, DecoderInit
  <2>4. 0 \in 0..MaxPackets /\ 0 <= InputCache /\ 0 <= MppInputs /\ 0 <= OutCache
    OBVIOUS
  <2>5. /\ inq \in Seq(0..MaxPackets) /\ Len(inq) <= InputCache
        /\ mpp_in \in Seq(0..MaxPackets) /\ Len(mpp_in) <= MppInputs
        /\ mpp_out \in Seq(Outputs) /\ cached_buffers \in Seq(Images)
        /\ outq \in Seq(Images) /\ Len(outq) <= OutCache
    BY <2>1, <2>3, <2>4
  <2>6. pc = "none" /\ ret = FALSE /\ passed \in Nat
    BY <2>3
  <2> QED BY <2>2, <2>3, <2>4, <2>5, <2>6 DEF PipeInv
<1> QED BY <1>1, <1>2 DEF IInv

\* Construction leaves the queues alone.
LEMMA ConstructionInv ==
  ASSUME IInv, Construction
  PROVE  IInv'
<1>1. CASE OpenStream
  BY <1>1, OpenStepInv DEF OpenStream, IInv, PipeInv, mppVars, portVars, pipeVars, inVars, decoderVars,
     outVars, writerVars
<1>2. CASE InstallOutput \/ InstallDecoder
  BY <1>2 DEF InstallOutput, InstallDecoder, IInv, DrmInv, PipeInv, RectsAgree, Blind,
     drmVars, openVars, rectVars,
     mppVars, portVars, inVars, decoderVars, outVars, writerVars
<1>3. CASE ConstructDecoder
  <2>1. UNCHANGED <<drmVars, pipeVars, portVars>>
    BY <1>3 DEF ConstructDecoder, CreateDecoder, ControlTimeout, LimitGroup, Build
  <2> QED BY <2>1 DEF IInv, DrmInv, PipeInv, RectsAgree, Blind, drmVars, openVars, rectVars,
     portVars, pipeVars, inVars, decoderVars, outVars, writerVars
<1> QED BY <1>1, <1>2, <1>3 DEF Construction

\* What the stream is left with when it is not involved.
LEMMA DrmUnchanged ==
  ASSUME DrmInv, UNCHANGED drmVars
  PROVE  DrmInv'
BY DEF DrmInv, RectsAgree, Blind, drmVars, openVars, rectVars

\* What comes of a packet.
LEMMA ResultTypes ==
  ASSUME NEW x \in 0..MaxPackets, NEW ok \in BOOLEAN, NEW os \in Results(x, ok)
  PROVE  os \in Seq(Outputs)
<1>1. 0 \in 0..MaxPackets
  BY DecodeDisplayAssumption
<1>2. Eos(0) \in Outputs /\ Eos(x) \in Outputs /\ Made(x, ok) \in Outputs
  BY <1>1 DEF Eos, Made, Outputs
<1>3. os \in {<<>>, <<Eos(0)>>, <<Eos(x)>>, <<Made(x, ok)>>, <<Made(x, ok), Eos(0)>>}
  <2>1. CASE x \in EmptyPackets
    BY <2>1 DEF Results
  <2>2. CASE x \in EosPackets \ EmptyPackets
    BY <2>2 DEF Results
  <2>3. CASE x \notin EmptyPackets /\ x \notin EosPackets
    BY <2>3 DEF Results
  <2> QED BY <2>1, <2>2, <2>3
<1>4. /\ <<>> \in Seq(Outputs) /\ <<Eos(0)>> \in Seq(Outputs) /\ <<Eos(x)>> \in Seq(Outputs)
      /\ <<Made(x, ok)>> \in Seq(Outputs) /\ <<Made(x, ok), Eos(0)>> \in Seq(Outputs)
  BY <1>2
<1> QED BY <1>3, <1>4

\* A packet arrives; the application moves a rectangle; MPP decodes.
LEMMA OutsideInv ==
  ASSUME IInv, SendPacket \/ Control \/ Mpp
  PROVE  IInv'
<1> USE DecodeDisplayAssumption, MppDecoderAssumption
<1>1. CASE SendPacket
  <2>1. /\ sent' = sent + 1 /\ sent < MaxPackets /\ Len(inq) < InputCache
        /\ inq' = Append(inq, IF sent + 1 \in NullPackets THEN 0 ELSE sent + 1)
        /\ UNCHANGED <<drmVars, portVars, decoderVars, outVars, writerVars>>
    BY <1>1 DEF SendPacket, mppVars
  <2> DEFINE p == IF sent + 1 \in NullPackets THEN 0 ELSE sent + 1
  <2>2. p \in 0..MaxPackets /\ sent' \in 0..MaxPackets
    BY <2>1 DEF IInv, PipeInv
  <2>3. inq' = Append(inq, p)
    BY <2>1
  <2> HIDE DEF p
  <2>4. inq' \in Seq(0..MaxPackets) /\ Len(inq') = Len(inq) + 1
    BY <2>2, <2>3 DEF IInv, PipeInv
  <2>5. Len(inq') <= InputCache
    BY <2>1, <2>4 DEF IInv, PipeInv
  <2> QED BY <2>1, <2>2, <2>4, <2>5, DrmUnchanged
          DEF IInv, PipeInv, portVars, decoderVars, outVars, writerVars
<1>2. CASE Control
  BY <1>2, IoCtrlInv DEF Control, IInv, PipeInv, mppVars, portVars, pipeVars, inVars,
     decoderVars, outVars, writerVars
<1>3. CASE Mpp
  <2>1. UNCHANGED <<drmVars, pipeVars>> /\ (Decode(Held) \/ ChangeInfo)
    BY <1>3 DEF Mpp
  <2>2. /\ mpp_in' \in Seq(0..MaxPackets) /\ Len(mpp_in') <= MppInputs
        /\ mpp_out' \in Seq(Outputs)
    <3>1. mpp_in \in Seq(0..MaxPackets) /\ Len(mpp_in) <= MppInputs /\ mpp_out \in Seq(Outputs)
      BY DEF IInv, PipeInv
    <3>2. CASE Decode(Held)
      <4>1. mpp_in # <<>> /\ mpp_in' = Tail(mpp_in)
        BY <3>2 DEF Decode
      <4>2. Head(mpp_in) \in 0..MaxPackets /\ mpp_in' \in Seq(0..MaxPackets)
            /\ Len(mpp_in') = Len(mpp_in) - 1
        BY <3>1, <4>1, HeadTailProperties
      <4>3. PICK ok \in BOOLEAN : \E os \in Results(Head(mpp_in), ok) : mpp_out' = mpp_out \o os
        BY <3>2 DEF Decode
      <4>4. mpp_out' \in Seq(Outputs)
        BY <3>1, <4>2, <4>3, ResultTypes, ConcatProperties
      <4>5. Len(mpp_in) \in Nat
        BY <3>1
      <4> QED BY <3>1, <4>2, <4>4, <4>5
    <3>3. CASE ChangeInfo
      <4>1. [kind |-> "info", n |-> 0] \in Outputs
        BY DEF Outputs
      <4>2. mpp_out' = Append(mpp_out, [kind |-> "info", n |-> 0]) /\ UNCHANGED mpp_in
        BY <3>3 DEF ChangeInfo
      <4> QED BY <3>1, <4>1, <4>2, AppendProperties
    <3> QED BY <2>1, <3>2, <3>3
  <2> QED BY <2>1, <2>2, DrmUnchanged
          DEF IInv, PipeInv, pipeVars, inVars, decoderVars, outVars, writerVars
<1> QED BY <1>1, <1>2, <1>3

\* A buffer accepted by the flow below keeps its queue within the limit.
LEMMA AcceptedInv ==
  ASSUME PipeInv, NEW item \in Images, Accepted(item)
  PROVE  outq' \in Seq(Images) /\ Len(outq') <= OutCache
<1> USE DecodeDisplayAssumption
<1>1. outq \in Seq(Images) /\ Len(outq) \in Nat /\ Len(outq) <= OutCache
  BY DEF PipeInv
<1>2. \/ outq' = <<item>> \/ outq' = outq
      \/ Len(outq) < OutCache /\ outq' = Append(outq, item)
  BY DEF Accepted
<1>3. CASE outq' = <<item>>
  BY <1>3
<1>4. CASE Len(outq) < OutCache /\ outq' = Append(outq, item)
  BY <1>1, <1>4, AppendProperties
<1> QED BY <1>1, <1>2, <1>3, <1>4

\* The decoder's coroutine.
LEMMA DecoderStepInv ==
  ASSUME IInv, Decoder
  PROVE  IInv'
<1> USE DecodeDisplayAssumption, MppDecoderAssumption
<1>1. UNCHANGED drmVars
  BY DEF Decoder, Fetch, Send, Output, ProcessSync, SendNullDown, SendDown
<1>2. DrmInv'
  BY <1>1, DrmUnchanged DEF IInv
<1>3. PipeInv
  BY DEF IInv
<1>4. CASE Fetch
  <2>1. /\ inq # <<>> /\ packet' = Head(inq) /\ inq' = Tail(inq) /\ ret' = FALSE
        /\ pc = "fetch" /\ pc' \in {"down", "process", "send"}
        /\ UNCHANGED <<portVars, sent, cached_buffers, passed, outVars, writerVars>>
    BY <1>4 DEF Fetch, mppVars
  <2>2. /\ Head(inq) \in 0..MaxPackets /\ Tail(inq) \in Seq(0..MaxPackets)
        /\ Len(Tail(inq)) = Len(inq) - 1 /\ Len(inq) \in Nat
    BY <1>3, <2>1, HeadTailProperties DEF PipeInv
  <2>3. Len(inq') <= InputCache
    BY <1>3, <2>1, <2>2 DEF PipeInv
  <2>4. cached_buffers = <<>> /\ passed = 0
    BY <1>3, <2>1 DEF PipeInv
  <2> QED BY <1>2, <1>3, <2>1, <2>2, <2>3, <2>4
          DEF IInv, PipeInv, portVars, outVars, writerVars
<1>5. CASE Send
  <2>1. /\ pc = "send" /\ pc' \in {"output", "send", "down"}
        /\ UNCHANGED <<mpp_out, inVars, packet, ret, cached_buffers, passed, outVars, writerVars>>
        /\ \/ Len(mpp_in) < MppInputs /\ mpp_in' = Append(mpp_in, packet)
           \/ UNCHANGED mpp_in
    <3>1. PICK result \in {"ok", EAGAIN, "failed"} :
            /\ SendInput(packet, result)
            /\ pc' = CASE result = "ok"     -> "output"
                       [] result = EAGAIN   -> "send"
                       [] result = "failed" -> "down"
      BY <1>5 DEF Send
    <3>2. pc' \in {"output", "send", "down"}
      BY <3>1 DEF EAGAIN
    <3> QED BY <1>5, <3>1, <3>2 DEF Send, SendInput
  <2>2. mpp_in' \in Seq(0..MaxPackets) /\ Len(mpp_in') <= MppInputs
    <3>1. mpp_in \in Seq(0..MaxPackets) /\ packet \in 0..MaxPackets /\ Len(mpp_in) \in Nat
      BY <1>3 DEF PipeInv
    <3>2. CASE Len(mpp_in) < MppInputs /\ mpp_in' = Append(mpp_in, packet)
      BY <3>1, <3>2, AppendProperties
    <3> QED BY <1>3, <2>1, <3>2 DEF PipeInv
  <2>3. ~ret /\ cached_buffers = <<>> /\ passed = 0
    BY <1>3, <2>1 DEF PipeInv
  <2> QED BY <1>2, <1>3, <2>1, <2>2, <2>3 DEF IInv, PipeInv, inVars, outVars, writerVars
<1>6. CASE Output
  <2>1. PICK output \in ToSet(mpp_out) \cup {NoOutput} :
          /\ FetchOutput(output)
          /\ IF IsImage(output)
               THEN /\ cached_buffers' = Append(cached_buffers, Image(output))
                    /\ ret' = TRUE /\ UNCHANGED pc
               ELSE pc' = "down" /\ UNCHANGED <<cached_buffers, ret>>
    BY <1>6 DEF Output
  <2>2. pc = "output" /\ UNCHANGED <<inVars, packet, passed, outVars, writerVars, mpp_in>>
    BY <1>6, <2>1 DEF Output, FetchOutput
  <2>3. mpp_out \in Seq(Outputs) /\ cached_buffers \in Seq(Images) /\ passed = 0
    BY <1>3, <2>2 DEF PipeInv
  <2>4. mpp_out' \in Seq(Outputs) /\ (IsImage(output) => output \in Outputs)
    <3>1. \/ output = NoOutput /\ UNCHANGED mpp_out
          \/ mpp_out # <<>> /\ output = Head(mpp_out) /\ mpp_out' = Tail(mpp_out)
      BY <2>1 DEF FetchOutput, GetFrame
    <3>2. CASE mpp_out # <<>> /\ output = Head(mpp_out) /\ mpp_out' = Tail(mpp_out)
      BY <2>3, <3>2, HeadTailProperties
    <3>3. CASE output = NoOutput /\ UNCHANGED mpp_out
      BY <2>3, <3>3 DEF NoOutput, IsImage
    <3> QED BY <3>1, <3>2, <3>3
  <2>5. CASE IsImage(output)
    <3>1. Image(output) \in Images
      BY <2>4, <2>5 DEF Image, Images, FrameOf, Outputs
    <3>2. cached_buffers' = Append(cached_buffers, Image(output)) /\ ret' = TRUE /\ pc' = pc
      BY <2>1, <2>5
    <3>3. cached_buffers' \in Seq(Images) /\ cached_buffers' # <<>>
      BY <2>3, <3>1, <3>2, AppendProperties
    <3> QED BY <1>2, <1>3, <2>2, <2>3, <2>4, <3>2, <3>3
            DEF IInv, PipeInv, inVars, outVars, writerVars
  <2>6. CASE ~IsImage(output)
    <3>1. pc' = "down" /\ UNCHANGED <<cached_buffers, ret>>
      BY <2>1, <2>6
    <3>2. ret => 0 < Len(cached_buffers)
      BY <1>3, <2>2, <2>3 DEF PipeInv
    <3> QED BY <1>2, <1>3, <2>2, <2>3, <2>4, <3>1, <3>2
            DEF IInv, PipeInv, inVars, outVars, writerVars
  <2> QED BY <2>5, <2>6
<1>7. CASE ProcessSync
  <2>1. PICK result \in {"ok", "failed"} :
          /\ Process(packet, result)
          /\ ret' = (result = "ok")
          /\ cached_buffers' = IF result = "ok"
                               THEN Append(cached_buffers, Filled)
                               ELSE cached_buffers
    BY <1>7 DEF ProcessSync
  <2>2. /\ pc = "process" /\ pc' = "down"
        /\ UNCHANGED <<inVars, packet, passed, outVars, writerVars, mpp_in, mpp_out>>
    BY <1>7, <2>1 DEF ProcessSync, Process
  <2>3. cached_buffers = <<>> /\ passed = 0 /\ packet \in 0..MaxPackets
    BY <1>3, <2>2 DEF PipeInv
  <2>4. Filled \in Images
    BY <2>3, DecodeDisplayAssumption DEF Filled, NoFrame, Images
  <2>5. CASE result = "ok"
    <3> DEFINE item == Filled
    <3>1. cached_buffers' = Append(cached_buffers, item) /\ ret' = (result = "ok")
      BY <2>1, <2>5
    <3> HIDE DEF item
    <3>2. ret' = TRUE
      BY <2>5, <3>1
    <3>3. item \in Images /\ cached_buffers \in Seq(Images) /\ Len(cached_buffers) = 0
      BY <2>3, <2>4 DEF item
    <3>4. cached_buffers' \in Seq(Images) /\ Len(cached_buffers') = 1
      BY <3>1, <3>3, AppendProperties
    <3>5. cached_buffers' # <<>>
      BY <3>4
    <3> QED BY <1>2, <1>3, <2>2, <2>3, <3>2, <3>4, <3>5
            DEF IInv, PipeInv, inVars, outVars, writerVars
  <2>6. CASE result = "failed"
    <3>1. cached_buffers' = cached_buffers /\ ret' = FALSE
      BY <2>1, <2>6
    <3> QED BY <1>2, <1>3, <2>2, <2>3, <3>1 DEF IInv, PipeInv, inVars, outVars, writerVars
  <2> QED BY <2>5, <2>6
<1>8. CASE SendNullDown
  <2>1. /\ pc = "down" /\ ~ret /\ pc' = "fetch" /\ Accepted(Null)
        /\ UNCHANGED <<portVars, inVars, packet, ret, cached_buffers, passed, out_mode, writerVars>>
    BY <1>8 DEF SendNullDown, mppVars
  <2>2. Null \in Images
    BY DEF Null, NoFrame, Images
  <2>3. outq' \in Seq(Images) /\ Len(outq') <= OutCache
    BY <1>3, <2>1, <2>2, AcceptedInv
  <2>4. cached_buffers = <<>> /\ passed = 0
    BY <1>3, <2>1 DEF PipeInv
  <2> QED BY <1>2, <1>3, <2>1, <2>3, <2>4 DEF IInv, PipeInv, portVars, inVars, writerVars
<1>9. CASE SendDown
  <2>1. /\ pc = "down" /\ ret /\ Accepted(cached_buffers[passed + 1])
        /\ UNCHANGED <<portVars, inVars, packet, ret, out_mode, writerVars>>
        /\ IF passed + 1 < Len(cached_buffers)
             THEN passed' = passed + 1 /\ UNCHANGED <<cached_buffers, pc>>
             ELSE passed' = 0 /\ cached_buffers' = <<>> /\ pc' = "fetch"
    BY <1>9 DEF SendDown, mppVars
  <2>2. passed \in Nat /\ passed < Len(cached_buffers) /\ cached_buffers \in Seq(Images)
    BY <1>3, <2>1 DEF PipeInv
  <2>3. cached_buffers[passed + 1] \in Images
    BY <2>2
  <2>4. outq' \in Seq(Images) /\ Len(outq') <= OutCache
    BY <1>3, <2>1, <2>3, AcceptedInv
  <2>5. CASE passed + 1 < Len(cached_buffers)
    BY <1>2, <1>3, <2>1, <2>2, <2>4, <2>5 DEF IInv, PipeInv, portVars, inVars, writerVars
  <2>6. CASE ~(passed + 1 < Len(cached_buffers))
    <3>1. <<>> \in Seq(Images)
      OBVIOUS
    <3> QED BY <1>2, <1>3, <2>1, <2>4, <2>6, <3>1 DEF IInv, PipeInv, portVars, inVars, writerVars
  <2> QED BY <2>5, <2>6
<1> QED BY <1>4, <1>5, <1>6, <1>7, <1>8, <1>9 DEF Decoder

\* The output flow's coroutine.
LEMMA WriterStepInv ==
  ASSUME IInv, Writer
  PROVE  IInv'
<1> USE DecodeDisplayAssumption
<1>1. PipeInv /\ DrmInv
  BY DEF IInv
<1>2. CASE FetchBuffer
  <2>1. /\ outq # <<>> /\ buffer' = Head(outq) /\ out_pc' = "write"
        /\ outq' = outq \/ outq' = Tail(outq)
        /\ UNCHANGED <<drmVars, portVars, inVars, decoderVars>>
    BY <1>2 DEF FetchBuffer, mppVars
  <2>2. /\ Head(outq) \in Images /\ Tail(outq) \in Seq(Images)
        /\ Len(Tail(outq)) = Len(outq) - 1 /\ Len(outq) \in Nat
    BY <1>1, <2>1, HeadTailProperties DEF PipeInv
  <2>3. outq' \in Seq(Images) /\ Len(outq') <= OutCache
    <3>1. outq \in Seq(Images) /\ Len(outq) <= OutCache /\ OutCache \in Nat
      BY <1>1 DEF PipeInv
    <3>2. CASE outq' = outq
      BY <3>1, <3>2
    <3>3. CASE outq' = Tail(outq)
      <4>1. Len(outq') = Len(outq) - 1
        BY <2>2, <3>3
      <4>2. Len(outq') <= OutCache
        BY <2>2, <3>1, <4>1
      <4> QED BY <2>2, <3>3, <4>2
    <3> QED BY <2>1, <3>2, <3>3
  <2> QED BY <1>1, <2>1, <2>2, <2>3, DrmUnchanged DEF IInv, PipeInv, portVars, inVars, decoderVars
<1>3. CASE SendBuffer
  <2>1. /\ \/ \E ok \in BOOLEAN : Write(buffer.frame, ok)
           \/ UNCHANGED drmVars
        /\ buffer' = Null /\ out_pc' = "fetch"
        /\ UNCHANGED <<portVars, inVars, decoderVars, outVars>>
    BY <1>3 DEF SendBuffer, mppVars
  <2>2. buffer.frame \in 0..MaxPackets /\ Null \in Images
    BY <1>1 DEF PipeInv, Images, Null, NoFrame
  <2>3. DrmInv'
    BY <1>1, <2>1, <2>2, WriteInv, DrmUnchanged
  <2> QED BY <1>1, <2>1, <2>2, <2>3 DEF IInv, PipeInv, portVars, inVars, decoderVars, outVars
<1> QED BY <1>2, <1>3 DEF Writer

-----------------------------------------------------------------------------
(* The theorems.                                                           *)

\* The invariant holds in every reachable state.
THEOREM Invariance == Spec => []IInv
<1>1. Init => IInv
  BY InitInv
<1>2. IInv /\ [Next]_vars => IInv'
  <2> SUFFICES ASSUME IInv, [Next]_vars
               PROVE  IInv'
    OBVIOUS
  <2>1. CASE Next
    BY <2>1, ConstructionInv, OutsideInv, DecoderStepInv, WriterStepInv DEF Next
  <2>2. CASE UNCHANGED vars
    BY <2>2, DrmUnchanged DEF IInv, PipeInv, vars, mppVars, portVars, pipeVars, inVars,
       decoderVars, outVars, writerVars
  <2> QED BY <2>1, <2>2
<1> QED BY <1>1, <1>2, PTL DEF Spec

\* Every queue is bounded, Open is in one of its states with a result the
\* narrowing can have, and do_decode has something to send when it says so.
THEOREM TypeCorrect == Spec => []TypeOK
<1>1. IInv => TypeOK
  BY DecodeDisplayAssumption
     DEF IInv, DrmInv, PipeInv, IsIds, TypeOK, Blank
<1> QED BY <1>1, Invariance, PTL

\* The rectangles of the stream and of the driver agree, and those of a plane
\* that does not scale are alike, after any sequence of calls and failures.
THEOREM RectanglesAgree == Spec => []RectsAgree
<1>1. IInv => RectsAgree
  BY DEF IInv, DrmInv
<1> QED BY <1>1, Invariance, PTL

\* The frame on the screen is held, for any board, any mode of the input and
\* whichever of the commits fail.
THEOREM ShownIsHeld == Spec => []ScannedOutIsHeld
<1>1. IInv => ScannedOutIsHeld
  BY DEF IInv, DrmInv, ScannedOutIsHeld, Held, NoFrame, Blank
<1> QED BY <1>1, Invariance, PTL

-----------------------------------------------------------------------------
(* The order of the frames: a second invariant, which needs the first.     *)

\* The numbers in a queue but 0, which is no packet or frame, and that they are
\* in order; sets of which one lies below the other.
Numbers(q)    == {q[i] : i \in 1..Len(q)} \ {0}
Ascending(q)  == \A i, j \in 1..Len(q) : i < j /\ q[i] # 0 /\ q[j] # 0 => q[i] < q[j]
Below(A, B)   == \A a \in A, b \in B : a < b
UpTo(A, B)    == \A a \in A, b \in B : a <= b

\* Where a frame can be, from the last place to the first: written, in the hand
\* of the writer, in its queue, in the decoder flow's output, ready in MPP.
Rest      == SubSeq(cached_buffers, passed + 1, Len(cached_buffers))
FromMpp   == [i \in DOMAIN mpp_out |-> Image(mpp_out[i])]
Written   == Numbers(written)
InHand    == Frames(<<buffer>>)
InOutput  == Frames(outq)
InList    == Frames(Rest)
InMpp     == Frames(FromMpp)

\* Where a packet can be: decoded, in MPP, in the hand of do_decode, in its queue.
Decoded   == Numbers(good)
Inside    == Numbers(mpp_in)
Task      == IF pc \in {"send", "process"} THEN {packet} ELSE {}
InInput   == Numbers(inq)

\* The packets pass these places in order, and none is at two of them.
PacketChain(g, i, p, n, k) ==
  /\ g \cup i \cup p \cup n \subseteq 1..k
  /\ Below(g, i \cup p \cup n) /\ Below(i, p \cup n) /\ Below(p, n)

\* So do the frames, but for a frame that an ATOMIC input keeps; above a
\* blocking one none is lost that does not carry the end of file.
FrameChain(w, b, q, c, m, g, input) ==
  /\ w \cup b \cup q \cup c \cup m \subseteq g
  /\ UpTo(w, b) /\ UpTo(w \cup b, q) /\ Below(w \cup b \cup q, c) /\ Below(w \cup b \cup q \cup c, m)
  /\ input # "ATOMIC" => Below(w, b) /\ Below(w \cup b, q)
  /\ input = "BLOCKING" => g \ Flagged \subseteq w \cup b \cup q \cup c \cup m

\* The decoder is used in one of two ways.
Places ==
  /\ jpeg => mpp_in = <<>> /\ mpp_out = <<>> /\ pc \notin {"send", "output"}
  /\ ~jpeg => pc # "process"
  /\ pc \in {"send", "process"} => packet # 0
  /\ \A i \in 1..Len(mpp_in) : mpp_in[i] # 0
  /\ out_pc # "write" => buffer = Null
  /\ good \in Seq(Nat) /\ written \in Seq(Nat)
  /\ \A i \in 1..Len(good) : good[i] # 0

Orders ==
  /\ Ascending(good) /\ Ascending(mpp_in) /\ Ascending(inq)
  /\ Ascending(written) /\ 0 \notin {written[i] : i \in 1..Len(written)}
  /\ InOrder(outq) /\ InOrder(Rest) /\ InOrder(FromMpp)

OrderInv ==
  /\ Places /\ Orders
  /\ PacketChain(Decoded, Inside, Task, InInput, sent)
  /\ FrameChain(Written, InHand, InOutput, InList, InMpp, Decoded, out_mode)

\* A number at the end of a queue.
LEMMA NumbersAppend ==
  ASSUME NEW q \in Seq(Nat), NEW x \in Nat
  PROVE  /\ Numbers(Append(q, x)) = Numbers(q) \cup ({x} \ {0})
         /\ Ascending(q) /\ Below(Numbers(q), {x} \ {0}) => Ascending(Append(q, x))
<1> DEFINE u == Append(q, x)
<1>1. /\ Len(q) \in Nat /\ Len(u) = Len(q) + 1 /\ u[Len(q) + 1] = x
      /\ \A i \in 1..Len(q) : u[i] = q[i]
      /\ \A i \in 1..Len(u) : i \in 1..Len(q) \/ i = Len(q) + 1
      /\ Len(q) + 1 \in 1..Len(u) /\ 1..Len(q) \subseteq 1..Len(u)
  OBVIOUS
<1> HIDE DEF u
<1>2. Numbers(u) = Numbers(q) \cup ({x} \ {0})
  BY <1>1 DEF Numbers
<1>3. ASSUME Ascending(q), Below(Numbers(q), {x} \ {0}),
             NEW i \in 1..Len(u), NEW j \in 1..Len(u), i < j, u[i] # 0, u[j] # 0
      PROVE  u[i] < u[j]
  <2>1. i \in 1..Len(q)
    BY <1>1, <1>3
  <2>2. CASE j \in 1..Len(q)
    BY <1>1, <1>3, <2>1, <2>2 DEF Ascending
  <2>3. CASE j = Len(q) + 1
    <3>1. u[i] \in Numbers(q)
      BY <1>1, <1>3, <2>1 DEF Numbers
    <3> QED BY <1>1, <1>3, <2>3, <3>1 DEF Below
  <2> QED BY <1>1, <2>2, <2>3
<1> QED BY <1>2, <1>3 DEF u, Ascending

\* The first number of a queue, and the rest.
LEMMA NumbersTail ==
  ASSUME NEW q \in Seq(Nat), q # <<>>
  PROVE  /\ Head(q) \in Nat /\ Tail(q) \in Seq(Nat) /\ Head(q) = q[1] /\ 1 \in 1..Len(q)
         /\ Numbers(q) = ({Head(q)} \ {0}) \cup Numbers(Tail(q))
         /\ Ascending(q) => Below({Head(q)} \ {0}, Numbers(Tail(q))) /\ Ascending(Tail(q))
         /\ \A i \in 1..Len(Tail(q)) : i + 1 \in 1..Len(q) /\ Tail(q)[i] = q[i + 1]
<1> DEFINE u == Tail(q)
           h == Head(q)
<1>1. /\ Len(q) \in Nat \ {0} /\ Len(u) = Len(q) - 1 /\ u \in Seq(Nat) /\ h \in Nat
      /\ \A i \in 1..Len(u) : u[i] = q[i + 1]
  BY EmptySeq, HeadTailProperties
<1>2. h = q[1] /\ 1 \in 1..Len(q)
  BY <1>1
<1>3. /\ \A i \in 1..Len(u) : i + 1 \in 1..Len(q) /\ 1 < i + 1
      /\ \A i \in 1..Len(q) : i = 1 \/ (i - 1 \in 1..Len(u) /\ u[i - 1] = q[i])
  BY <1>1
<1> HIDE DEF u, h
<1>4. Numbers(q) = ({h} \ {0}) \cup Numbers(u)
  <2>1. Numbers(u) \subseteq Numbers(q)
    BY <1>1, <1>3 DEF Numbers
  <2>2. {h} \ {0} \subseteq Numbers(q)
    BY <1>2 DEF Numbers
  <2>3. Numbers(q) \subseteq ({h} \ {0}) \cup Numbers(u)
    BY <1>2, <1>3 DEF Numbers
  <2> QED BY <2>1, <2>2, <2>3
<1>5. ASSUME Ascending(q)
      PROVE  Below({h} \ {0}, Numbers(u)) /\ Ascending(u)
  <2>1. Below({h} \ {0}, Numbers(u))
    <3> SUFFICES ASSUME h # 0, NEW y \in Numbers(u)
                 PROVE  h < y
      BY DEF Below
    <3>1. PICK i \in 1..Len(u) : y = u[i] /\ y # 0
      BY DEF Numbers
    <3>2. i + 1 \in 1..Len(q) /\ 1 < i + 1 /\ q[i + 1] = y
      BY <1>1, <1>3, <3>1
    <3> QED BY <1>2, <1>5, <3>1, <3>2 DEF Ascending
  <2>2. ASSUME NEW i \in 1..Len(u), NEW j \in 1..Len(u), i < j, u[i] # 0, u[j] # 0
        PROVE  u[i] < u[j]
    <3>1. i + 1 \in 1..Len(q) /\ j + 1 \in 1..Len(q) /\ i + 1 < j + 1
      BY <1>3, <2>2
    <3> QED BY <1>1, <1>5, <2>2, <3>1 DEF Ascending
  <2> QED BY <2>1, <2>2 DEF Ascending
<1> QED BY <1>1, <1>2, <1>3, <1>4, <1>5 DEF u, h

\* The empty queue.
LEMMA NumbersEmpty == Numbers(<<>>) = {} /\ Ascending(<<>>)
<1>1. Len(<<>>) = 0
  BY EmptySeq
<1> QED BY <1>1 DEF Numbers, Ascending

\* The frame of a buffer, if it has one.
FrameIn(b) == {b.frame} \ {NoFrame}

\* The frames of two sequences are those of the one and those of the other.
LEMMA FramesConcat ==
  ASSUME NEW s \in Seq(Images), NEW t \in Seq(Images)
  PROVE  /\ Frames(s \o t) = Frames(s) \cup Frames(t)
         /\ InOrder(s) /\ InOrder(t) /\ Below(Frames(s), Frames(t)) => InOrder(s \o t)
<1> DEFINE u == s \o t
<1>1. /\ Len(s) \in Nat /\ Len(t) \in Nat /\ Len(u) = Len(s) + Len(t)
      /\ DOMAIN s = 1..Len(s) /\ DOMAIN t = 1..Len(t) /\ DOMAIN u = 1..Len(u)
      /\ \A i \in 1..Len(s) : u[i] = s[i]
      /\ \A i \in Len(s) + 1..Len(u) : i - Len(s) \in 1..Len(t) /\ u[i] = t[i - Len(s)]
      /\ \A i \in 1..Len(t) : i + Len(s) \in Len(s) + 1..Len(u) /\ u[i + Len(s)] = t[i]
      /\ \A i \in 1..Len(u) : i \in 1..Len(s) \/ i \in Len(s) + 1..Len(u)
      /\ 1..Len(s) \subseteq 1..Len(u) /\ Len(s) + 1..Len(u) \subseteq 1..Len(u)
  OBVIOUS
<1> HIDE DEF u
<1>2. Frames(u) \subseteq Frames(s) \cup Frames(t)
  <2> SUFFICES ASSUME NEW y \in Frames(u)
               PROVE  y \in Frames(s) \cup Frames(t)
    OBVIOUS
  <2>1. PICK i \in 1..Len(u) : y = u[i].frame /\ y # NoFrame
    BY <1>1 DEF Frames, InQueue
  <2>2. CASE i \in 1..Len(s)
    BY <1>1, <2>1, <2>2 DEF Frames, InQueue
  <2>3. CASE i \in Len(s) + 1..Len(u)
    BY <1>1, <2>1, <2>3 DEF Frames, InQueue
  <2> QED BY <1>1, <2>2, <2>3
<1>3. Frames(s) \subseteq Frames(u)
  BY <1>1 DEF Frames, InQueue
<1>4. Frames(t) \subseteq Frames(u)
  BY <1>1 DEF Frames, InQueue
<1>5. ASSUME InOrder(s), InOrder(t), Below(Frames(s), Frames(t)),
             NEW i \in 1..Len(u), NEW j \in 1..Len(u), i < j,
             u[i].frame # NoFrame, u[j].frame # NoFrame
      PROVE  u[i].frame < u[j].frame
  <2>1. CASE j \in 1..Len(s)
    <3>1. i \in 1..Len(s)
      BY <1>1, <1>5, <2>1
    <3> QED BY <1>1, <1>5, <2>1, <3>1 DEF InOrder
  <2>2. CASE i \in 1..Len(s) /\ j \in Len(s) + 1..Len(u)
    <3>1. u[i].frame \in Frames(s) /\ u[j].frame \in Frames(t)
      BY <1>1, <1>5, <2>2 DEF Frames, InQueue
    <3> QED BY <1>5, <3>1 DEF Below
  <2>3. CASE i \in Len(s) + 1..Len(u) /\ j \in Len(s) + 1..Len(u)
    <3> DEFINE k == i - Len(s)
               l == j - Len(s)
    <3>1. k \in 1..Len(t) /\ l \in 1..Len(t) /\ k < l /\ u[i] = t[k] /\ u[j] = t[l]
      BY <1>1, <1>5, <2>3
    <3> HIDE DEF k, l
    <3> QED BY <1>5, <3>1 DEF InOrder
  <2>4. i \in Len(s) + 1..Len(u) => j \notin 1..Len(s)
    BY <1>1, <1>5
  <2> QED BY <1>1, <2>1, <2>2, <2>3, <2>4
<1>6. InOrder(s) /\ InOrder(t) /\ Below(Frames(s), Frames(t)) => InOrder(u)
  BY <1>1, <1>5 DEF InOrder
<1> QED BY <1>2, <1>3, <1>4, <1>6 DEF u

\* A single buffer, and none.
LEMMA FramesOne ==
  ASSUME NEW b \in Images
  PROVE  /\ Frames(<<b>>) = FrameIn(b) /\ InOrder(<<b>>) /\ <<b>> \in Seq(Images)
         /\ Frames(<<>>) = {} /\ InOrder(<<>>) /\ <<>> \in Seq(Images)
         /\ Frames(<<Null>>) = {}
<1>1. /\ DOMAIN <<b>> = {1} /\ <<b>>[1] = b /\ DOMAIN <<>> = {}
      /\ DOMAIN <<Null>> = {1} /\ <<Null>>[1] = Null
  OBVIOUS
<1> QED BY <1>1 DEF Frames, InQueue, InOrder, FrameIn, Null

\* A buffer at the end of a queue.
LEMMA FramesAppend ==
  ASSUME NEW s \in Seq(Images), NEW b \in Images
  PROVE  /\ Frames(Append(s, b)) = Frames(s) \cup FrameIn(b)
         /\ InOrder(s) /\ Below(Frames(s), FrameIn(b)) => InOrder(Append(s, b))
<1>1. Append(s, b) = s \o <<b>>
  BY AppendIsConcat
<1> QED BY <1>1, FramesOne, FramesConcat

\* The first buffer of a queue, and the rest.
LEMMA FramesTail ==
  ASSUME NEW s \in Seq(Images), s # <<>>
  PROVE  /\ Head(s) \in Images /\ Tail(s) \in Seq(Images)
         /\ Frames(s) = FrameIn(Head(s)) \cup Frames(Tail(s))
         /\ InOrder(s) => Below(FrameIn(Head(s)), Frames(Tail(s))) /\ InOrder(Tail(s))
<1> DEFINE u == Tail(s)
           h == Head(s)
<1>1. /\ Len(s) \in Nat \ {0} /\ Len(u) = Len(s) - 1 /\ u \in Seq(Images) /\ h \in Images
      /\ \A i \in 1..Len(u) : u[i] = s[i + 1]
  BY EmptySeq, HeadTailProperties
<1>2. h = s[1] /\ 1 \in 1..Len(s) /\ DOMAIN s = 1..Len(s) /\ DOMAIN u = 1..Len(u)
  BY <1>1
<1>3. /\ \A i \in 1..Len(u) : i + 1 \in 1..Len(s) /\ 1 < i + 1
      /\ \A i \in 1..Len(s) : i = 1 \/ (i - 1 \in 1..Len(u) /\ u[i - 1] = s[i])
  BY <1>1
<1> HIDE DEF u, h
<1>4. Frames(s) = FrameIn(h) \cup Frames(u)
  <2>1. Frames(u) \subseteq Frames(s)
    BY <1>1, <1>2, <1>3 DEF Frames, InQueue
  <2>2. FrameIn(h) \subseteq Frames(s)
    BY <1>2 DEF Frames, InQueue, FrameIn
  <2>3. Frames(s) \subseteq FrameIn(h) \cup Frames(u)
    BY <1>2, <1>3 DEF Frames, InQueue, FrameIn
  <2> QED BY <2>1, <2>2, <2>3
<1>5. ASSUME InOrder(s)
      PROVE  Below(FrameIn(h), Frames(u)) /\ InOrder(u)
  <2>1. Below(FrameIn(h), Frames(u))
    <3> SUFFICES ASSUME h.frame # NoFrame, NEW y \in Frames(u)
                 PROVE  h.frame < y
      BY DEF Below, FrameIn
    <3>1. PICK i \in 1..Len(u) : y = u[i].frame /\ y # NoFrame
      BY <1>2 DEF Frames, InQueue
    <3>2. i + 1 \in 1..Len(s) /\ 1 < i + 1 /\ s[i + 1] = u[i]
      BY <1>1, <1>3
    <3> QED BY <1>2, <1>5, <3>1, <3>2 DEF InOrder
  <2>2. ASSUME NEW i \in 1..Len(u), NEW j \in 1..Len(u), i < j,
               u[i].frame # NoFrame, u[j].frame # NoFrame
        PROVE  u[i].frame < u[j].frame
    <3>1. i + 1 \in 1..Len(s) /\ j + 1 \in 1..Len(s) /\ i + 1 < j + 1
      BY <1>3, <2>2
    <3> QED BY <1>1, <1>2, <1>5, <2>2, <3>1 DEF InOrder
  <2> QED BY <1>2, <2>1, <2>2 DEF InOrder
<1> QED BY <1>1, <1>4, <1>5 DEF u, h

\* Packets: some are given up; one is sent; do_decode takes one; MPP takes it;
\* it is decoded there, or in one call.
LEMMA PacketMoves ==
  ASSUME NEW g, NEW i, NEW p, NEW n, NEW k \in Nat, PacketChain(g, i, p, n, k)
  PROVE  /\ \A i2, p2, n2 : i2 \subseteq i /\ p2 \subseteq p /\ n2 \subseteq n =>
              PacketChain(g, i2, p2, n2, k)
         /\ \A n2 : n2 \subseteq n \cup {k + 1} => PacketChain(g, i, p, n2, k + 1)
         /\ \A x, n2 : x \cup n2 \subseteq n /\ Below(x, n2) => PacketChain(g, i, x, n2, k)
         /\ \A i2 : i2 \subseteq i \cup p => PacketChain(g, i2, {}, n, k)
         /\ \A x, i2 : x \cup i2 \subseteq i /\ Below(x, i2) => PacketChain(g \cup x, i2, p, n, k)
         /\ i = {} => PacketChain(g \cup p, {}, {}, n, k)
<1>1. /\ \A x \in 1..k : x \in 1..k + 1 /\ x < k + 1
      /\ k + 1 \in 1..k + 1
  OBVIOUS
<1>2. \A n2 : n2 \subseteq n \cup {k + 1} => PacketChain(g, i, p, n2, k + 1)
  BY <1>1 DEF PacketChain, Below
<1>3. \A i2, p2, n2 : i2 \subseteq i /\ p2 \subseteq p /\ n2 \subseteq n =>
        PacketChain(g, i2, p2, n2, k)
  BY DEF PacketChain, Below
<1>4. \A x, n2 : x \cup n2 \subseteq n /\ Below(x, n2) => PacketChain(g, i, x, n2, k)
  BY DEF PacketChain, Below
<1>5. \A i2 : i2 \subseteq i \cup p => PacketChain(g, i2, {}, n, k)
  BY DEF PacketChain, Below
<1>6. \A x, i2 : x \cup i2 \subseteq i /\ Below(x, i2) => PacketChain(g \cup x, i2, p, n, k)
  BY DEF PacketChain, Below
<1>7. i = {} => PacketChain(g \cup p, {}, {}, n, k)
  BY DEF PacketChain, Below
<1> QED BY <1>2, <1>3, <1>4, <1>5, <1>6, <1>7

\* Frames: one is decoded in MPP, or in one call; do_decode takes it.
LEMMA FrameMovesIn ==
  ASSUME NEW w, NEW b, NEW q, NEW c, NEW m, NEW g, NEW input, FrameChain(w, b, q, c, m, g, input)
  PROVE  /\ \A x, y : y \subseteq x /\ x \ Flagged \subseteq y /\ Below(g, x) =>
              FrameChain(w, b, q, c, m \cup y, g \cup x, input)
         /\ \A x : m = {} /\ Below(g, x) => FrameChain(w, b, q, c \cup x, m, g \cup x, input)
         /\ \A x, m2 : m = x \cup m2 /\ Below(x, m2) => FrameChain(w, b, q, c \cup x, m2, g, input)
<1>1. \A x, y : y \subseteq x /\ x \ Flagged \subseteq y /\ Below(g, x) =>
        FrameChain(w, b, q, c, m \cup y, g \cup x, input)
  BY DEF FrameChain, Below
<1>2. \A x : m = {} /\ Below(g, x) => FrameChain(w, b, q, c \cup x, m, g \cup x, input)
  BY DEF FrameChain, Below
<1>3. \A x, m2 : m = x \cup m2 /\ Below(x, m2) => FrameChain(w, b, q, c \cup x, m2, g, input)
  BY DEF FrameChain, Below
<1> QED BY <1>1, <1>2, <1>3

\* One is sent to the output flow, which may keep it, drop it, or for ATOMIC
\* replace the one it has; it is fetched, and written.
LEMMA FrameMovesOut ==
  ASSUME NEW w, NEW b, NEW q, NEW c, NEW m, NEW g, NEW input, FrameChain(w, b, q, c, m, g, input),
         \A x \in g : x \in Nat
  PROVE  /\ \A x, q2, c2 : c = x \cup c2 /\ Below(x, c2) /\ q2 \subseteq q \cup x
                           /\ (input = "BLOCKING" => q2 = q \cup x) =>
              FrameChain(w, b, q2, c2, m, g, input)
         /\ \A x, q2 : b = {} /\ q = x \cup q2 /\ Below(x, q2) => FrameChain(w, x, q2, c, m, g, input)
         /\ \A x, q2 : b = {} /\ input = "ATOMIC" /\ q = x \cup q2 /\ Below(x, q2)
                       /\ (\A y, z \in x : y = z) =>
              FrameChain(w, x, q, c, m, g, input)
         /\ FrameChain(w \cup b, {}, q, c, m, g, input)
<1>1. \A x, q2, c2 : c = x \cup c2 /\ Below(x, c2) /\ q2 \subseteq q \cup x
                     /\ (input = "BLOCKING" => q2 = q \cup x) =>
        FrameChain(w, b, q2, c2, m, g, input)
  <2> SUFFICES ASSUME NEW x, NEW q2, NEW c2, c = x \cup c2, Below(x, c2), q2 \subseteq q \cup x,
                      input = "BLOCKING" => q2 = q \cup x
               PROVE  FrameChain(w, b, q2, c2, m, g, input)
    OBVIOUS
  <2>1. Below(w \cup b, q2) \/ input = "ATOMIC"
    BY DEF FrameChain, Below
  <2>2. UpTo(w \cup b, q2)
    <3>1. \A y \in w \cup b, z \in x : y < z /\ y \in Nat /\ z \in Nat
      BY DEF FrameChain, Below
    <3>2. \A y \in w \cup b, z \in x : y <= z
      BY <3>1
    <3> QED BY <3>2 DEF FrameChain, UpTo
  <2> QED BY <2>1, <2>2 DEF FrameChain, Below
<1>2. \A x, q2 : b = {} /\ q = x \cup q2 /\ Below(x, q2) => FrameChain(w, x, q2, c, m, g, input)
  <2> SUFFICES ASSUME NEW x, NEW q2, b = {}, q = x \cup q2, Below(x, q2)
               PROVE  FrameChain(w, x, q2, c, m, g, input)
    OBVIOUS
  <2>1. \A y \in x, z \in q2 : y < z /\ y \in Nat /\ z \in Nat
    BY DEF FrameChain, Below
  <2>2. \A y \in x, z \in q2 : y <= z
    BY <2>1
  <2> QED BY <2>1, <2>2 DEF FrameChain, Below, UpTo
<1>3. \A x, q2 : b = {} /\ input = "ATOMIC" /\ q = x \cup q2 /\ Below(x, q2)
                 /\ (\A y, z \in x : y = z) =>
        FrameChain(w, x, q, c, m, g, input)
  <2> SUFFICES ASSUME NEW x, NEW q2, b = {}, input = "ATOMIC", q = x \cup q2, Below(x, q2),
                      \A y, z \in x : y = z
               PROVE  FrameChain(w, x, q, c, m, g, input)
    OBVIOUS
  <2>1. \A y \in x, z \in q2 : y < z /\ y \in Nat /\ z \in Nat
    BY DEF FrameChain, Below
  <2>2. \A y \in x, z \in q2 : y <= z
    BY <2>1
  <2>3. \A y \in x : y \in Nat
    BY DEF FrameChain
  <2>4. \A y \in x, z \in x : y <= z
    BY <2>3
  <2> QED BY <2>1, <2>2, <2>4 DEF FrameChain, Below, UpTo
<1>4. FrameChain(w \cup b, {}, q, c, m, g, input)
  BY DEF FrameChain, Below, UpTo
<1> QED BY <1>1, <1>2, <1>3, <1>4

\* The types that the steps need.
LEMMA OrderTypes ==
  ASSUME IInv
  PROVE  /\ mpp_in \in Seq(Nat) /\ inq \in Seq(Nat) /\ packet \in Nat /\ sent \in Nat
         /\ outq \in Seq(Images) /\ cached_buffers \in Seq(Images) /\ buffer \in Images
         /\ Null \in Images /\ mpp_out \in Seq(Outputs)
         /\ FromMpp \in Seq(Images) /\ Rest \in Seq(Images)
         /\ passed = 0 => Rest = cached_buffers
<1>1. mpp_in \in Seq(Nat) /\ inq \in Seq(Nat)
  <2>1. 0..MaxPackets \subseteq Nat
    BY DecodeDisplayAssumption
  <2>2. mpp_in \in Seq(0..MaxPackets) /\ inq \in Seq(0..MaxPackets)
    BY DEF IInv, PipeInv
  <2> QED BY <2>1, <2>2, SeqMonotonic
<1>2. Null \in Images
  BY DecodeDisplayAssumption DEF Null, NoFrame, Images
<1>3. FromMpp \in Seq(Images)
  <2>1. mpp_out \in Seq(Outputs)
    BY DEF IInv, PipeInv
  <2>2. \A i \in 1..Len(mpp_out) : Image(mpp_out[i]) \in Images
    <3>1. \A o \in Outputs : Image(o) \in Images
      BY DecodeDisplayAssumption DEF Outputs, Image, Images, FrameOf
    <3> QED BY <2>1, <3>1
  <2>3. DOMAIN mpp_out = 1..Len(mpp_out) /\ Len(mpp_out) \in Nat
    BY <2>1
  <2> QED BY <2>2, <2>3 DEF FromMpp
<1>4. Rest \in Seq(Images)
  <2>1. cached_buffers \in Seq(Images) /\ passed + 1 \in Int /\ Len(cached_buffers) \in Int
        /\ \A i \in passed + 1..Len(cached_buffers) : cached_buffers[i] \in Images
    BY DEF IInv, PipeInv
  <2> QED BY <2>1, SubSeqProperties DEF Rest
<1>5. passed = 0 => Rest = cached_buffers
  BY SubSeqFull DEF Rest, IInv, PipeInv
<1> QED BY <1>1, <1>2, <1>3, <1>4, <1>5, DecodeDisplayAssumption DEF IInv, PipeInv

\* The images of what MPP has to give.
Pictures(os) == [i \in DOMAIN os |-> Image(os[i])]

\* They have the type of images.
LEMMA PicturesType ==
  ASSUME NEW os \in Seq(Outputs)
  PROVE  Pictures(os) \in Seq(Images) /\ Len(Pictures(os)) = Len(os)
<1>1. \A o \in Outputs : Image(o) \in Images
  BY DecodeDisplayAssumption DEF Outputs, Image, Images, FrameOf, NoFrame
<1>2. DOMAIN os = 1..Len(os) /\ Len(os) \in Nat /\ \A i \in 1..Len(os) : os[i] \in Outputs
  OBVIOUS
<1> QED BY <1>1, <1>2 DEF Pictures

\* A concatenation, element by element.
LEMMA ConcatElements ==
  ASSUME NEW S, NEW s1 \in Seq(S), NEW s2 \in Seq(S)
  PROVE  /\ s1 \o s2 = [i \in 1..Len(s1) + Len(s2) |-> (s1 \o s2)[i]]
         /\ \A i \in 1..Len(s1) + Len(s2) :
              (s1 \o s2)[i] = IF i <= Len(s1) THEN s1[i] ELSE s2[i - Len(s1)]
<1>1. s1 \o s2 \in Seq(S) /\ Len(s1 \o s2) = Len(s1) + Len(s2)
  BY ConcatProperties, Zenon
<1>2. \A q \in Seq(S) : q = [i \in 1..Len(q) |-> q[i]]
  OBVIOUS
<1>3. s1 \o s2 = [i \in 1..Len(s1 \o s2) |-> (s1 \o s2)[i]]
  BY <1>1, <1>2, Zenon
<1>4. \A i \in 1..Len(s1) + Len(s2) :
        (s1 \o s2)[i] = IF i <= Len(s1) THEN s1[i] ELSE s2[i - Len(s1)]
  BY ConcatProperties, Zenon
<1>5. s1 \o s2 = [i \in 1..Len(s1) + Len(s2) |-> (s1 \o s2)[i]]
  BY <1>1, <1>3, Zenon
<1> QED BY <1>4, <1>5, Zenon

\* What MPP has ready when it has made more of it.
LEMMA FromMppConcat ==
  ASSUME IInv, NEW os \in Seq(Outputs), mpp_out' = mpp_out \o os
  PROVE  FromMpp' = FromMpp \o Pictures(os)
<1>1. /\ DOMAIN mpp_out = 1..Len(mpp_out) /\ Len(mpp_out) \in Nat /\ Len(os) \in Nat
      /\ DOMAIN mpp_out' = 1..Len(mpp_out) + Len(os) /\ DOMAIN os = 1..Len(os)
      /\ \A i \in 1..Len(mpp_out) + Len(os) :
           mpp_out'[i] = IF i <= Len(mpp_out) THEN mpp_out[i] ELSE os[i - Len(mpp_out)]
  BY OrderTypes
<1>2. /\ FromMpp \in Seq(Images) /\ Len(FromMpp) = Len(mpp_out)
      /\ \A i \in 1..Len(mpp_out) : FromMpp[i] = Image(mpp_out[i])
  BY <1>1, OrderTypes DEF FromMpp
<1>3. /\ Pictures(os) \in Seq(Images) /\ Len(Pictures(os)) = Len(os)
      /\ \A i \in 1..Len(os) : Pictures(os)[i] = Image(os[i])
  BY <1>1, PicturesType DEF Pictures
<1>4. FromMpp' = [i \in 1..Len(mpp_out) + Len(os) |-> Image(mpp_out'[i])]
  BY <1>1 DEF FromMpp, Image, FrameOf
<1> DEFINE t == FromMpp \o Pictures(os)
<1>5. /\ t = [i \in 1..Len(mpp_out) + Len(os) |-> t[i]]
      /\ \A i \in 1..Len(mpp_out) + Len(os) :
           t[i] = IF i <= Len(mpp_out) THEN FromMpp[i] ELSE Pictures(os)[i - Len(mpp_out)]
  <2>1. /\ t = [i \in 1..Len(FromMpp) + Len(Pictures(os)) |-> t[i]]
        /\ \A i \in 1..Len(FromMpp) + Len(Pictures(os)) :
             t[i] = IF i <= Len(FromMpp) THEN FromMpp[i] ELSE Pictures(os)[i - Len(FromMpp)]
    BY <1>2, <1>3, ConcatElements, Zenon
  <2> HIDE DEF t
  <2> QED BY <1>2, <1>3, <2>1, Zenon
<1> HIDE DEF t
<1>6. \A i \in 1..Len(mpp_out) + Len(os) : t[i] = Image(mpp_out'[i])
  <2> TAKE i \in 1..Len(mpp_out) + Len(os)
  <2>1. i <= Len(mpp_out) => i \in 1..Len(mpp_out)
    BY <1>1
  <2>2. ~(i <= Len(mpp_out)) => i - Len(mpp_out) \in 1..Len(os)
    BY <1>1
  <2> QED BY <1>1, <1>2, <1>3, <1>5, <2>1, <2>2
<1> QED BY <1>4, <1>5, <1>6 DEF t

\* The frames among what comes of a packet: its own, unless it has an error, is
\* empty or carries the end of file.
LEMMA ResultFrames ==
  ASSUME NEW x \in 0..MaxPackets, x # 0, NEW ok \in BOOLEAN, NEW os \in Results(x, ok)
  PROVE  /\ Frames(Pictures(os)) \subseteq {x} /\ InOrder(Pictures(os))
         /\ ~ok \/ x \in EmptyPackets => Frames(Pictures(os)) = {}
         /\ ok /\ x \notin EmptyPackets \cup EosPackets => Frames(Pictures(os)) = {x}
<1>1. 0 \in 0..MaxPackets
  BY DecodeDisplayAssumption
<1>2. /\ Image(Eos(0)) \in Images /\ FrameIn(Image(Eos(0))) = {}
      /\ Image(Eos(x)) \in Images /\ FrameIn(Image(Eos(x))) = {}
      /\ Image(Made(x, ok)) \in Images
      /\ FrameIn(Image(Made(x, ok))) = IF ok THEN {x} ELSE {}
  BY <1>1 DEF Image, FrameOf, Images, FrameIn, NoFrame, Eos, Made
<1>3. \A o : Pictures(<<o>>) = <<Image(o)>>
  BY DEF Pictures
<1>4. Pictures(<<>>) = <<>>
  BY DEF Pictures
<1>5. CASE os = <<>> /\ x \in EmptyPackets
  BY <1>2, <1>4, <1>5, FramesOne
<1>6. ASSUME NEW n \in {0, x}, os = <<Eos(n)>>, x \in EosPackets
      PROVE  Frames(Pictures(os)) = {} /\ InOrder(Pictures(os))
  BY <1>2, <1>3, <1>6, FramesOne
<1>7. CASE os = <<Made(x, ok)>> /\ x \notin EmptyPackets
  BY <1>2, <1>3, <1>7, FramesOne
<1>8. CASE os = <<Made(x, ok), Eos(0)>> /\ x \in EosPackets \ EmptyPackets
  <2>1. Pictures(os) = <<Image(Made(x, ok))>> \o <<Image(Eos(0))>>
    BY <1>8 DEF Pictures
  <2>2. /\ Frames(<<Image(Made(x, ok))>>) = (IF ok THEN {x} ELSE {})
        /\ Frames(<<Image(Eos(0))>>) = {} /\ InOrder(<<Image(Made(x, ok))>>)
        /\ InOrder(<<Image(Eos(0))>>)
        /\ <<Image(Made(x, ok))>> \in Seq(Images) /\ <<Image(Eos(0))>> \in Seq(Images)
    BY <1>2, FramesOne
  <2>3. Below(Frames(<<Image(Made(x, ok))>>), Frames(<<Image(Eos(0))>>))
    BY <2>2 DEF Below
  <2> QED BY <1>8, <2>1, <2>2, <2>3, FramesConcat
<1>9. \/ os = <<>> /\ x \in EmptyPackets
      \/ \E n \in {0, x} : os = <<Eos(n)>> /\ x \in EosPackets /\ (n = 0 => x \in EmptyPackets)
      \/ os = <<Made(x, ok)>> /\ x \notin EmptyPackets
      \/ os = <<Made(x, ok), Eos(0)>> /\ x \in EosPackets \ EmptyPackets
  BY DEF Results
<1> QED BY <1>5, <1>6, <1>7, <1>8, <1>9

\* The same for a fetch.
LEMMA FromMppTail ==
  ASSUME IInv, mpp_out # <<>>, mpp_out' = Tail(mpp_out)
  PROVE  FromMpp # <<>> /\ FromMpp' = Tail(FromMpp) /\ Head(FromMpp) = Image(Head(mpp_out))
<1>1. /\ DOMAIN mpp_out = 1..Len(mpp_out) /\ Len(mpp_out) \in Nat \ {0}
      /\ mpp_out' \in Seq(Outputs) /\ Len(mpp_out') = Len(mpp_out) - 1
      /\ \A i \in 1..Len(mpp_out') : mpp_out'[i] = mpp_out[i + 1]
      /\ Head(mpp_out) = mpp_out[1]
  BY OrderTypes, HeadTailProperties, EmptySeq
<1>2. /\ Len(FromMpp) = Len(mpp_out) /\ Len(FromMpp') = Len(mpp_out')
      /\ DOMAIN FromMpp' = 1..Len(mpp_out')
      /\ \A i \in 1..Len(mpp_out) : FromMpp[i] = Image(mpp_out[i])
      /\ \A i \in 1..Len(mpp_out') : FromMpp'[i] = Image(mpp_out'[i])
  BY <1>1 DEF FromMpp
<1>3. FromMpp # <<>> /\ FromMpp \in Seq(Images) /\ Len(FromMpp) \in Nat \ {0}
  BY <1>1, <1>2, EmptySeq, OrderTypes
<1> DEFINE t == Tail(FromMpp)
<1>4. /\ t \in Seq(Images) /\ Len(t) = Len(FromMpp) - 1 /\ \A i \in 1..Len(t) : t[i] = FromMpp[i + 1]
  BY <1>3, HeadTailProperties
<1>5. Head(FromMpp) = FromMpp[1]
  BY <1>3
<1> HIDE DEF t
<1>6. \A i \in 1..Len(t) : i + 1 \in 1..Len(mpp_out) /\ i \in 1..Len(mpp_out')
  BY <1>1, <1>2, <1>4
<1>7. \A i \in 1..Len(t) : FromMpp'[i] = t[i]
  BY <1>1, <1>2, <1>4, <1>6
<1>8. FromMpp' \in Seq(Images)
  <2>1. \A o \in Outputs : Image(o) \in Images
    BY DecodeDisplayAssumption DEF Outputs, Image, Images, FrameOf
  <2>2. /\ DOMAIN mpp_out' = 1..Len(mpp_out') /\ Len(mpp_out') \in Nat
        /\ \A i \in 1..Len(mpp_out') : Image(mpp_out'[i]) \in Images
    BY <1>1, <2>1
  <2> QED BY <2>2 DEF FromMpp
<1>9. FromMpp' = t
  BY <1>1, <1>2, <1>4, <1>7, <1>8, SeqEqual
<1> QED BY <1>1, <1>2, <1>3, <1>5, <1>9 DEF t

\* What is still to be sent down, when one is sent.
LEMMA RestTail ==
  ASSUME IInv, passed < Len(cached_buffers)
  PROVE  /\ Rest # <<>> /\ Head(Rest) = cached_buffers[passed + 1]
         /\ Tail(Rest) = SubSeq(cached_buffers, passed + 2, Len(cached_buffers))
         /\ passed + 1 = Len(cached_buffers) => Tail(Rest) = <<>>
<1>1. /\ cached_buffers \in Seq(Images) /\ passed \in Nat /\ Len(cached_buffers) \in Nat
      /\ passed + 1 \in 1..Len(cached_buffers)
      /\ Len(cached_buffers) \in passed + 1..Len(cached_buffers)
      /\ passed + 1 + 1 = passed + 2
      /\ \A i \in passed + 1..Len(cached_buffers) : cached_buffers[i] \in Images
  BY DEF IInv, PipeInv
<1>2. Head(Rest) = cached_buffers[passed + 1]
      /\ Tail(Rest) = SubSeq(cached_buffers, passed + 2, Len(cached_buffers))
  BY <1>1, HeadTailOfSubSeq DEF Rest
<1>3. Len(Rest) = Len(cached_buffers) - (passed + 1) + 1
  BY <1>1, SubSeqProperties DEF Rest
<1>4. Rest # <<>>
  BY <1>1, <1>3, EmptySeq
<1>5. passed + 1 = Len(cached_buffers) => Tail(Rest) = <<>>
  BY <1>1, <1>2, SubSeqEmpty
<1> QED BY <1>2, <1>4, <1>5

\* The places of the frames, as they were before a step.
Frame0(w, b, q, c, m, g) == FrameChain(w, b, q, c, m, g, out_mode)

\* A step that leaves frames and packets where they are, but for those that
\* are given up before they are decoded.
LEMMA OrderQuiet ==
  ASSUME IInv, OrderInv, Places',
         UNCHANGED <<mpp_in, mpp_out, good, written, buffer, outq, out_mode, sent, jpeg>>,
         Rest' = Rest, inq' = inq \/ (inq # <<>> /\ inq' = Tail(inq)), Task' \subseteq Task
  PROVE  OrderInv'
<1>1. UNCHANGED <<Written, InHand, InOutput, InList, InMpp, Decoded, Inside, FromMpp>>
  BY DEF Written, InHand, InOutput, InList, InMpp, Decoded, Inside, FromMpp, Rest, Frames, InQueue
<1>2. InInput' \subseteq InInput /\ Ascending(inq')
  BY OrderTypes, NumbersTail DEF OrderInv, Orders, InInput
<1>3. PacketChain(Decoded, Inside, Task', InInput', sent)
  BY <1>2, OrderTypes, PacketMoves DEF OrderInv
<1>4. Orders'
  BY <1>1, <1>2 DEF OrderInv, Orders, InOrder
<1> QED BY <1>1, <1>3, <1>4 DEF OrderInv, FrameChain, Flagged

\* Construction and the application's calls of the display.
LEMMA OrderConstruction ==
  ASSUME IInv, OrderInv, Construction \/ Control
  PROVE  OrderInv'
<1>1. UNCHANGED <<mpp_in, mpp_out, good, written, buffer, outq, out_mode, sent, inq, jpeg, packet,
                  cached_buffers, passed>>
  BY DEF Construction, Control, OpenStream, InstallOutput, ConstructDecoder, InstallDecoder,
         CreateDecoder, ControlTimeout, LimitGroup, Build, mppVars, portVars, confVars, pipeVars,
         inVars, decoderVars, outVars, writerVars
<1>2. \/ UNCHANGED <<pc, out_pc>>
      \/ pc' = "fetch" /\ out_pc' = out_pc
      \/ out_pc = "none" /\ out_pc' = "fetch" /\ pc' = pc
  BY DEF Construction, Control, OpenStream, InstallOutput, ConstructDecoder, InstallDecoder,
         pipeVars, decoderVars, writerVars
<1>3. Places' /\ Rest' = Rest /\ Task' \subseteq Task
  BY <1>1, <1>2 DEF Places, OrderInv, Rest, Task
<1>4. UNCHANGED <<mpp_in, mpp_out, good, written, buffer, outq, out_mode, sent, jpeg>> /\ inq' = inq
  BY <1>1
<1> QED BY <1>3, <1>4, OrderQuiet

\* The application sends a packet.
LEMMA OrderSend ==
  ASSUME IInv, OrderInv, SendPacket
  PROVE  OrderInv'
<1> DEFINE x == IF sent + 1 \in NullPackets THEN 0 ELSE sent + 1
<1>1. /\ sent' = sent + 1 /\ inq' = Append(inq, x)
      /\ UNCHANGED <<mpp_in, mpp_out, good, written, buffer, outq, out_mode, jpeg, packet, pc,
                     out_pc, cached_buffers, passed>>
  BY DEF SendPacket, mppVars, portVars, confVars, decoderVars, outVars, writerVars
<1>2. x \in Nat /\ {x} \ {0} \subseteq {sent + 1}
  BY OrderTypes
<1> HIDE DEF x
<1>3. InInput \subseteq 1..sent /\ sent \in Nat
  BY OrderTypes DEF OrderInv, PacketChain
<1>4. Below(InInput, {x} \ {0})
  <2>1. \A y \in 1..sent : y < sent + 1
    BY <1>3
  <2> QED BY <1>2, <1>3, <2>1 DEF Below
<1>5. InInput' \subseteq InInput \cup {sent + 1} /\ Ascending(inq')
  BY <1>1, <1>2, <1>4, OrderTypes, NumbersAppend DEF InInput, OrderInv, Orders
<1>6. PacketChain(Decoded, Inside, Task, InInput', sent + 1)
  BY <1>3, <1>5, PacketMoves DEF OrderInv
<1>7. UNCHANGED <<Written, InHand, InOutput, InList, InMpp, Decoded, Inside, FromMpp, Rest, Task>>
  BY <1>1 DEF Written, InHand, InOutput, InList, InMpp, Decoded, Inside, FromMpp, Rest, Frames,
              InQueue, Task
<1>8. Orders' /\ Places'
  BY <1>1, <1>5, <1>7 DEF OrderInv, Orders, Places, InOrder
<1> QED BY <1>1, <1>6, <1>7, <1>8 DEF OrderInv, FrameChain, Flagged

\* MPP decodes a packet, or announces a change.
LEMMA OrderMpp ==
  ASSUME IInv, OrderInv, Mpp
  PROVE  OrderInv'
<1>1. /\ UNCHANGED <<written, buffer, outq, out_mode, sent, inq, jpeg, packet, pc, out_pc,
                     cached_buffers, passed>>
      /\ mpp_in # <<>>
  BY DEF Mpp, Decode, ChangeInfo, confVars, pipeVars, inVars, decoderVars, outVars, writerVars
<1>2. UNCHANGED <<Written, InHand, InOutput, InList, Rest, Task, InInput>>
  BY <1>1 DEF Written, InHand, InOutput, InList, Rest, Task, InInput, Frames, InQueue
<1>3. Places /\ Orders /\ ~jpeg
  BY <1>1 DEF OrderInv, Places
<1> DEFINE x == Head(mpp_in)
           rest == Tail(mpp_in)
<1>4. /\ x \in Nat /\ x # 0 /\ rest \in Seq(Nat) /\ Inside = {x} \cup Numbers(rest)
      /\ Below({x}, Numbers(rest)) /\ Ascending(rest)
      /\ \A i \in 1..Len(rest) : rest[i] # 0
  <2>1. /\ x \in Nat /\ rest \in Seq(Nat) /\ x = mpp_in[1] /\ 1 \in 1..Len(mpp_in)
        /\ Numbers(mpp_in) = ({x} \ {0}) \cup Numbers(rest)
        /\ Below({x} \ {0}, Numbers(rest)) /\ Ascending(rest)
        /\ \A i \in 1..Len(rest) : i + 1 \in 1..Len(mpp_in) /\ rest[i] = mpp_in[i + 1]
    BY <1>1, <1>3, OrderTypes, NumbersTail DEF Orders
  <2> HIDE DEF x, rest
  <2>2. x # 0 /\ \A i \in 1..Len(rest) : rest[i] # 0
    BY <1>3, <2>1 DEF Places
  <2> QED BY <2>1, <2>2 DEF Inside
<1>5. FromMpp \in Seq(Images) /\ good \in Seq(Nat) /\ sent \in Nat
  BY <1>3, OrderTypes DEF Places
<1>6. /\ Below(Decoded, {x})
      /\ PacketChain(Decoded \cup {x}, Numbers(rest), Task, InInput, sent)
      /\ PacketChain(Decoded, Numbers(rest), Task, InInput, sent)
  <2>1. Below(Decoded, {x})
    BY <1>4 DEF OrderInv, PacketChain, Below
  <2>2. PacketChain(Decoded \cup {x}, Numbers(rest), Task, InInput, sent)
    BY <1>4, <1>5, PacketMoves DEF OrderInv
  <2>3. PacketChain(Decoded, Numbers(rest), Task, InInput, sent)
    BY <1>4, <1>5, PacketMoves DEF OrderInv
  <2> QED BY <2>1, <2>2, <2>3
<1>7. PICK os \in Seq(Outputs) :
        /\ mpp_out' = mpp_out \o os /\ InOrder(Pictures(os)) /\ Frames(Pictures(os)) \subseteq {x}
        /\ \/ /\ good' = Append(good, x) /\ mpp_in' = rest
              /\ {x} \ Flagged \subseteq Frames(Pictures(os))
           \/ /\ good' = good /\ mpp_in' \in {rest, mpp_in}
              /\ Frames(Pictures(os)) = {}
  <2> HIDE DEF x, rest
  <2>1. x \in 0..MaxPackets
    BY <1>1, HeadTailProperties DEF x, IInv, PipeInv
  <2>2. CASE Decode(Held)
    <3>1. PICK ok \in BOOLEAN :
            /\ \E os \in Results(x, ok) : mpp_out' = mpp_out \o os
            /\ good' = IF ok /\ x \notin EmptyPackets THEN Append(good, x) ELSE good
            /\ mpp_in' = rest
      BY <2>2 DEF Decode, x, rest
    <3>2. PICK os \in Results(x, ok) : mpp_out' = mpp_out \o os
      BY <3>1
    <3>3. /\ os \in Seq(Outputs)
          /\ Frames(Pictures(os)) \subseteq {x} /\ InOrder(Pictures(os))
          /\ ~ok \/ x \in EmptyPackets => Frames(Pictures(os)) = {}
          /\ ok /\ x \notin EmptyPackets \cup EosPackets => Frames(Pictures(os)) = {x}
      BY <1>4, <2>1, ResultTypes, ResultFrames
    <3>4. ok /\ x \notin EmptyPackets => {x} \ Flagged \subseteq Frames(Pictures(os))
      BY <1>3, <3>3 DEF Flagged
    <3> QED BY <3>1, <3>2, <3>3, <3>4
  <2>3. CASE ChangeInfo
    <3> DEFINE info == [kind |-> "info", n |-> 0]
    <3>1. info \in Outputs /\ Image(info) \in Images /\ FrameIn(Image(info)) = {}
      BY DecodeDisplayAssumption DEF Outputs, Image, Images, FrameOf, FrameIn, NoFrame
    <3>2. mpp_out' = Append(mpp_out, info) /\ good' = good /\ mpp_in' = mpp_in
      BY <2>3 DEF ChangeInfo
    <3> HIDE DEF info
    <3>3. <<info>> \in Seq(Outputs) /\ Pictures(<<info>>) = <<Image(info)>>
      BY <3>1 DEF Pictures
    <3>4. mpp_out' = mpp_out \o <<info>>
      BY <3>1, <3>2, OrderTypes, AppendIsConcat
    <3>5. Frames(Pictures(<<info>>)) = {} /\ InOrder(Pictures(<<info>>))
      BY <3>1, <3>3, FramesOne
    <3> QED BY <3>2, <3>3, <3>4, <3>5
  <2> QED BY <2>2, <2>3 DEF Mpp
<1> DEFINE fresh == Frames(Pictures(os))
<1>9. /\ InMpp' = InMpp \cup fresh
      /\ Below(InMpp, fresh) => InOrder(FromMpp')
  BY <1>3, <1>5, <1>7, FromMppConcat, PicturesType, FramesConcat DEF InMpp, Orders
<1>10. InMpp \subseteq Decoded
  BY DEF OrderInv, FrameChain
<1> HIDE DEF x, rest, fresh
<1>11. CASE good' = Append(good, x) /\ mpp_in' = rest /\ {x} \ Flagged \subseteq fresh
  <2>1. /\ Decoded' = Decoded \cup {x} /\ Ascending(good') /\ good' \in Seq(Nat)
    <3>1. {x} \ {0} = {x} /\ Ascending(good)
      BY <1>3, <1>4 DEF Orders
    <3>2. Numbers(Append(good, x)) = Decoded \cup {x}
      BY <1>4, <1>5, <3>1, NumbersAppend DEF Decoded
    <3>3. Ascending(Append(good, x))
      BY <1>4, <1>5, <1>6, <3>1, NumbersAppend DEF Decoded
    <3>4. Append(good, x) \in Seq(Nat)
      BY <1>4, <1>5, AppendProperties
    <3> QED BY <1>11, <3>2, <3>3, <3>4 DEF Decoded
  <2>2. InMpp' = InMpp \cup fresh /\ InOrder(FromMpp') /\ fresh \subseteq {x}
    BY <1>6, <1>7, <1>9, <1>10 DEF Below, fresh
  <2>3. Frame0(Written, InHand, InOutput, InList, InMpp', Decoded')
    BY <1>6, <1>11, <2>1, <2>2, FrameMovesIn DEF OrderInv, Frame0
  <2>4. Orders' /\ Places'
    BY <1>1, <1>2, <1>3, <1>4, <1>11, <2>1, <2>2 DEF Orders, Places, InOrder
  <2>5. PacketChain(Decoded', Inside', Task', InInput', sent')
    BY <1>1, <1>2, <1>6, <1>11, <2>1 DEF Inside
  <2> QED BY <1>1, <1>2, <2>3, <2>4, <2>5 DEF OrderInv, FrameChain, Frame0, Flagged
<1>12. CASE good' = good /\ mpp_in' \in {rest, mpp_in} /\ fresh = {}
  <2>1. Decoded' = Decoded /\ InMpp' = InMpp /\ InOrder(FromMpp')
    BY <1>9, <1>12 DEF Decoded, Below
  <2>2. Orders' /\ Places'
    BY <1>1, <1>2, <1>3, <1>4, <1>12, <2>1 DEF Orders, Places, InOrder
  <2>3. PacketChain(Decoded', Inside', Task', InInput', sent')
    BY <1>1, <1>2, <1>6, <1>12, <2>1 DEF Inside, OrderInv
  <2> QED BY <1>1, <1>2, <2>1, <2>2, <2>3 DEF OrderInv, FrameChain, Flagged
<1> QED BY <1>7, <1>11, <1>12 DEF fresh

\* A packet is fetched, and taken by MPP, kept or given up.
LEMMA OrderInput ==
  ASSUME IInv, OrderInv, Fetch \/ Send
  PROVE  OrderInv'
<1>1. UNCHANGED <<mpp_out, good, written, buffer, outq, out_mode, sent, jpeg, out_pc,
                  cached_buffers, passed>>
  BY DEF Fetch, Send, SendInput, mppVars, portVars, confVars, inVars, outVars, writerVars
<1>2. /\ UNCHANGED <<Written, InHand, InOutput, InList, Rest, InMpp, FromMpp, Decoded>>
      /\ sent \in Nat /\ Places /\ Orders
  BY <1>1, OrderTypes
     DEF Written, InHand, InOutput, InList, Rest, InMpp, FromMpp, Decoded, Frames, InQueue, OrderInv
<1>3. ASSUME Places', Ascending(mpp_in'), Ascending(inq'),
             PacketChain(Decoded, Inside', Task', InInput', sent)
      PROVE  OrderInv'
  <2>1. Orders'
    BY <1>1, <1>2, <1>3 DEF Orders, InOrder
  <2> QED BY <1>1, <1>2, <1>3, <2>1 DEF OrderInv, FrameChain, Flagged
<1>4. CASE Fetch
  <2>1. /\ pc = "fetch" /\ inq # <<>> /\ packet' = Head(inq) /\ inq' = Tail(inq) /\ mpp_in' = mpp_in
        /\ pc' = IF Head(inq) = 0 THEN "down" ELSE IF jpeg THEN "process" ELSE "send"
    BY <1>4 DEF Fetch, mppVars, portVars
  <2>2. /\ InInput = ({Head(inq)} \ {0}) \cup Numbers(Tail(inq))
        /\ Below({Head(inq)} \ {0}, Numbers(Tail(inq))) /\ Ascending(Tail(inq))
    BY <1>2, <2>1, OrderTypes, NumbersTail DEF InInput, Orders
  <2>3. PacketChain(Decoded, Inside, {Head(inq)} \ {0}, Numbers(Tail(inq)), sent)
    <3> DEFINE x  == {Head(inq)} \ {0}
               n2 == Numbers(Tail(inq))
    <3>1. x \cup n2 \subseteq InInput /\ Below(x, n2)
      BY <2>2
    <3> HIDE DEF x, n2
    <3>2. PacketChain(Decoded, Inside, x, n2, sent)
      BY <1>2, <3>1, PacketMoves DEF OrderInv
    <3> QED BY <3>2 DEF x, n2
  <2>4. Task' = {Head(inq)} \ {0}
    BY <2>1 DEF Task
  <2>5. PacketChain(Decoded, Inside', Task', InInput', sent)
    BY <2>1, <2>3, <2>4 DEF Inside, InInput
  <2>6. Places'
    BY <1>1, <1>2, <2>1 DEF Places
  <2> QED BY <1>2, <1>3, <2>1, <2>2, <2>5, <2>6 DEF Orders
<1>5. CASE Send
  <2>1. /\ pc = "send" /\ UNCHANGED <<packet, inq>>
        /\ \/ pc' = "output" /\ mpp_in' = Append(mpp_in, packet)
           \/ pc' \in {"send", "down"} /\ mpp_in' = mpp_in
    <3>1. PICK result \in {"ok", EAGAIN, "failed"} :
            /\ SendInput(packet, result)
            /\ pc' = CASE result = "ok"     -> "output"
                       [] result = EAGAIN   -> "send"
                       [] result = "failed" -> "down"
      BY <1>5 DEF Send
    <3>2. result = "ok" => pc' = "output" /\ mpp_in' = Append(mpp_in, packet)
      BY <3>1 DEF EAGAIN, SendInput
    <3>3. result # "ok" => pc' \in {"send", "down"} /\ mpp_in' = mpp_in
      BY <3>1 DEF EAGAIN, SendInput
    <3> QED BY <1>5, <3>2, <3>3 DEF Send, inVars
  <2>2. packet \in Nat /\ packet # 0 /\ ~jpeg /\ Task = {packet} /\ mpp_in \in Seq(Nat)
    BY <1>2, <2>1, OrderTypes DEF Places, Task
  <2>3. InInput' = InInput /\ Ascending(inq')
    BY <1>2, <2>1 DEF InInput, Orders
  <2>4. CASE pc' = "output" /\ mpp_in' = Append(mpp_in, packet)
    <3>1. {packet} \ {0} = {packet} /\ Below(Inside, {packet})
      BY <2>2 DEF OrderInv, PacketChain, Below
    <3>2. Inside' = Inside \cup {packet} /\ Ascending(mpp_in')
      BY <1>2, <2>2, <2>4, <3>1, NumbersAppend DEF Inside, Orders
    <3>3. PacketChain(Decoded, Inside', {}, InInput, sent)
      BY <1>2, <2>2, <3>2, PacketMoves DEF OrderInv
    <3>4. Task' = {}
      BY <2>4 DEF Task
    <3>5. \A i \in 1..Len(mpp_in') : mpp_in'[i] # 0
      <4>1. /\ Len(mpp_in') = Len(mpp_in) + 1 /\ mpp_in'[Len(mpp_in) + 1] = packet
            /\ \A i \in 1..Len(mpp_in) : mpp_in'[i] = mpp_in[i]
            /\ Len(mpp_in) \in Nat
        BY <2>2, <2>4, AppendProperties
      <4>2. \A i \in 1..Len(mpp_in) : mpp_in[i] # 0
        BY <1>2 DEF Places
      <4> QED BY <2>2, <4>1, <4>2
    <3>6. Places'
      BY <1>1, <1>2, <2>2, <2>4, <3>5 DEF Places
    <3> QED BY <1>3, <2>3, <3>2, <3>3, <3>4, <3>6
  <2>5. CASE pc' \in {"send", "down"} /\ mpp_in' = mpp_in
    <3>1. Task' \subseteq Task /\ Inside' = Inside /\ Ascending(mpp_in')
      BY <1>2, <2>1, <2>5 DEF Task, Inside, Orders
    <3>2. PacketChain(Decoded, Inside', Task', InInput', sent)
      BY <1>2, <2>3, <3>1, PacketMoves DEF OrderInv
    <3>3. Places'
      BY <1>1, <1>2, <2>1, <2>2, <2>5 DEF Places
    <3> QED BY <1>3, <2>3, <3>1, <3>2, <3>3
  <2> QED BY <2>1, <2>4, <2>5
<1> QED BY <1>4, <1>5

\* An image is fetched from MPP.
LEMMA OrderOutput ==
  ASSUME IInv, OrderInv, Output
  PROVE  OrderInv'
<1>1. PICK output \in ToSet(mpp_out) \cup {NoOutput} :
        /\ GetFrame(output)
        /\ IF IsImage(output)
             THEN cached_buffers' = Append(cached_buffers, Image(output)) /\ pc' = pc
             ELSE pc' = "down" /\ UNCHANGED cached_buffers
  BY DEF Output, FetchOutput
<1>2. /\ pc = "output"
      /\ UNCHANGED <<mpp_in, good, written, buffer, outq, out_mode, sent, inq, jpeg, out_pc, packet,
                     passed>>
  BY DEF Output, FetchOutput, confVars, inVars, outVars, writerVars
<1>3. /\ passed = 0 /\ cached_buffers \in Seq(Images) /\ FromMpp \in Seq(Images) /\ Places /\ Orders
      /\ ~jpeg
  BY <1>2, OrderTypes DEF IInv, PipeInv, OrderInv, Places
<1>4. Rest = cached_buffers
  BY <1>3, OrderTypes
<1>5. /\ UNCHANGED <<Written, InHand, InOutput, Decoded, Inside, InInput>> /\ Task' = Task
      /\ Task = {}
  BY <1>1, <1>2 DEF Written, InHand, InOutput, Decoded, Inside, InInput, Task, Frames, InQueue
<1>6. Places'
  BY <1>1, <1>2, <1>3 DEF Places
<1>7. ASSUME InOrder(Rest'), InOrder(FromMpp'),
             Frame0(Written, InHand, InOutput, InList', InMpp', Decoded)
      PROVE  OrderInv'
  <2>1. Orders'
    BY <1>2, <1>3, <1>7 DEF Orders, InOrder
  <2> QED BY <1>2, <1>5, <1>6, <1>7, <2>1 DEF OrderInv, FrameChain, Frame0, Flagged
<1>8. CASE mpp_out # <<>> /\ output = Head(mpp_out) /\ mpp_out' = Tail(mpp_out)
  <2> DEFINE b == Image(output)
  <2>1. FromMpp # <<>> /\ FromMpp' = Tail(FromMpp) /\ Head(FromMpp) = b
    BY <1>8, FromMppTail
  <2>2. /\ b \in Images /\ InMpp = FrameIn(b) \cup InMpp' /\ Below(FrameIn(b), InMpp')
        /\ InOrder(FromMpp')
    BY <1>3, <2>1, FramesTail DEF InMpp, Orders
  <2>3. Frame0(Written, InHand, InOutput, InList \cup FrameIn(b), InMpp', Decoded)
    BY <2>2, FrameMovesIn DEF OrderInv, Frame0
  <2>4. CASE IsImage(output)
    <3>1. cached_buffers' = Append(cached_buffers, b) /\ cached_buffers' \in Seq(Images)
      BY <1>1, <1>3, <2>2, <2>4, AppendProperties
    <3> HIDE DEF b
    <3>2. Rest' = Append(Rest, b)
      <4>1. SubSeq(cached_buffers', 1, Len(cached_buffers')) = cached_buffers'
        BY <3>1, SubSeqFull
      <4> QED BY <1>2, <1>3, <1>4, <3>1, <4>1 DEF Rest
    <3>3. Below(InList, FrameIn(b))
      BY <2>2 DEF OrderInv, FrameChain, Below
    <3>4. InList' = InList \cup FrameIn(b) /\ InOrder(Rest')
      BY <1>3, <1>4, <2>2, <3>2, <3>3, FramesAppend DEF InList, Orders
    <3> QED BY <1>7, <2>2, <2>3, <3>4
  <2>5. CASE ~IsImage(output)
    <3>1. FrameIn(b) = {}
      BY <2>5 DEF FrameIn, Image, FrameOf, IsImage, NoFrame
    <3>2. Rest' = Rest /\ InList' = InList
      BY <1>1, <1>2, <2>5 DEF Rest, InList, Frames, InQueue
    <3> HIDE DEF b
    <3>3. InList \cup FrameIn(b) = InList'
      BY <3>1, <3>2
    <3>4. Frame0(Written, InHand, InOutput, InList', InMpp', Decoded)
      BY <2>3, <3>3
    <3>5. InOrder(Rest')
      BY <1>3, <3>2 DEF Orders
    <3> QED BY <1>7, <2>2, <3>4, <3>5
  <2> QED BY <2>4, <2>5
<1>9. CASE output = NoOutput /\ UNCHANGED mpp_out
  <2>1. ~IsImage(output)
    BY <1>9 DEF NoOutput, IsImage
  <2>2. UNCHANGED <<Rest, FromMpp, InList, InMpp>>
    BY <1>1, <1>2, <1>9, <2>1 DEF Rest, FromMpp, InList, InMpp, Frames, InQueue
  <2> QED BY <1>3, <1>7, <2>2 DEF Orders, OrderInv, Frame0
<1> QED BY <1>1, <1>8, <1>9 DEF GetFrame

\* A packet is decoded in one call.
LEMMA OrderProcess ==
  ASSUME IInv, OrderInv, ProcessSync
  PROVE  OrderInv'
<1> DEFINE b == Filled
<1>1. /\ pc = "process" /\ pc' = "down"
      /\ UNCHANGED <<mpp_in, mpp_out, written, buffer, outq, out_mode, sent, inq, jpeg, out_pc,
                     packet, passed>>
      /\ \/ /\ good' = Append(good, packet) /\ cached_buffers' = Append(cached_buffers, b)
            /\ packet \notin EmptyPackets
         \/ /\ good' = good /\ cached_buffers' = Append(cached_buffers, b)
            /\ packet \in EmptyPackets
         \/ good' = good /\ cached_buffers' = cached_buffers
  <2>1. PICK result \in {"ok", "failed"} :
          /\ Process(packet, result)
          /\ cached_buffers' = IF result = "ok" THEN Append(cached_buffers, b) ELSE cached_buffers
    BY DEF ProcessSync
  <2>2. result = "ok" => good' = IF packet \in EmptyPackets THEN good ELSE Append(good, packet)
    BY <2>1 DEF Process, ProcessIgnored, ProcessPrepare, ProcessTimedOut, ProcessBadFrame, ProcessDecoded,
                OneInOneOutFails
  <2>3. result = "failed" => good' = good
    BY <2>1 DEF Process, ProcessIgnored, ProcessPrepare, ProcessTimedOut, ProcessBadFrame, ProcessDecoded,
                OneInOneOutFails
  <2> HIDE DEF b
  <2> QED BY <2>1, <2>2, <2>3 DEF ProcessSync, Process, confVars, inVars, outVars, writerVars
<1>2. /\ passed = 0 /\ Places /\ Orders /\ jpeg /\ packet # 0 /\ packet \in Nat
      /\ packet \in 0..MaxPackets /\ good \in Seq(Nat) /\ cached_buffers \in Seq(Images)
      /\ mpp_in = <<>> /\ mpp_out = <<>> /\ sent \in Nat
  BY <1>1, OrderTypes DEF IInv, PipeInv, OrderInv, Places
<1>3. Rest = cached_buffers
  BY <1>2, OrderTypes
<1>4. b \in Images /\ FrameIn(b) = IF packet \in EmptyPackets THEN {} ELSE {packet}
  BY <1>2, DecodeDisplayAssumption DEF Filled, Images, FrameIn, NoFrame
<1> HIDE DEF b
<1>5. /\ UNCHANGED <<Written, InHand, InOutput, InMpp, FromMpp, Inside, InInput>>
      /\ Task' = {} /\ Task = {packet} /\ Inside = {} /\ InMpp = {}
  <2>1. Len(<<>>) = 0 /\ DOMAIN <<>> = {}
    BY EmptySeq
  <2>2. Inside = {} /\ InMpp = {}
    BY <1>2, <2>1 DEF Inside, Numbers, InMpp, FromMpp, Frames, InQueue
  <2> QED BY <1>1, <2>2
          DEF Written, InHand, InOutput, InMpp, FromMpp, Inside, InInput, Task, Frames, InQueue
<1>6. /\ PacketChain(Decoded, {}, {}, InInput, sent)
      /\ PacketChain(Decoded \cup {packet}, {}, {}, InInput, sent)
      /\ Below(Decoded, {packet})
  <2>1. PacketChain(Decoded, {}, {packet}, InInput, sent)
    BY <1>5 DEF OrderInv
  <2>2. PacketChain(Decoded, {}, {}, InInput, sent)
    BY <1>2, <2>1, PacketMoves
  <2>3. PacketChain(Decoded \cup {packet}, {}, {}, InInput, sent)
    BY <1>2, <2>1, PacketMoves
  <2> QED BY <2>1, <2>2, <2>3 DEF PacketChain, Below
<1>9. cached_buffers' = Append(cached_buffers, b) => Rest' = Append(Rest, b)
  <2> SUFFICES ASSUME cached_buffers' = Append(cached_buffers, b)
               PROVE  Rest' = Append(Rest, b)
    OBVIOUS
  <2>1. cached_buffers' \in Seq(Images)
    BY <1>2, <1>4, AppendProperties
  <2>2. SubSeq(cached_buffers', 1, Len(cached_buffers')) = cached_buffers'
    BY <2>1, SubSeqFull
  <2>3. passed' = 0
    BY <1>1, <1>2
  <2>4. Rest' = cached_buffers'
    BY <2>2, <2>3 DEF Rest
  <2> QED BY <1>3, <2>4
<1>7. CASE /\ good' = Append(good, packet) /\ cached_buffers' = Append(cached_buffers, b)
           /\ packet \notin EmptyPackets
  <2>1. {packet} \ {0} = {packet} /\ Ascending(good)
    BY <1>2 DEF Orders
  <2>2. Decoded' = Decoded \cup {packet} /\ Ascending(good') /\ good' \in Seq(Nat)
    <3>1. Numbers(Append(good, packet)) = Decoded \cup {packet}
      BY <1>2, <2>1, NumbersAppend DEF Decoded
    <3>2. Ascending(Append(good, packet))
      BY <1>2, <1>6, <2>1, NumbersAppend DEF Decoded
    <3>3. Append(good, packet) \in Seq(Nat)
      BY <1>2, AppendProperties
    <3> QED BY <1>7, <3>1, <3>2, <3>3 DEF Decoded
  <2>4. Below(InList, {packet})
    BY <1>6 DEF OrderInv, FrameChain, Below
  <2>5. InList' = InList \cup {packet} /\ InOrder(Rest')
    BY <1>2, <1>3, <1>4, <1>7, <1>9, <2>4, FramesAppend DEF InList, Orders
  <2>6. Frame0(Written, InHand, InOutput, InList', InMpp, Decoded')
    BY <1>5, <1>6, <2>2, <2>5, FrameMovesIn DEF OrderInv, Frame0
  <2>7. Places' /\ Orders'
    <3>1. /\ Len(good') = Len(good) + 1 /\ good'[Len(good) + 1] = packet
          /\ \A i \in 1..Len(good) : good'[i] = good[i]
          /\ Len(good) \in Nat
      BY <1>2, <1>7, AppendProperties
    <3>2. \A i \in 1..Len(good) : good[i] # 0
      BY <1>2 DEF Places
    <3>3. \A i \in 1..Len(good') : good'[i] # 0
      BY <1>2, <3>1, <3>2
    <3> QED BY <1>1, <1>2, <1>5, <2>2, <2>5, <3>3 DEF Places, Orders, InOrder
  <2>8. PacketChain(Decoded', Inside', Task', InInput', sent')
    BY <1>1, <1>5, <1>6, <2>2
  <2> QED BY <1>1, <1>5, <2>6, <2>7, <2>8 DEF OrderInv, FrameChain, Frame0, Flagged
<1>8. CASE good' = good /\ cached_buffers' = cached_buffers
  <2>1. UNCHANGED <<Rest, InList, Decoded>>
    BY <1>1, <1>8 DEF Rest, InList, Decoded, Frames, InQueue
  <2>2. Places' /\ Orders'
    BY <1>1, <1>2, <1>5, <1>8, <2>1 DEF Places, Orders, InOrder
  <2>3. PacketChain(Decoded', Inside', Task', InInput', sent')
    BY <1>1, <1>5, <1>6, <2>1
  <2> QED BY <1>1, <1>5, <2>1, <2>2, <2>3 DEF OrderInv, FrameChain, Flagged
<1>10. CASE /\ good' = good /\ cached_buffers' = Append(cached_buffers, b)
            /\ packet \in EmptyPackets
  <2>1. InList' = InList /\ InOrder(Rest') /\ Decoded' = Decoded
    <3>1. InList' = InList \cup FrameIn(b)
      BY <1>2, <1>3, <1>4, <1>9, <1>10, FramesAppend DEF InList
    <3>2. Below(InList, FrameIn(b))
      BY <1>4, <1>10 DEF Below
    <3>3. InOrder(Rest')
      BY <1>2, <1>3, <1>4, <1>9, <1>10, <3>2, FramesAppend DEF InList, Orders
    <3> QED BY <1>4, <1>10, <3>1, <3>3 DEF Decoded
  <2>2. Places' /\ Orders'
    BY <1>1, <1>2, <1>5, <1>10, <2>1 DEF Places, Orders, InOrder
  <2>3. PacketChain(Decoded', Inside', Task', InInput', sent')
    BY <1>1, <1>5, <1>6, <2>1
  <2> QED BY <1>1, <1>5, <2>1, <2>2, <2>3 DEF OrderInv, FrameChain, Flagged
<1> QED BY <1>1, <1>7, <1>8, <1>10

\* A buffer, or the null one, is sent to the output flow.
LEMMA OrderDown ==
  ASSUME IInv, OrderInv, SendNullDown \/ SendDown
  PROVE  OrderInv'
<1>1. /\ pc = "down" /\ pc' \in {"down", "fetch"}
      /\ UNCHANGED <<mpp_in, mpp_out, good, written, buffer, out_mode, sent, inq, jpeg, out_pc,
                     packet>>
  BY DEF SendNullDown, SendDown, mppVars, portVars, confVars, inVars, writerVars
<1>2. /\ Places /\ Orders /\ Null \in Images /\ outq \in Seq(Images) /\ Rest \in Seq(Images)
      /\ FromMpp \in Seq(Images)
  BY OrderTypes DEF OrderInv
<1>3. /\ UNCHANGED <<Written, InHand, InMpp, FromMpp, Inside, InInput, Decoded>>
      /\ Task' = {} /\ Task = {} /\ Places'
  BY <1>1, <1>2 DEF Written, InHand, InMpp, FromMpp, Inside, InInput, Decoded, Task, Places,
                    Frames, InQueue
<1>4. \A y \in Decoded : y \in Nat
  BY OrderTypes DEF OrderInv, PacketChain
<1>5. ASSUME NEW b \in Images, Accepted(b), InOrder(Rest'),
             InList = FrameIn(b) \cup InList', Below(FrameIn(b), InList')
      PROVE  OrderInv'
  <2>1. Below(InOutput, FrameIn(b))
    BY <1>5 DEF OrderInv, FrameChain, Below
  <2>2. /\ Frames(Append(outq, b)) = InOutput \cup FrameIn(b) /\ InOrder(Append(outq, b))
        /\ Frames(<<b>>) = FrameIn(b) /\ InOrder(<<b>>)
    BY <1>2, <2>1, FramesAppend, FramesOne DEF InOutput, Orders
  <2>3. /\ InOutput' \subseteq InOutput \cup FrameIn(b) /\ InOrder(outq')
        /\ out_mode = "BLOCKING" => InOutput' = InOutput \cup FrameIn(b)
    <3>1. \/ out_mode # "BLOCKING" /\ outq' = <<b>>
          \/ outq' = Append(outq, b)
          \/ out_mode # "BLOCKING" /\ outq' = outq
      BY <1>5 DEF Accepted
    <3> QED BY <1>2, <2>2, <3>1 DEF InOutput, Orders
  <2>4. Frame0(Written, InHand, InOutput', InList', InMpp, Decoded)
    BY <1>4, <1>5, <2>3, FrameMovesOut DEF OrderInv, Frame0
  <2>5. Orders'
    BY <1>1, <1>2, <1>3, <1>5, <2>3 DEF Orders, InOrder
  <2>6. PacketChain(Decoded', Inside', Task', InInput', sent')
    BY <1>1, <1>3 DEF OrderInv
  <2> QED BY <1>1, <1>3, <2>4, <2>5, <2>6 DEF OrderInv, FrameChain, Frame0, Flagged
<1>6. CASE SendNullDown
  <2>1. Accepted(Null) /\ UNCHANGED <<cached_buffers, passed>>
    BY <1>6 DEF SendNullDown
  <2>2. UNCHANGED <<Rest, InList>>
    BY <2>1 DEF Rest, InList, Frames, InQueue
  <2>3. FrameIn(Null) = {}
    BY DEF FrameIn, Null
  <2>4. InOrder(Rest') /\ InList = FrameIn(Null) \cup InList' /\ Below(FrameIn(Null), InList')
    BY <1>2, <2>2, <2>3 DEF Orders, Below
  <2> QED BY <1>2, <1>5, <2>1, <2>4
<1>7. CASE SendDown
  <2>1. /\ ret /\ Accepted(cached_buffers[passed + 1])
        /\ IF passed + 1 < Len(cached_buffers)
             THEN passed' = passed + 1 /\ UNCHANGED cached_buffers
             ELSE passed' = 0 /\ cached_buffers' = <<>>
    BY <1>7 DEF SendDown
  <2>2. passed \in Nat /\ passed < Len(cached_buffers) /\ Len(cached_buffers) \in Nat
    BY <1>1, <2>1 DEF IInv, PipeInv
  <2> DEFINE b == cached_buffers[passed + 1]
  <2>3. /\ Rest # <<>> /\ Head(Rest) = b
        /\ Tail(Rest) = SubSeq(cached_buffers, passed + 2, Len(cached_buffers))
        /\ passed + 1 = Len(cached_buffers) => Tail(Rest) = <<>>
    BY <2>2, RestTail
  <2>4. Rest' = Tail(Rest)
    <3>1. CASE passed + 1 < Len(cached_buffers)
      <4>1. passed' + 1 = passed + 2 /\ cached_buffers' = cached_buffers
        BY <2>1, <2>2, <3>1
      <4> QED BY <2>3, <4>1 DEF Rest
    <3>2. CASE ~(passed + 1 < Len(cached_buffers))
      <4>1. passed' = 0 /\ cached_buffers' = <<>> /\ passed + 1 = Len(cached_buffers)
        BY <2>1, <2>2, <3>2
      <4>2. Rest' = <<>>
        <5>1. Len(<<>>) = 0
          BY EmptySeq
        <5>2. SubSeq(<<>>, 0 + 1, 0) = <<>>
          BY SubSeqEmpty
        <5> QED BY <4>1, <5>1, <5>2 DEF Rest
      <4> QED BY <2>3, <4>1, <4>2
    <3> QED BY <3>1, <3>2
  <2> HIDE DEF b
  <2>5. /\ b \in Images /\ InList = FrameIn(b) \cup InList' /\ Below(FrameIn(b), InList')
        /\ InOrder(Rest')
    BY <1>2, <2>3, <2>4, FramesTail DEF InList, Orders
  <2>6. Accepted(b)
    BY <2>1 DEF b
  <2> QED BY <1>5, <2>5, <2>6
<1> QED BY <1>6, <1>7

\* The output flow takes a buffer.
LEMMA OrderFetchBuffer ==
  ASSUME IInv, OrderInv, FetchBuffer
  PROVE  OrderInv'
<1>1. /\ out_pc = "fetch" /\ out_pc' = "write" /\ outq # <<>> /\ buffer' = Head(outq)
      /\ outq' = IF out_mode = "ATOMIC" THEN outq ELSE Tail(outq)
      /\ UNCHANGED <<mpp_in, mpp_out, good, written, out_mode, sent, inq, jpeg, packet, pc,
                     cached_buffers, passed>>
  BY DEF FetchBuffer, mppVars, portVars, confVars, inVars, decoderVars
<1>2. Places /\ Orders /\ outq \in Seq(Images) /\ Null \in Images
  BY OrderTypes DEF OrderInv
<1>3. /\ UNCHANGED <<Written, InList, Rest, InMpp, FromMpp, Inside, InInput, Decoded, Task>>
      /\ Places' /\ InHand = {}
  <2>1. buffer = Null
    BY <1>1, <1>2 DEF Places
  <2>2. InHand = {}
    BY <1>2, <2>1, FramesOne DEF InHand
  <2> QED BY <1>1, <1>2, <2>2
          DEF Written, InList, Rest, InMpp, FromMpp, Inside, InInput, Decoded, Task, Places, Frames,
              InQueue
<1> DEFINE b == Head(outq)
           t == Tail(outq)
<1>4. /\ b \in Images /\ t \in Seq(Images) /\ InOutput = FrameIn(b) \cup Frames(t)
      /\ Below(FrameIn(b), Frames(t)) /\ InOrder(t) /\ InHand' = FrameIn(b)
  <2>1. /\ b \in Images /\ t \in Seq(Images) /\ InOutput = FrameIn(b) \cup Frames(t)
        /\ Below(FrameIn(b), Frames(t)) /\ InOrder(t)
    BY <1>1, <1>2, FramesTail DEF InOutput, Orders
  <2> QED BY <1>1, <2>1, FramesOne DEF InHand
<1> HIDE DEF b, t
<1>5. \A y \in Decoded : y \in Nat
  BY OrderTypes DEF OrderInv, PacketChain
<1>6. FrameChain(Written, {}, InOutput, InList, InMpp, Decoded, out_mode)
  BY <1>3 DEF OrderInv
<1>7. Frame0(Written, InHand', InOutput', InList, InMpp, Decoded) /\ InOrder(outq')
  <2>1. CASE out_mode = "ATOMIC"
    <3>1. outq' = outq /\ InOutput' = InOutput /\ InOrder(outq')
      BY <1>1, <1>2, <2>1 DEF InOutput, Frames, InQueue, Orders
    <3>2. \A y, z \in FrameIn(b) : y = z
      BY DEF FrameIn
    <3>3. Frame0(Written, FrameIn(b), InOutput, InList, InMpp, Decoded)
      BY <1>4, <1>5, <1>6, <2>1, <3>2, FrameMovesOut DEF Frame0
    <3> QED BY <1>4, <3>1, <3>3
  <2>2. CASE out_mode # "ATOMIC"
    <3>1. outq' = t /\ InOutput' = Frames(t)
      BY <1>1, <2>2 DEF InOutput, t
    <3>2. Frame0(Written, FrameIn(b), Frames(t), InList, InMpp, Decoded)
      BY <1>4, <1>5, <1>6, FrameMovesOut DEF Frame0
    <3> QED BY <1>4, <3>1, <3>2
  <2> QED BY <2>1, <2>2
<1>8. Orders'
  BY <1>1, <1>2, <1>3, <1>7 DEF Orders, InOrder
<1> QED BY <1>1, <1>3, <1>7, <1>8 DEF OrderInv, FrameChain, Frame0, Flagged

\* The output flow gives the display a frame, unless it did so last time.
LEMMA OrderWrite ==
  ASSUME IInv, OrderInv, SendBuffer
  PROVE  OrderInv'
<1> DEFINE f == buffer.frame
<1>1. /\ out_pc' = "fetch" /\ buffer' = Null /\ written' = Given
      /\ UNCHANGED <<mpp_in, mpp_out, good, outq, out_mode, sent, inq, jpeg, packet, pc,
                     cached_buffers, passed>>
  BY DEF SendBuffer, mppVars, portVars, confVars, inVars, decoderVars, outVars
<1>2. /\ Places /\ Orders /\ Null \in Images /\ buffer \in Images /\ written \in Seq(Nat)
      /\ f \in Nat
  BY OrderTypes, DecodeDisplayAssumption DEF OrderInv, Places, Images
<1>3. /\ UNCHANGED <<InOutput, InList, Rest, InMpp, FromMpp, Inside, InInput, Decoded, Task>>
      /\ InHand' = {} /\ InHand = {f} \ {0}
  <2>1. InHand' = {} /\ InHand = {f} \ {0}
    BY <1>1, <1>2, FramesOne DEF InHand, FrameIn, NoFrame
  <2> QED BY <1>1, <2>1
          DEF InOutput, InList, Rest, InMpp, FromMpp, Inside, InInput, Decoded, Task, Frames, InQueue
<1>4. \A y \in Decoded : y \in Nat
  BY OrderTypes DEF OrderInv, PacketChain
<1>5. UpTo(Written, InHand)
  BY DEF OrderInv, FrameChain
<1> HIDE DEF f
<1>6. /\ Written' = Written \cup InHand /\ Ascending(written') /\ written' \in Seq(Nat)
      /\ 0 \notin {written'[i] : i \in 1..Len(written')}
  <2>1. CASE f = 0
    <3>1. written' = written
      BY <1>1, <2>1 DEF Given, f, NoFrame
    <3> QED BY <1>2, <1>3, <2>1, <3>1 DEF Written, Orders
  <2>2. CASE f # 0 /\ written # <<>> /\ Last(written) = f
    <3>1. written' = written
      BY <1>1, <2>2 DEF Given, f
    <3>2. Len(written) \in 1..Len(written) /\ written[Len(written)] = f
      BY <1>2, <2>2, EmptySeq DEF Last
    <3>3. f \in Written
      BY <2>2, <3>2 DEF Written, Numbers
    <3> QED BY <1>2, <1>3, <3>1, <3>3 DEF Written, Orders
  <2>3. CASE f # 0 /\ (written = <<>> \/ Last(written) # f)
    <3>1. written' = Append(written, f)
      BY <1>1, <2>3 DEF Given, f, NoFrame
    <3>2. InHand = {f}
      BY <1>3, <2>3
    <3>3. ASSUME NEW y \in Written
          PROVE  y < f
      <4> DEFINE n == Len(written)
      <4>1. PICK i \in 1..n : y = written[i] /\ y # 0
        BY DEF Written, Numbers
      <4>2. n \in 1..n /\ written # <<>>
        BY <1>2, EmptySeq
      <4>3. Last(written) = written[n]
        BY DEF Last
      <4>4. written[n] # 0 /\ written[n] \in Nat /\ y \in Nat
        BY <1>2, <4>1, <4>2 DEF Orders
      <4> HIDE DEF n
      <4>5. written[n] \in Written
        BY <4>2, <4>4 DEF Written, Numbers, n
      <4>6. written[n] <= f
        BY <1>5, <3>2, <4>5 DEF UpTo
      <4>7. written[n] < f
        BY <1>2, <2>3, <4>2, <4>3, <4>4, <4>6
      <4>8. i = n \/ i < n
        BY <4>1, <4>2
      <4>9. i < n => y < written[n]
        BY <1>2, <4>1, <4>2, <4>4 DEF Orders, Ascending, n
      <4> QED BY <1>2, <4>1, <4>4, <4>7, <4>8, <4>9
    <3>4. {f} \ {0} = {f} /\ Below(Written, {f})
      BY <2>3, <3>3 DEF Below
    <3>5. Written' = Written \cup InHand
      BY <1>2, <3>1, <3>2, <3>4, NumbersAppend DEF Written
    <3>6. Ascending(written')
      BY <1>2, <3>1, <3>4, NumbersAppend DEF Written, Orders
    <3>7. /\ written' \in Seq(Nat) /\ Len(written') = Len(written) + 1
          /\ \A i \in 1..Len(written) : written'[i] = written[i]
          /\ written'[Len(written) + 1] = f /\ Len(written) \in Nat
      BY <1>2, <3>1, AppendProperties
    <3>8. \A i \in 1..Len(written) : written[i] # 0
      BY <1>2 DEF Orders
    <3>9. \A i \in 1..Len(written') : written'[i] # 0
      BY <2>3, <3>7, <3>8
    <3> QED BY <3>5, <3>6, <3>7, <3>9
  <2> QED BY <2>1, <2>2, <2>3
<1>7. Frame0(Written', InHand', InOutput, InList, InMpp, Decoded)
  BY <1>3, <1>4, <1>6, FrameMovesOut DEF OrderInv, Frame0
<1>8. Orders' /\ Places'
  BY <1>1, <1>2, <1>3, <1>6 DEF Orders, Places, InOrder
<1> QED BY <1>1, <1>3, <1>7, <1>8 DEF OrderInv, FrameChain, Frame0, Flagged

\* All queues are empty.
LEMMA InitOrder == Init => OrderInv
<1> SUFFICES ASSUME Init
             PROVE  OrderInv
  OBVIOUS
<1>1. /\ mpp_in = <<>> /\ mpp_out = <<>> /\ good = <<>> /\ inq = <<>> /\ written = <<>>
      /\ outq = <<>> /\ cached_buffers = <<>> /\ buffer = Null /\ pc = "none" /\ passed = 0
      /\ out_pc = "none" /\ sent = 0
  BY DEF Init, DecoderInit
<1>2. Len(<<>>) = 0 /\ DOMAIN <<>> = {} /\ <<>> \in Seq(Nat)
  BY EmptySeq
<1>3. Rest = <<>>
  BY <1>1, <1>2, SubSeqEmpty DEF Rest
<1>4. Null \in Images
  BY DecodeDisplayAssumption DEF Null, NoFrame, Images
<1>5. /\ Written = {} /\ Decoded = {} /\ Inside = {} /\ InInput = {} /\ Task = {}
      /\ InHand = {} /\ InOutput = {} /\ InList = {}
  BY <1>1, <1>3, <1>4, NumbersEmpty, FramesOne
     DEF Written, Decoded, Inside, InInput, Task, InHand, InOutput, InList
<1>6. InMpp = {} /\ InOrder(FromMpp)
  BY <1>1, <1>2 DEF InMpp, FromMpp, Frames, InQueue, InOrder
<1>7. Orders
  BY <1>1, <1>2, <1>3, <1>4, <1>6, NumbersEmpty, FramesOne DEF Orders
<1>8. Places
  BY <1>1, <1>2 DEF Places
<1> QED BY <1>1, <1>5, <1>6, <1>7, <1>8
        DEF OrderInv, PacketChain, FrameChain, Below, UpTo

\* Where the packets and the frames are, in every reachable state.
THEOREM OrderInvariance == Spec => []OrderInv
<1>1. IInv /\ OrderInv /\ [Next]_vars => OrderInv'
  <2> SUFFICES ASSUME IInv, OrderInv, [Next]_vars
               PROVE  OrderInv'
    OBVIOUS
  <2>1. CASE UNCHANGED vars
    <3> USE <2>1 DEF vars, mppVars, portVars, confVars, pipeVars, inVars, decoderVars, outVars,
                     writerVars
    <3>1. Places' /\ Rest' = Rest /\ Task' \subseteq Task
      BY DEF OrderInv, Places, Rest, Task
    <3>2. UNCHANGED <<mpp_in, mpp_out, good, written, buffer, outq, out_mode, sent, jpeg>> /\ inq' = inq
      OBVIOUS
    <3> QED BY <3>1, <3>2, OrderQuiet
  <2>2. CASE Next
    BY <2>2, OrderConstruction, OrderSend, OrderMpp, OrderInput, OrderOutput, OrderProcess,
       OrderDown, OrderFetchBuffer, OrderWrite DEF Next, Decoder, Writer
  <2> QED BY <2>1, <2>2
<1> QED BY <1>1, InitOrder, Invariance, PTL DEF Spec

\* Write is given the frames in the order they were decoded, none twice, and
\* above a blocking input all of them, but perhaps one that carries the end of
\* file.
THEOREM FramesInOrder == Spec => []DecodedInOrder
<1>1. IInv /\ OrderInv => DecodedInOrder
  <2> SUFFICES ASSUME IInv, OrderInv
               PROVE  DecodedInOrder
    OBVIOUS
  <2>1. /\ Orders /\ Places /\ written \in Seq(Nat) /\ good \in Seq(Nat)
        /\ DOMAIN written = 1..Len(written) /\ DOMAIN good = 1..Len(good)
    BY DEF OrderInv, Places
  <2>2. ToSet(written) = Written /\ Decoded \subseteq ToSet(good)
    BY <2>1 DEF ToSet, Written, Decoded, Numbers, Orders
  <2>3. FrameChain(Written, InHand, InOutput, InList, InMpp, Decoded, out_mode)
    BY DEF OrderInv
  <2>4. \A i, j \in DOMAIN written : i < j => written[i] < written[j]
    BY <2>1 DEF Orders, Ascending
  <2>5. ASSUME out_mode = "BLOCKING"
        PROVE  /\ Decoded \ Flagged \subseteq Written \cup Frames(OnTheWay) /\ InOrder(OnTheWay)
               /\ Frames(OnTheWay) \subseteq Decoded
               /\ Below(Written, Frames(OnTheWay))
    <3>1. /\ <<buffer>> \in Seq(Images) /\ outq \in Seq(Images) /\ Rest \in Seq(Images)
          /\ FromMpp \in Seq(Images) /\ InOrder(<<buffer>>)
      BY OrderTypes, FramesOne
    <3>2. /\ Below(InHand, InOutput) /\ Below(InHand \cup InOutput, InList)
          /\ Below(InHand \cup InOutput \cup InList, InMpp)
      BY <2>3, <2>5 DEF FrameChain, Below
    <3> DEFINE s == <<buffer>> \o outq
               t == s \o Rest
    <3>3. s \in Seq(Images) /\ Frames(s) = InHand \cup InOutput /\ InOrder(s)
      BY <2>1, <3>1, <3>2, FramesConcat, ConcatProperties DEF InHand, InOutput, Orders
    <3> HIDE DEF s
    <3>4. t \in Seq(Images) /\ Frames(t) = InHand \cup InOutput \cup InList /\ InOrder(t)
      BY <2>1, <3>1, <3>2, <3>3, FramesConcat, ConcatProperties DEF InList, Orders
    <3> HIDE DEF t
    <3>5. /\ Frames(t \o FromMpp) = InHand \cup InOutput \cup InList \cup InMpp
          /\ InOrder(t \o FromMpp)
      BY <2>1, <3>1, <3>2, <3>4, FramesConcat DEF InMpp, Orders
    <3>6. OnTheWay = t \o FromMpp
      BY DEF OnTheWay, s, t, Rest, FromMpp
    <3>7. Frames(OnTheWay) = InHand \cup InOutput \cup InList \cup InMpp /\ InOrder(OnTheWay)
      BY <3>5, <3>6
    <3>8. /\ Decoded \ Flagged \subseteq Written \cup Frames(OnTheWay)
          /\ Frames(OnTheWay) \subseteq Decoded
      BY <2>3, <2>5, <3>7 DEF FrameChain
    <3>9. Below(Written, Frames(OnTheWay))
      BY <2>3, <2>5, <3>7 DEF FrameChain, Below
    <3> QED BY <3>7, <3>8, <3>9
  <2>6. ToSet(good) = Decoded
    BY <2>1, <2>2 DEF ToSet, Decoded, Numbers, Places
  <2>7. ToSet(written) \subseteq ToSet(good)
    BY <2>2, <2>3 DEF FrameChain
  <2> QED BY <2>2, <2>4, <2>5, <2>6, <2>7 DEF DecodedInOrder, Below
<1> QED BY <1>1, OrderInvariance, Invariance, PTL

-----------------------------------------------------------------------------
(* What Among leaves, by induction over the length of the sequence: a      *)
(* length for which it fails would have a least one.                       *)

\* A set of naturals has a least one.
LEMMA Least ==
  ASSUME NEW T, T \subseteq Nat, T # {}
  PROVE  \E x \in T : \A y \in T : x <= y
<1>1. PICK x \in T : \A y \in T : ~ (<<y, x>> \in OpToRel(<, Nat))
  BY NatLessThanWellFounded, WFMin
<1>2. \A y \in T : ~ (y < x)
  BY <1>1 DEF OpToRel
<1> QED BY <1>2

\* The recursion of Among up to m.
Chosen(S, s, f, m) ==
  f = [n \in 0..m |-> IF n = 0 THEN <<>>
                      ELSE IF s[n] \in S THEN Append(f[n - 1], s[n]) ELSE f[n - 1]]

\* There is a function that satisfies it.
LEMMA ChosenExists ==
  ASSUME NEW S, NEW X, NEW s \in Seq(X)
  PROVE  \E f : Chosen(S, s, f, Len(s))
<1> DEFINE T == {m \in 0..Len(s) : ~\E f : Chosen(S, s, f, m)}
<1>0. Len(s) \in Nat /\ T \subseteq Nat /\ Len(s) \in 0..Len(s)
  OBVIOUS
<1>1. SUFFICES ASSUME T # {}
               PROVE  FALSE
  BY <1>0
<1>2. PICK m \in T : \A k \in T : m <= k
  <2> HIDE DEF T
  <2> QED BY <1>0, <1>1, Least
<1>3. \E f : Chosen(S, s, f, 0)
  <2> DEFINE g == [n \in 0..0 |-> <<>>]
  <2>1. g = [n \in 0..0 |-> IF n = 0 THEN <<>>
                            ELSE IF s[n] \in S THEN Append(g[n - 1], s[n]) ELSE g[n - 1]]
    OBVIOUS
  <2>2. Chosen(S, s, g, 0)
    BY <2>1 DEF Chosen
  <2> QED BY <2>2
<1>4. m # 0 /\ m - 1 \in 0..Len(s) /\ m \in Nat /\ m - 1 \notin T
  BY <1>0, <1>2, <1>3
<1>5. PICK f : Chosen(S, s, f, m - 1)
  BY <1>4
<1> DEFINE g == [n \in 0..m |-> IF n < m THEN f[n]
                                ELSE IF s[n] \in S THEN Append(f[n - 1], s[n]) ELSE f[n - 1]]
<1>6. Chosen(S, s, g, m)
  <2>1. \A n \in 0..m : n # m => n \in 0..(m - 1) /\ n < m
    BY <1>4
  <2>2. \A n \in 0..(m - 1) :
          f[n] = IF n = 0 THEN <<>>
                 ELSE IF s[n] \in S THEN Append(f[n - 1], s[n]) ELSE f[n - 1]
    BY <1>5 DEF Chosen
  <2>3. \A n \in 0..m : n # 0 => n - 1 \in 0..m /\ n - 1 < m /\ g[n - 1] = f[n - 1]
    BY <1>4
  <2>4. \A n \in 0..m : g[n] = IF n = 0 THEN <<>>
                               ELSE IF s[n] \in S THEN Append(g[n - 1], s[n]) ELSE g[n - 1]
    <3> SUFFICES ASSUME NEW n \in 0..m
                 PROVE  g[n] = IF n = 0 THEN <<>>
                               ELSE IF s[n] \in S THEN Append(g[n - 1], s[n]) ELSE g[n - 1]
      OBVIOUS
    <3>1. CASE n < m
      <4>1. g[n] = f[n]
        BY <3>1
      <4>2. n # 0 => g[n - 1] = f[n - 1]
        BY <2>3
      <4>3. f[n] = IF n = 0 THEN <<>>
                   ELSE IF s[n] \in S THEN Append(f[n - 1], s[n]) ELSE f[n - 1]
        <5> HIDE DEF g
        <5> QED BY <2>1, <2>2, <3>1, <1>4
      <4> HIDE DEF g
      <4> QED BY <4>1, <4>2, <4>3
    <3>2. CASE n = m
      <4>1. g[m] = IF s[m] \in S THEN Append(f[m - 1], s[m]) ELSE f[m - 1]
        BY <1>4
      <4>2. g[m - 1] = f[m - 1]
        BY <1>4, <2>3
      <4> HIDE DEF g
      <4> QED BY <1>4, <3>2, <4>1, <4>2
    <3> QED BY <1>4, <3>1, <3>2
  <2>5. g = [n \in 0..m |-> g[n]]
    OBVIOUS
  <2> HIDE DEF g
  <2> QED BY <2>4, <2>5 DEF Chosen
<1> QED BY <1>2, <1>6

\* The elements that are left are in the set and among those there were.
LEMMA AmongOnes ==
  ASSUME NEW S, NEW X, NEW s \in Seq(X)
  PROVE  Among(S, s) \in Seq(X \cap S)
<1> DEFINE f == CHOOSE f : Chosen(S, s, f, Len(s))
<1>1. Chosen(S, s, f, Len(s))
  BY ChosenExists
<1>2. Among(S, s) = f[Len(s)]
  BY DEF Among, Chosen
<1> HIDE DEF f
<1> DEFINE T == {n \in 0..Len(s) : f[n] \notin Seq(X \cap S)}
<1>3. Len(s) \in Nat /\ T \subseteq Nat /\ Len(s) \in 0..Len(s)
  OBVIOUS
<1>4. SUFFICES ASSUME T # {}
               PROVE  FALSE
  BY <1>2, <1>3
<1>5. PICK m \in T : \A k \in T : m <= k
  <2> HIDE DEF T
  <2> QED BY <1>3, <1>4, Least
<1>6. f[m] = IF m = 0 THEN <<>>
             ELSE IF s[m] \in S THEN Append(f[m - 1], s[m]) ELSE f[m - 1]
  BY <1>1, <1>5 DEF Chosen
<1>7. m # 0 /\ m - 1 \in 0..Len(s) /\ m \in 1..Len(s)
  <2>1. m \in 0..Len(s) /\ f[m] \notin Seq(X \cap S) /\ <<>> \in Seq(X \cap S)
    BY <1>5
  <2> QED BY <1>3, <1>6, <2>1
<1>8. f[m - 1] \in Seq(X \cap S)
  BY <1>5, <1>7
<1>9. s[m] \in X
  BY <1>7
<1>10. f[m] \in Seq(X \cap S)
  BY <1>6, <1>7, <1>8, <1>9
<1> QED BY <1>5, <1>10

-----------------------------------------------------------------------------
(* The ids that go together: a third invariant, of Open alone.             *)

\* The steps of Open that come after the ids are narrowed by the planes to skip,
\* the refresh rate, the format and the type.
AfterAgree  == {"mode", "set_crtc", "properties", "source", "destination", "open", "blind"}
AfterType   == {"size", "agree"} \cup AfterAgree
AfterFormat == {"type"} \cup AfterType
AfterFps    == {"format"} \cup AfterFormat
AfterSkip   == {"fps"} \cup AfterFps

\* What the connectors and the planes that are left fit.
FitConnectors ==
  {c \in ToSet(board.connectors) :
     opening \in AfterFps /\ want.fps # 0 => c \in HasFps(board, want.fps)}

FitPlanes ==
  {p \in ToSet(board.planes) :
     /\ opening \in AfterSkip => p \notin want.skip
     /\ opening \in AfterFormat => p \in HasFormat(board, want.format)
     /\ opening \in AfterType /\ want.type # "" => p \in HasType(board, want.type)}

\* Arrays of connectors and of planes, these with 0 where an id was removed.
Within(r, C, P) ==
  /\ IsIds(r)
  /\ r.connectors \in Seq(C) /\ r.encoders \in Seq(Nat) /\ r.planes \in Seq(P \cup {0})

FitInv ==
  /\ board \in Boards
  /\ opening \notin {"failed", "crashed"} => Within(ids, FitConnectors, FitPlanes)
  /\ opening \notin AfterAgree \cup {"failed", "crashed"} => chosen = NoSet
  /\ Compatible

\* What fits less fits more; an array with nothing removed has as many ids.
LEMMA WithinMore ==
  ASSUME NEW r, NEW C, NEW P, Within(r, C, P), NEW C2, NEW P2, C \subseteq C2, P \subseteq P2
  PROVE  Within(r, C2, P2)
<1>1. \A X, Y, s : X \subseteq Y /\ s \in Seq(X) => s \in Seq(Y)
  OBVIOUS
<1>2. P \cup {0} \subseteq P2 \cup {0}
  OBVIOUS
<1> QED BY <1>1, <1>2 DEF Within

\* Another array for one type of ids, another result, an array counted wrong.
LEMMA WithinExcept ==
  ASSUME NEW r, NEW C, NEW P, Within(r, C, P), NEW s
  PROVE  /\ \A C2 : s \in Seq(C2) => Within([r EXCEPT !.connectors = s], C2, P)
         /\ s \in Seq(Nat) => Within([r EXCEPT !.encoders = s], C, P)
         /\ Within([r EXCEPT !.crtcs = s], C, P)
         /\ \A P2 : s \in Seq(P2 \cup {0}) => Within([r EXCEPT !.planes = s], C, P2)
         /\ Within(Fail(r), C, P) /\ Within(Crash(r), C, P) /\ Within(FailIfNone(r, s), C, P)
<1> DEFINE Ids(o, c, e, k, p) ==
             [ok |-> o, connectors |-> c, encoders |-> e, crtcs |-> k, planes |-> p]
<1>1. \A o, c, e, k, p, C2, P2 :
        o \in OkValues /\ c \in Seq(C2) /\ e \in Seq(Nat) /\ p \in Seq(P2 \cup {0}) =>
          Within(Ids(o, c, e, k, p), C2, P2)
  BY DEF Within, IsIds
<1>2. /\ r = Ids(r.ok, r.connectors, r.encoders, r.crtcs, r.planes) /\ r.ok \in OkValues
      /\ r.connectors \in Seq(C) /\ r.encoders \in Seq(Nat) /\ r.planes \in Seq(P \cup {0})
  BY DEF Within, IsIds
<1>3. /\ [r EXCEPT !.connectors = s] = Ids(r.ok, s, r.encoders, r.crtcs, r.planes)
      /\ [r EXCEPT !.encoders = s] = Ids(r.ok, r.connectors, s, r.crtcs, r.planes)
      /\ [r EXCEPT !.crtcs = s] = Ids(r.ok, r.connectors, r.encoders, s, r.planes)
      /\ [r EXCEPT !.planes = s] = Ids(r.ok, r.connectors, r.encoders, r.crtcs, s)
  BY <1>2
<1>4. /\ Fail(r) = Ids("false", r.connectors, r.encoders, r.crtcs, r.planes)
      /\ Crash(r) = Ids("crash", r.connectors, r.encoders, r.crtcs, r.planes)
  <2>1. \A o : [r EXCEPT !.ok = o] = Ids(o, r.connectors, r.encoders, r.crtcs, r.planes)
    BY <1>2
  <2> HIDE DEF Ids
  <2> QED BY <2>1, Zenon DEF Fail, Crash
<1>5. "false" \in OkValues /\ "crash" \in OkValues
  BY DEF OkValues
<1> HIDE DEF Ids
<1>6. Within(Fail(r), C, P) /\ Within(Crash(r), C, P)
  BY <1>1, <1>2, <1>4, <1>5
<1>7. Within(FailIfNone(r, s), C, P)
  BY <1>6 DEF FailIfNone
<1>8. /\ \A C2 : s \in Seq(C2) => Within([r EXCEPT !.connectors = s], C2, P)
      /\ Within([r EXCEPT !.crtcs = s], C, P)
  BY <1>1, <1>2, <1>3
<1>9. s \in Seq(Nat) => Within([r EXCEPT !.encoders = s], C, P)
  BY <1>1, <1>2, <1>3
<1>10. \A P2 : s \in Seq(P2 \cup {0}) => Within([r EXCEPT !.planes = s], C, P2)
  BY <1>1, <1>2, <1>3
<1> QED BY <1>6, <1>7, <1>8, <1>9, <1>10

\* One step of narrowing the connectors or the planes: either it crashes, or
\* those that are left fit.
LEMMA KeepFits ==
  ASSUME NEW r, NEW C, NEW P, Within(r, C, P), NEW kept
  PROVE  /\ \/ KeepConnectors(r, kept) = Crash(r)
            \/ Within(KeepConnectors(r, kept), C \cap kept, P)
         /\ \/ KeepPlanes(r, kept) = Crash(r)
            \/ Within(KeepPlanes(r, kept), C, P \cap kept)
         /\ Within(KeepConnectors(r, kept), C, P) /\ Within(KeepPlanes(r, kept), C, P)
<1> DEFINE c == Among(kept, r.connectors)
           p == Among(kept, r.planes)
<1>1. c \in Seq(C \cap kept) /\ p \in Seq((P \cup {0}) \cap kept)
  BY AmongOnes DEF Within
<1>2. p \in Seq((P \cap kept) \cup {0})
  BY <1>1
<1>3. KeepConnectors(r, kept) \in {Crash(r), [r EXCEPT !.connectors = c]}
  BY DEF KeepConnectors
<1>4. KeepPlanes(r, kept) \in {Crash(r), [r EXCEPT !.planes = p]}
  BY DEF KeepPlanes
<1> HIDE DEF c, p
<1>5. Within([r EXCEPT !.connectors = c], C \cap kept, P)
  BY <1>1, WithinExcept
<1>6. Within([r EXCEPT !.planes = p], C, P \cap kept)
  BY <1>2, WithinExcept
<1>7. Within([r EXCEPT !.connectors = c], C, P) /\ Within([r EXCEPT !.planes = p], C, P)
  <2>1. C \cap kept \subseteq C /\ P \cap kept \subseteq P
    OBVIOUS
  <2> QED BY <1>5, <1>6, <2>1, WithinMore
<1>8. Within(Crash(r), C, P)
  BY WithinExcept
<1> QED BY <1>3, <1>4, <1>5, <1>6, <1>7, <1>8

\* The other steps leave connectors and planes that were there, and zeros.
LEMMA NarrowFits ==
  ASSUME NEW b, NEW r, NEW C, NEW P, Within(r, C, P)
  PROVE  /\ Within(ConnectorsByEncoders(b, r), C, P)
         /\ Within(EncodersByCrtcs(b, r), C, P)
         /\ \A possible : Within(CrtcsByPossible(r, possible), C, P)
         /\ Within(PlanesByCrtcs(b, r), C, P)
<1>1. Within(ConnectorsByEncoders(b, r), C, P) /\ Within(PlanesByCrtcs(b, r), C, P)
  BY KeepFits DEF ConnectorsByEncoders, PlanesByCrtcs
<1>2. \A possible : Within(CrtcsByPossible(r, possible), C, P)
  BY WithinExcept DEF CrtcsByPossible
<1>3. Within(EncodersByCrtcs(b, r), C, P)
  <2>1. CASE Hole(r.encoders)
    BY <2>1, WithinExcept DEF EncodersByCrtcs
  <2>2. CASE ~Hole(r.encoders)
    <3> DEFINE S    == {e \in ToSet(r.encoders) : b.encoder[e].crtcs \cap ToSet(r.crtcs) # {}}
               kept == Among(S, r.encoders)
               e2   == WithCount(kept, Len(r.encoders))
               p2   == WithCount(r.planes, Len(kept))
    <3>1. EncodersByCrtcs(b, r) = [r EXCEPT !.encoders = e2, !.planes = p2]
      BY <2>2, Zenon DEF EncodersByCrtcs
    <3> HIDE DEF S
    <3>2. kept \in Seq(Nat \cap S) /\ Len(kept) \in Nat /\ Len(r.encoders) \in Nat
      <4>1. kept \in Seq(Nat \cap S)
        BY AmongOnes DEF Within
      <4> QED BY <4>1 DEF Within
    <3> HIDE DEF kept
    <3>3. e2 \in Seq(Nat)
      <4>1. \A i \in 1..Len(r.encoders) : (IF i <= Len(kept) THEN kept[i] ELSE 0) \in Nat
        BY <3>2
      <4> QED BY <3>2, <4>1 DEF WithCount
    <3>4. p2 \in Seq(P \cup {0})
      <4>1. \A i \in 1..Len(kept) :
              (IF i <= Len(r.planes) THEN r.planes[i] ELSE 0) \in P \cup {0}
        BY <3>2 DEF Within
      <4> QED BY <3>2, <4>1 DEF WithCount
    <3> HIDE DEF e2, p2
    <3> QED BY <3>1, <3>3, <3>4 DEF Within, IsIds
  <2> QED BY <2>1, <2>2
<1> QED BY <1>1, <1>2, <1>3

\* So does a change that is passed on to the other types of ids.
LEMMA PassedOnFits ==
  ASSUME NEW b, NEW r, NEW C, NEW P, Within(r, C, P)
  PROVE  /\ Within(FromEncoders(b, r), C, P) /\ Within(FromConnectors(b, r), C, P)
         /\ Within(FromPlanes(b, r), C, P)
<1>1. ASSUME NEW q, Within(q, C, P)
      PROVE  Within(FromEncoders(b, q), C, P)
  <2> DEFINE narrowed == CrtcsByPossible(q, CrtcsOfEncoders(b, q))
             planes   == PlanesByCrtcs(b, narrowed)
  <2>1. Within(narrowed, C, P)
    BY <1>1, NarrowFits
  <2>2. Within(planes, C, P)
    BY <2>1, NarrowFits
  <2>3. FromEncoders(b, q) \in
          {Crash(q), Fail(narrowed), q, planes, FailIfNone(planes, planes.planes)}
    BY DEF FromEncoders
  <2> HIDE DEF narrowed, planes
  <2>4. /\ Within(Crash(q), C, P) /\ Within(Fail(narrowed), C, P)
        /\ Within(FailIfNone(planes, planes.planes), C, P)
    BY <1>1, <2>1, <2>2, WithinExcept
  <2> QED BY <1>1, <2>1, <2>2, <2>3, <2>4
<1>2. Within(FromConnectors(b, r), C, P)
  <2> DEFINE union == EncodersOfConnectors(b, r)
             kept  == EncodersByUnion(r, union)
             q     == [r EXCEPT !.encoders = kept]
  <2>1. Within(q, C, P)
    <3>1. kept \in Seq(Nat \cap (ToSet(union) \cup {0}))
      BY AmongOnes DEF Within, EncodersByUnion
    <3> HIDE DEF kept
    <3>2. kept \in Seq(Nat)
      BY <3>1
    <3> QED BY <3>2, WithinExcept
  <2>2. FromConnectors(b, r) \in {Crash(r), Fail(r), r, FromEncoders(b, q)}
    BY DEF FromConnectors
  <2> HIDE DEF q
  <2> QED BY <1>1, <2>1, <2>2, WithinExcept
<1>3. Within(FromPlanes(b, r), C, P)
  <2> DEFINE narrowed == CrtcsByPossible(r, CrtcsOfPlanes(b, r))
             encoders == EncodersByCrtcs(b, narrowed)
  <2>1. Within(narrowed, C, P)
    BY NarrowFits
  <2>2. Within(encoders, C, P)
    BY <2>1, NarrowFits
  <2>3. FromPlanes(b, r) \in
          {Crash(r), Fail(narrowed), r, encoders, FailIfNone(encoders, encoders.encoders)}
    BY DEF FromPlanes
  <2> HIDE DEF narrowed, encoders
  <2>4. /\ Within(Crash(r), C, P) /\ Within(Fail(narrowed), C, P)
        /\ Within(FailIfNone(encoders, encoders.encoders), C, P)
    BY <2>1, <2>2, WithinExcept
  <2> QED BY <2>1, <2>2, <2>3, <2>4
<1> QED BY <1>1, <1>2, <1>3

\* What the user asks for leaves an id that was there.
LEMMA ReserveFits ==
  ASSUME NEW b, NEW r, NEW C, NEW P, Within(r, C, P), NEW id
  PROVE  /\ Within(ReserveConnector(b, r, id), C, P) /\ Within(ReserveEncoder(b, r, id), C, P)
         /\ Within(ReserveCrtc(b, r, id), C, P) /\ Within(ReservePlane(b, r, id), C, P)
<1>1. \A X, s : s \in Seq(X) /\ id \in ToSet(s) => RemoveElementExcept(s, id) \in Seq(X)
  <2> SUFFICES ASSUME NEW X, NEW s \in Seq(X), id \in ToSet(s)
               PROVE  <<s[1]>> \in Seq(X)
    BY DEF RemoveElementExcept
  <2>1. 1 \in DOMAIN s /\ DOMAIN s = 1..Len(s)
    BY DEF ToSet
  <2>2. s[1] \in X
    BY <2>1
  <2> QED BY <2>2
<1>2. Within(ReserveConnector(b, r, id), C, P)
  <2> DEFINE s == RemoveElementExcept(r.connectors, id)
             q == [r EXCEPT !.connectors = s]
  <2>1. id \in ToSet(r.connectors) => Within(q, C, P)
    <3>1. id \in ToSet(r.connectors) => s \in Seq(C)
      BY <1>1 DEF Within
    <3> HIDE DEF s
    <3> QED BY <3>1, WithinExcept
  <2>2. ReserveConnector(b, r, id) =
          IF id \notin ToSet(r.connectors) THEN Fail(r) ELSE FromConnectors(b, q)
    BY DEF ReserveConnector
  <2> HIDE DEF q
  <2>3. Within(Fail(r), C, P)
    BY WithinExcept
  <2>4. id \in ToSet(r.connectors) => Within(FromConnectors(b, q), C, P)
    BY <2>1, PassedOnFits
  <2> QED BY <2>2, <2>3, <2>4
<1>3. Within(ReserveEncoder(b, r, id), C, P)
  <2> DEFINE s        == RemoveElementExcept(r.encoders, id)
             q        == [r EXCEPT !.encoders = s]
             narrowed == ConnectorsByEncoders(b, q)
  <2>1. id \in ToSet(r.encoders) => Within(q, C, P)
    <3>1. id \in ToSet(r.encoders) => s \in Seq(Nat)
      BY <1>1 DEF Within
    <3> HIDE DEF s
    <3> QED BY <3>1, WithinExcept
  <2>2. id \in ToSet(r.encoders) => Within(narrowed, C, P)
    <3> HIDE DEF q
    <3> QED BY <2>1, NarrowFits
  <2>3. \/ id \notin ToSet(r.encoders) /\ ReserveEncoder(b, r, id) = Fail(r)
        \/ /\ id \in ToSet(r.encoders)
           /\ ReserveEncoder(b, r, id) \in {narrowed, Fail(narrowed), FromEncoders(b, narrowed)}
    BY DEF ReserveEncoder
  <2> HIDE DEF narrowed
  <2>4. Within(Fail(r), C, P)
    BY WithinExcept
  <2>5. id \in ToSet(r.encoders) =>
          Within(Fail(narrowed), C, P) /\ Within(FromEncoders(b, narrowed), C, P)
    BY <2>2, WithinExcept, PassedOnFits
  <2> QED BY <2>2, <2>3, <2>4, <2>5
<1>4. Within(ReserveCrtc(b, r, id), C, P)
  <2> DEFINE s == RemoveElementExcept(r.crtcs, id)
             q == [r EXCEPT !.crtcs = s]
  <2>1. Within(q, C, P)
    <3> HIDE DEF s
    <3> QED BY WithinExcept
  <2>2. ReserveCrtc(b, r, id) \in {Fail(r), EncodersByCrtcs(b, q)}
    BY DEF ReserveCrtc
  <2> HIDE DEF q
  <2>3. Within(Fail(r), C, P) /\ Within(EncodersByCrtcs(b, q), C, P)
    BY <2>1, WithinExcept, NarrowFits
  <2> QED BY <2>2, <2>3
<1>5. Within(ReservePlane(b, r, id), C, P)
  <2> DEFINE s == RemoveElementExcept(r.planes, id)
             q == [r EXCEPT !.planes = s]
  <2>1. id \in ToSet(r.planes) => Within(q, C, P)
    <3>1. id \in ToSet(r.planes) => s \in Seq(P \cup {0})
      BY <1>1 DEF Within
    <3> HIDE DEF s
    <3> QED BY <3>1, WithinExcept
  <2>2. ReservePlane(b, r, id) =
          IF id \notin ToSet(r.planes) THEN Fail(r) ELSE FromPlanes(b, q)
    BY DEF ReservePlane
  <2> HIDE DEF q
  <2>3. Within(Fail(r), C, P)
    BY WithinExcept
  <2>4. id \in ToSet(r.planes) => Within(FromPlanes(b, q), C, P)
    BY <2>1, PassedOnFits
  <2> QED BY <2>2, <2>3, <2>4
<1> QED BY <1>2, <1>3, <1>4, <1>5

\* When a condition on connectors or planes does not fail, those that are left
\* satisfy it.
LEMMA ConditionFits ==
  ASSUME NEW b, NEW r, NEW C, NEW P, Within(r, C, P), NEW kept
  PROVE  /\ ByConnectorCondition(b, r, kept).ok = "true" =>
              Within(ByConnectorCondition(b, r, kept), C \cap kept, P)
         /\ ByPlaneCondition(b, r, kept).ok = "true" =>
              Within(ByPlaneCondition(b, r, kept), C, P \cap kept)
<1>1. ASSUME NEW q, Within(q, C, P)
      PROVE  Crash(q).ok = "crash" /\ Fail(q).ok = "false"
  BY <1>1 DEF Within, IsIds, Crash, Fail
<1>2. ASSUME ByConnectorCondition(b, r, kept).ok = "true"
      PROVE  Within(ByConnectorCondition(b, r, kept), C \cap kept, P)
  <2> DEFINE narrowed == KeepConnectors(r, kept)
  <2>1. \/ narrowed = Crash(r)
        \/ Within(narrowed, C \cap kept, P)
    BY KeepFits
  <2>2. ByConnectorCondition(b, r, kept) =
          IF narrowed.ok = "crash" THEN narrowed
          ELSE IF narrowed.connectors = <<>> THEN Fail(narrowed)
          ELSE IF narrowed.connectors = r.connectors THEN r
          ELSE FromConnectors(b, narrowed)
    BY DEF ByConnectorCondition
  <2> HIDE DEF narrowed
  <2>3. CASE narrowed = Crash(r)
    BY <1>1, <1>2, <2>2, <2>3
  <2>4. CASE Within(narrowed, C \cap kept, P)
    <3>1. /\ Within(Fail(narrowed), C \cap kept, P)
          /\ Within(FromConnectors(b, narrowed), C \cap kept, P)
      BY <2>4, WithinExcept, PassedOnFits
    <3>2. narrowed.connectors = r.connectors => Within(r, C \cap kept, P)
      BY <2>4 DEF Within
    <3> QED BY <2>2, <2>4, <3>1, <3>2
  <2> QED BY <2>1, <2>3, <2>4
<1>3. ASSUME ByPlaneCondition(b, r, kept).ok = "true"
      PROVE  Within(ByPlaneCondition(b, r, kept), C, P \cap kept)
  <2> DEFINE narrowed == KeepPlanes(r, kept)
  <2>1. \/ narrowed = Crash(r)
        \/ Within(narrowed, C, P \cap kept)
    BY KeepFits
  <2>2. ByPlaneCondition(b, r, kept) =
          IF narrowed.ok = "crash" \/ narrowed.planes = r.planes THEN narrowed
          ELSE FromPlanes(b, narrowed)
    BY DEF ByPlaneCondition
  <2> HIDE DEF narrowed
  <2>3. CASE narrowed = Crash(r)
    BY <1>1, <1>3, <2>2, <2>3
  <2>4. CASE Within(narrowed, C, P \cap kept)
    <3>1. Within(FromPlanes(b, narrowed), C, P \cap kept)
      BY <2>4, PassedOnFits
    <3> QED BY <2>2, <2>4, <3>1
  <2> QED BY <2>1, <2>3, <2>4
<1> QED BY <1>2, <1>3

\* The three conditions on planes.
LEMMA PlanesFit ==
  ASSUME NEW b, NEW r, NEW C, NEW P, Within(r, C, P), NEW x
  PROVE  /\ ByDataType(b, r, x).ok = "true" =>
              Within(ByDataType(b, r, x), C, P \cap HasFormat(b, x))
         /\ ByPlaneType(b, r, x).ok = "true" =>
              Within(ByPlaneType(b, r, x), C, P \cap HasType(b, x))
         /\ BySkipped(b, r, x).ok = "true" =>
              Within(BySkipped(b, r, x), C, P \cap (ToSet(b.planes) \ x))
<1> DEFINE q == FailIfNone(r, r.planes)
<1>1. Within(q, C, P)
  BY WithinExcept
<1>2. Fail(r).ok = "false"
  BY DEF Within, IsIds, Fail
<1>3. /\ ByDataType(b, r, x) \in {Fail(r), ByPlaneCondition(b, q, HasFormat(b, x))}
      /\ ByPlaneType(b, r, x) \in {Fail(r), ByPlaneCondition(b, q, HasType(b, x))}
      /\ BySkipped(b, r, x) = ByPlaneCondition(b, r, ToSet(b.planes) \ x)
  BY DEF ByDataType, ByPlaneType, BySkipped
<1> HIDE DEF q
<1>4. \A kept : ByPlaneCondition(b, q, kept).ok = "true" =>
                 Within(ByPlaneCondition(b, q, kept), C, P \cap kept)
  BY <1>1, ConditionFits
<1>5. \A kept : ByPlaneCondition(b, r, kept).ok = "true" =>
                 Within(ByPlaneCondition(b, r, kept), C, P \cap kept)
  BY ConditionFits
<1> QED BY <1>2, <1>3, <1>4, <1>5

\* A step of Open that narrows the ids keeps what fits, if it does not fail.
LEMMA OpenFits ==
  ASSUME FitInv, NEW from, NEW to, NEW result, Open(from, to, result), result.ok \in OkValues,
         from \notin AfterAgree \cup {"failed", "crashed"}, to \notin AfterAgree,
         result.ok = "true" /\ opening' = to => Within(result, FitConnectors', FitPlanes')
  PROVE  FitInv'
<1>1. /\ UNCHANGED <<board, chosen>> /\ chosen = NoSet /\ ids' = result
      /\ \/ opening' = to /\ result.ok = "true"
         \/ opening' \in {"failed", "crashed"}
  BY DEF Open, FitInv, OkValues
<1> QED BY <1>1 DEF FitInv, Compatible

\* The planes and the connectors that are left fit a little more after each step.
LEMMA FitSteps ==
  ASSUME UNCHANGED <<board, want>>
  PROVE  /\ opening \notin AfterSkip /\ opening' \notin AfterSkip =>
              FitConnectors' = FitConnectors /\ FitPlanes' = FitPlanes
         /\ opening = "skip" /\ opening' = "fps" =>
              FitConnectors' = FitConnectors /\ FitPlanes' = FitPlanes \ want.skip
         /\ opening = "fps" /\ opening' = "format" =>
              /\ FitConnectors' = IF want.fps = 0 THEN FitConnectors
                                  ELSE FitConnectors \cap HasFps(board, want.fps)
              /\ FitPlanes' = FitPlanes
         /\ opening = "format" /\ opening' = "type" =>
              /\ FitConnectors' = FitConnectors
              /\ FitPlanes' = FitPlanes \cap HasFormat(board, want.format)
         /\ opening = "type" /\ opening' = "size" =>
              /\ FitConnectors' = FitConnectors
              /\ FitPlanes' = IF want.type = "" THEN FitPlanes
                              ELSE FitPlanes \cap HasType(board, want.type)
         /\ opening \in AfterType /\ opening' \in AfterType =>
              FitConnectors' = FitConnectors /\ FitPlanes' = FitPlanes
<1> USE DEF AfterSkip, AfterFps, AfterFormat, AfterType, AfterAgree
<1>1. \A f : HasFps(board, f)' = HasFps(board, f) /\ HasFormat(board, f)' = HasFormat(board, f)
                /\ HasType(board, f)' = HasType(board, f)
  BY DEF HasFps, HasFormat, HasType
<1>2. /\ opening \notin AfterSkip /\ opening' \notin AfterSkip =>
           FitConnectors' = FitConnectors /\ FitPlanes' = FitPlanes
      /\ opening = "skip" /\ opening' = "fps" =>
           FitConnectors' = FitConnectors /\ FitPlanes' = FitPlanes \ want.skip
  BY <1>1 DEF FitConnectors, FitPlanes
<1>3. opening = "fps" /\ opening' = "format" =>
        /\ FitConnectors' = IF want.fps = 0 THEN FitConnectors
                            ELSE FitConnectors \cap HasFps(board, want.fps)
        /\ FitPlanes' = FitPlanes
  BY <1>1 DEF FitConnectors, FitPlanes
<1>4. opening = "format" /\ opening' = "type" =>
        /\ FitConnectors' = FitConnectors
        /\ FitPlanes' = FitPlanes \cap HasFormat(board, want.format)
  BY <1>1 DEF FitConnectors, FitPlanes
<1>5. opening = "type" /\ opening' = "size" =>
        /\ FitConnectors' = FitConnectors
        /\ FitPlanes' = IF want.type = "" THEN FitPlanes
                        ELSE FitPlanes \cap HasType(board, want.type)
  BY <1>1 DEF FitConnectors, FitPlanes
<1>6. opening \in AfterType /\ opening' \in AfterType =>
        FitConnectors' = FitConnectors /\ FitPlanes' = FitPlanes
  BY <1>1 DEF FitConnectors, FitPlanes
<1> QED BY <1>2, <1>3, <1>4, <1>5, <1>6

\* The connector GetAgreeableIDSet chooses is one it tries, the plane one of it.
LEMMA AgreeFits ==
  ASSUME NEW b \in Boards, NEW r, NEW C, NEW P, Within(r, C, P), C \subseteq ToSet(b.connectors),
         NEW size, WithPlane(b, r, size) # {}
  PROVE  LET s == AgreeableSet(b, r, size)
         IN /\ s.connector \in C /\ (size # 0 => s.connector \in HasSize(b, size))
            /\ s.plane \in P /\ s.plane # 0
            /\ s.crtc \in b.plane[s.plane].crtcs /\ b.plane[s.plane].crtc \in {0, s.crtc}
            /\ s.encoder \in ToSet(b.connector[s.connector].encoders)
            /\ b.encoder[s.encoder].crtc \in {0, s.crtc}
<1> DEFINE S == IF size = 0 THEN ToSet(r.connectors) ELSE HasSize(b, size)
           T == Tried(b, r, size)
           W == WithPlane(b, r, size)
           c == T[Min(W)]
           A == {p \in ToSet(r.planes) \ {0} : /\ CrtcOf(b, c) \in b.plane[p].crtcs
                                               /\ b.plane[p].crtc \in {0, CrtcOf(b, c)}}
           p == PlanesOf(b, r, c)[1]
<1>1. T \in Seq(C \cap S)
  BY AmongOnes DEF Within, Tried
<1>2. W = {i \in DOMAIN T : PlanesOf(b, r, T[i]) # <<>>} /\ W # {}
  BY DEF WithPlane
<1> HIDE DEF T, W
<1>3. W \subseteq Nat /\ DOMAIN T = 1..Len(T)
  BY <1>1, <1>2
<1>4. Min(W) \in W
  <2>1. \E x \in W : \A y \in W : x <= y
    BY <1>2, <1>3, Least
  <2> QED BY <2>1 DEF Min
<1>5. c \in C \cap S /\ PlanesOf(b, r, c) # <<>>
  BY <1>1, <1>2, <1>3, <1>4
<1> HIDE DEF c
<1>6. PlanesOf(b, r, c) \in Seq((P \cup {0}) \cap A)
  BY AmongOnes, Zenon DEF Within, PlanesOf
<1>7. p \in (P \cup {0}) \cap A
  <2>1. 1 \in 1..Len(PlanesOf(b, r, c))
    BY <1>5, <1>6
  <2> QED BY <1>6, <2>1
<1>8. /\ p \in P /\ p # 0 /\ CrtcOf(b, c) \in b.plane[p].crtcs
      /\ b.plane[p].crtc \in {0, CrtcOf(b, c)}
  BY <1>7
<1>9. /\ EncoderOf(b, c) \in ToSet(b.connector[c].encoders)
      /\ b.encoder[EncoderOf(b, c)].crtc \in Nat
  <2> DEFINE conn == b.connector[c]
  <2>1. /\ conn.encoders \in Seq(Nat \ {0}) /\ conn.encoders # <<>>
        /\ conn.encoder \in ToSet(conn.encoders) \cup {0}
        /\ \A e \in ToSet(conn.encoders) : b.encoder[e].crtc \in Nat
    BY <1>5, BoardsAssumption
  <2>2. EncoderOf(b, c) = IF conn.encoder > 0 THEN conn.encoder ELSE conn.encoders[1]
    BY DEF EncoderOf
  <2> HIDE DEF conn
  <2>3. conn.encoders[1] \in ToSet(conn.encoders)
    BY <2>1 DEF ToSet
  <2>4. EncoderOf(b, c) \in ToSet(conn.encoders)
    BY <2>1, <2>2, <2>3
  <2> QED BY <2>1, <2>4 DEF conn
<1>10. b.encoder[EncoderOf(b, c)].crtc \in {0, CrtcOf(b, c)}
  BY <1>9 DEF CrtcOf
<1>11. AgreeableSet(b, r, size) =
         [connector |-> c, encoder |-> EncoderOf(b, c), crtc |-> CrtcOf(b, c), plane |-> p,
          active |-> b.encoder[EncoderOf(b, c)].crtc = CrtcOf(b, c)]
  BY DEF AgreeableSet, c, T, W
<1>12. size # 0 => c \in HasSize(b, size)
  BY <1>5
<1> HIDE DEF p
<1> QED BY <1>5, <1>8, <1>9, <1>10, <1>11, <1>12

\* Every step of Open, and what leaves it alone.
LEMMA FitOpen ==
  ASSUME IInv, FitInv, OpenStep
  PROVE  FitInv'
<1> USE DEF AfterSkip, AfterFps, AfterFormat, AfterType, AfterAgree
<1> DEFINE C == FitConnectors
           P == FitPlanes
<1>1. IsIds(ids) /\ (opening \notin {"failed", "crashed"} => Within(ids, C, P))
  BY DEF IInv, DrmInv, FitInv
<1>2. ASSUME NEW from, NEW to, NEW result, Open(from, to, result)
      PROVE  UNCHANGED <<board, want>> /\ opening = from
  BY <1>2 DEF Open
<1>3. CASE OpenDevice
  <2>1. \/ Open("device", "connector", IF want.plane \in want.skip THEN Fail(ids) ELSE ids)
        \/ Open("device", "failed", Fail(ids))
    BY <1>3 DEF OpenDevice
  <2>2. opening = "device" /\ UNCHANGED <<board, want>>
    BY <1>2, <2>1
  <2>3. Fail(ids).ok = "false" /\ Fail(ids).ok \in OkValues /\ ids.ok \in OkValues
    BY <1>1 DEF IsIds, Fail, OkValues
  <2>4. opening' = "connector" => Within(ids, FitConnectors', FitPlanes')
    BY <1>1, <2>2, FitSteps
  <2>5. CASE Open("device", "failed", Fail(ids))
    BY <2>2, <2>3, <2>5, OpenFits
  <2>6. CASE Open("device", "connector", IF want.plane \in want.skip THEN Fail(ids) ELSE ids)
    <3> DEFINE result == IF want.plane \in want.skip THEN Fail(ids) ELSE ids
    <3>1. result.ok \in OkValues /\ (result.ok = "true" => result = ids)
      BY <2>3
    <3>2. Open("device", "connector", result)
      BY <2>6
    <3> HIDE DEF result
    <3> QED BY <2>2, <2>4, <3>1, <3>2, OpenFits
  <2> QED BY <2>1, <2>5, <2>6
<1>4. CASE OpenConnector
  <2> DEFINE result == IF want.connector = 0 THEN ByConnectorCondition(board, ids, Ready(board))
                       ELSE IF want.connector \in Ready(board)
                              THEN ReserveConnector(board, ids, want.connector)
                       ELSE Fail(ids)
  <2>1. Open("connector", "encoder", result)
    BY <1>4 DEF OpenConnector
  <2>2. opening = "connector" /\ UNCHANGED <<board, want>>
    BY <1>2, <2>1
  <2>3. Within(ids, C, P)
    BY <1>1, <2>2
  <2>4. ByConnectorCondition(board, ids, Ready(board)).ok = "true" =>
          Within(ByConnectorCondition(board, ids, Ready(board)), C, P)
    <3>1. C \cap Ready(board) \subseteq C
      OBVIOUS
    <3> QED BY <2>3, <3>1, ConditionFits, WithinMore
  <2>5. Within(ReserveConnector(board, ids, want.connector), C, P) /\ Within(Fail(ids), C, P)
    BY <2>3, ReserveFits, WithinExcept
  <2>6. result.ok = "true" => Within(result, C, P)
    BY <2>4, <2>5
  <2>7. result.ok \in OkValues
    BY <1>1, ConditionIds, ReserveIds, FailIds DEF IsIds
  <2> HIDE DEF result
  <2> QED BY <2>1, <2>2, <2>6, <2>7, FitSteps, OpenFits
<1>5. CASE OpenEncoder \/ OpenCrtc \/ OpenPlane
  <2> DEFINE e == IF want.encoder = 0 THEN ids ELSE ReserveEncoder(board, ids, want.encoder)
             k == IF want.crtc = 0 THEN ids ELSE ReserveCrtc(board, ids, want.crtc)
             q == IF want.plane = 0 THEN ids ELSE ReservePlane(board, ids, want.plane)
  <2>1. PICK from \in {"encoder", "crtc", "plane"}, to \in {"crtc", "plane", "skip"},
             result \in {e, k, q} : Open(from, to, result)
    BY <1>5 DEF OpenEncoder, OpenCrtc, OpenPlane
  <2>2. opening = from /\ UNCHANGED <<board, want>>
    BY <1>2, <2>1
  <2>3. Within(ids, C, P)
    BY <1>1, <2>1, <2>2
  <2>4. Within(e, C, P) /\ Within(k, C, P) /\ Within(q, C, P)
    BY <2>3, ReserveFits
  <2> HIDE DEF e, k, q
  <2>5. Within(result, C, P) /\ result.ok \in OkValues
    BY <2>1, <2>4 DEF Within, IsIds
  <2>6. opening' = to => FitConnectors' = C /\ FitPlanes' = P
    BY <2>1, <2>2, FitSteps
  <2> QED BY <2>1, <2>5, <2>6, OpenFits
<1>6. CASE OpenSkipped
  <2> DEFINE result == IF want.skip = {} THEN ids ELSE BySkipped(board, ids, want.skip)
  <2>1. Open("skip", "fps", result)
    BY <1>6 DEF OpenSkipped
  <2>2. opening = "skip" /\ UNCHANGED <<board, want>>
    BY <1>2, <2>1
  <2>3. Within(ids, C, P)
    BY <1>1, <2>2
  <2>4. P \cap (ToSet(board.planes) \ want.skip) = P \ want.skip
    BY DEF FitPlanes
  <2>5. result.ok = "true" => Within(result, C, P \ want.skip)
    <3>1. want.skip = {} => P \ want.skip = P
      OBVIOUS
    <3> HIDE DEF C, P
    <3>2. BySkipped(board, ids, want.skip).ok = "true" =>
            Within(BySkipped(board, ids, want.skip), C, P \cap (ToSet(board.planes) \ want.skip))
      BY <2>3, PlanesFit
    <3> QED BY <2>3, <2>4, <3>1, <3>2
  <2>6. result.ok \in OkValues
    BY <1>1, ConditionIds DEF IsIds
  <2>7. opening' = "fps" => FitConnectors' = C /\ FitPlanes' = P \ want.skip
    BY <2>2, FitSteps
  <2> HIDE DEF result, C, P
  <2> QED BY <2>1, <2>5, <2>6, <2>7, OpenFits
<1>7. CASE OpenFps
  <2> DEFINE result == IF want.fps = 0 THEN ids
                       ELSE ByConnectorCondition(board, ids, HasFps(board, want.fps))
             fit    == IF want.fps = 0 THEN C ELSE C \cap HasFps(board, want.fps)
  <2>1. Open("fps", "format", result)
    BY <1>7 DEF OpenFps
  <2>2. opening = "fps" /\ UNCHANGED <<board, want>>
    BY <1>2, <2>1
  <2>3. Within(ids, C, P)
    BY <1>1, <2>2
  <2>4. result.ok = "true" => Within(result, fit, P)
    BY <2>3, ConditionFits
  <2>5. result.ok \in OkValues
    BY <1>1, ConditionIds DEF IsIds
  <2>6. opening' = "format" => FitConnectors' = fit /\ FitPlanes' = P
    BY <2>2, FitSteps
  <2> HIDE DEF result, fit, C, P
  <2> QED BY <2>1, <2>4, <2>5, <2>6, OpenFits
<1>8. CASE OpenFormat
  <2> DEFINE result == ByDataType(board, ids, want.format)
  <2>1. Open("format", "type", result)
    BY <1>8 DEF OpenFormat
  <2>2. opening = "format" /\ UNCHANGED <<board, want>>
    BY <1>2, <2>1
  <2>3. Within(ids, C, P)
    BY <1>1, <2>2
  <2>4. result.ok = "true" => Within(result, C, P \cap HasFormat(board, want.format))
    BY <2>3, PlanesFit
  <2>5. result.ok \in OkValues
    BY <1>1, ConditionIds DEF IsIds
  <2>6. opening' = "type" =>
          FitConnectors' = C /\ FitPlanes' = P \cap HasFormat(board, want.format)
    BY <2>2, FitSteps
  <2> HIDE DEF result, C, P
  <2> QED BY <2>1, <2>4, <2>5, <2>6, OpenFits
<1>9. CASE OpenType
  <2> DEFINE result == IF want.type = "" THEN ids ELSE ByPlaneType(board, ids, want.type)
             fit    == IF want.type = "" THEN P ELSE P \cap HasType(board, want.type)
  <2>1. Open("type", "size", result)
    BY <1>9 DEF OpenType
  <2>2. opening = "type" /\ UNCHANGED <<board, want>>
    BY <1>2, <2>1
  <2>3. Within(ids, C, P)
    BY <1>1, <2>2
  <2>4. result.ok = "true" => Within(result, C, fit)
    BY <2>3, PlanesFit
  <2>5. result.ok \in OkValues
    BY <1>1, ConditionIds DEF IsIds
  <2>6. opening' = "size" => FitConnectors' = C /\ FitPlanes' = fit
    BY <2>2, FitSteps
  <2> HIDE DEF result, fit, C, P
  <2> QED BY <2>1, <2>4, <2>5, <2>6, OpenFits
<1>10. CASE OpenSize
  <2> DEFINE result == IF Matched = 0 THEN ids
                       ELSE ByConnectorCondition(board, ids, HasSize(board, want.size))
  <2>1. Open("size", "agree", result)
    BY <1>10 DEF OpenSize
  <2>2. opening = "size" /\ UNCHANGED <<board, want>>
    BY <1>2, <2>1
  <2>3. Within(ids, C, P)
    BY <1>1, <2>2
  <2>4. result.ok = "true" => Within(result, C, P)
    <3>1. C \cap HasSize(board, want.size) \subseteq C
      OBVIOUS
    <3> QED BY <2>3, <3>1, ConditionFits, WithinMore
  <2>5. result.ok \in OkValues
    BY <1>1, ConditionIds DEF IsIds
  <2>6. opening' = "agree" => FitConnectors' = C /\ FitPlanes' = P
    BY <2>2, FitSteps
  <2> HIDE DEF result, C, P
  <2> QED BY <2>1, <2>4, <2>5, <2>6, OpenFits
<1>11. CASE Agree
  <2>1. /\ opening = "agree" /\ UNCHANGED <<board, want, ids>>
        /\ \/ opening' \in {"crashed", "blind"} /\ chosen' = chosen
           \/ /\ opening' = "mode" /\ WithPlane(board, ids, Matched) # {}
              /\ chosen' = AgreeableSet(board, ids, Matched)
    BY <1>11 DEF Agree
  <2>2. Within(ids, C, P) /\ chosen = NoSet /\ board \in Boards
    BY <1>1, <2>1 DEF FitInv
  <2>3. opening' \in AfterType => FitConnectors' = C /\ FitPlanes' = P
    BY <2>1, FitSteps
  <2>4. opening' \notin {"failed", "crashed"} => Within(ids', FitConnectors', FitPlanes')
    BY <2>1, <2>2, <2>3
  <2>5. CASE chosen' = chosen
    BY <2>1, <2>2, <2>4, <2>5 DEF FitInv, Compatible
  <2>6. CASE opening' = "mode" /\ WithPlane(board, ids, Matched) # {}
             /\ chosen' = AgreeableSet(board, ids, Matched)
    <3>1. Matched' = Matched /\ (Matched # 0 => Matched = want.size)
      BY <2>1 DEF Matched, HasSize
    <3>2. C \subseteq ToSet(board.connectors)
      BY DEF FitConnectors
    <3>3. /\ chosen'.connector \in C
          /\ Matched # 0 => chosen'.connector \in HasSize(board, want.size)
          /\ chosen'.plane \in P
          /\ chosen'.crtc \in board.plane[chosen'.plane].crtcs
          /\ board.plane[chosen'.plane].crtc \in {0, chosen'.crtc}
          /\ chosen'.encoder \in ToSet(board.connector[chosen'.connector].encoders)
          /\ board.encoder[chosen'.encoder].crtc \in {0, chosen'.crtc}
      BY <2>2, <2>6, <3>1, <3>2, AgreeFits
    <3>4. want.fps # 0 => chosen'.connector \in HasFps(board, want.fps)
      BY <2>1, <3>3 DEF FitConnectors
    <3>5. /\ want.format \in board.plane[chosen'.plane].formats /\ chosen'.plane \notin want.skip
          /\ want.type # "" => board.plane[chosen'.plane].type = want.type
      BY <2>1, <3>3 DEF FitPlanes, HasFormat, HasType
    <3>6. HasFps(board, want.fps)' = HasFps(board, want.fps)
          /\ HasSize(board, want.size)' = HasSize(board, want.size)
      BY <2>1 DEF HasFps, HasSize
    <3>7. Compatible'
      BY <2>1, <3>1, <3>3, <3>4, <3>5, <3>6 DEF Compatible
    <3> QED BY <2>1, <2>2, <2>4, <2>6, <3>7 DEF FitInv
  <2> QED BY <2>1, <2>5, <2>6
<1>12. CASE AgreeMode \/ SetCrtc \/ GetProperties \/ OpenSource \/ OpenDestination
  <2>1. /\ UNCHANGED <<board, want, ids, chosen>> /\ opening \in AfterAgree
        /\ opening' \in AfterAgree \cup {"failed", "crashed"}
    BY <1>12 DEF AgreeMode, SetCrtc, GetProperties, OpenSource, OpenDestination
  <2>2. opening' \in AfterType => FitConnectors' = C /\ FitPlanes' = P
    BY <2>1, FitSteps
  <2>3. Compatible'
    BY <2>1 DEF FitInv, Compatible, Matched, HasFps, HasSize
  <2> QED BY <1>1, <2>1, <2>2, <2>3 DEF FitInv
<1> QED BY <1>3, <1>4, <1>5, <1>6, <1>7, <1>8, <1>9, <1>10, <1>11, <1>12 DEF OpenStep

\* Nothing but Open changes what it depends on.
LEMMA FitUnchanged ==
  ASSUME FitInv, UNCHANGED openVars
  PROVE  FitInv'
<1>1. UNCHANGED <<board, want, opening, ids, chosen>>
  BY DEF openVars
<1>2. UNCHANGED <<FitConnectors, FitPlanes>>
  BY <1>1 DEF FitConnectors, FitPlanes, HasFps, HasFormat, HasType
<1>3. Compatible'
  BY <1>1 DEF FitInv, Compatible, Matched, HasFps, HasSize
<1> QED BY <1>1, <1>2, <1>3 DEF FitInv

\* Every id is there before any was narrowed.
LEMMA InitFit == Init => FitInv
<1> SUFFICES ASSUME Init
             PROVE  FitInv
  OBVIOUS
<1>1. /\ board \in Boards /\ opening = "device" /\ ids = AllIds(board) /\ chosen = NoSet
  BY DEF Init, DrmInit
<1>2. /\ board.connectors \in Seq(Nat \ {0}) /\ board.encoders \in Seq(Nat \ {0})
      /\ board.planes \in Seq(Nat \ {0})
  BY <1>1, BoardsAssumption
<1>3. FitConnectors = ToSet(board.connectors) /\ FitPlanes = ToSet(board.planes)
  BY <1>1 DEF FitConnectors, FitPlanes, AfterSkip, AfterFps, AfterFormat, AfterType, AfterAgree
<1>4. \A s : s \in Seq(Nat \ {0}) =>
               s \in Seq(ToSet(s)) /\ s \in Seq(Nat) /\ s \in Seq(ToSet(s) \cup {0})
  BY DEF ToSet
<1>5. Within(ids, FitConnectors, FitPlanes)
  BY <1>1, <1>2, <1>3, <1>4 DEF Within, IsIds, AllIds, OkValues
<1> QED BY <1>1, <1>5 DEF FitInv, Compatible, AfterAgree

\* What fits, in every reachable state.
THEOREM FitInvariance == Spec => []FitInv
<1>1. IInv /\ FitInv /\ [Next]_vars => FitInv'
  <2> SUFFICES ASSUME IInv, FitInv, [Next]_vars
               PROVE  FitInv'
    OBVIOUS
  <2>1. OpenStep \/ UNCHANGED openVars
    <3>1. CASE Construction
      <4>1. OpenStream => OpenStep
        BY DEF OpenStream
      <4>2. InstallOutput \/ ConstructDecoder \/ InstallDecoder => UNCHANGED drmVars
        BY DEF InstallOutput, ConstructDecoder, InstallDecoder, pipeVars
      <4> QED BY <3>1, <4>1, <4>2 DEF Construction, drmVars
    <3>2. CASE SendPacket
      BY <3>2 DEF SendPacket, drmVars
    <3>3. CASE Control
      BY <3>3 DEF Control, IoCtrl
    <3>4. CASE Decoder
      BY <3>4 DEF Decoder, Fetch, Send, Output, ProcessSync, SendNullDown, SendDown, drmVars
    <3>5. CASE Writer
      BY <3>5 DEF Writer, FetchBuffer, SendBuffer, Write, drmVars
    <3>6. CASE Mpp
      BY <3>6 DEF Mpp, drmVars
    <3>7. CASE UNCHANGED vars
      BY <3>7 DEF vars, drmVars
    <3> QED BY <3>1, <3>2, <3>3, <3>4, <3>5, <3>6, <3>7 DEF Next
  <2> QED BY <2>1, FitOpen, FitUnchanged
<1> QED BY <1>1, InitFit, Invariance, PTL DEF Spec

\* The connector, encoder, crtc and plane that Open chooses go together, on any
\* board, whatever is asked for.
THEOREM ChosenFit == Spec => []Compatible
<1>1. FitInv => Compatible
  BY DEF FitInv
<1> QED BY <1>1, FitInvariance, PTL
=============================================================================
