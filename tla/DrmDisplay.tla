----------------------------- MODULE DrmDisplay -----------------------------
(***************************************************************************)
(* The stream that shows images on a plane of a DRM device: Open with all  *)
(* its steps, IoCtrl on the rectangles, Write.                             *)
(*                                                                         *)
(* The driver is outside the repository: it shows the framebuffer of the   *)
(* last atomic commit it accepted, and any commit may fail.                *)
(***************************************************************************)
EXTENDS DrmIds

CONSTANTS
  Boards,       \* the boards to try, see DrmIds
  Wants,        \* what the parameters ask for: ids, formats, sizes; 0 or "" is
                \* nothing, skip a set of plane ids
  FbFormats,    \* the formats DRMDisplayBuffer knows
  Rects,        \* the sizes of rectangles an application sets
  MaxCalls, MaxDrmFaults   \* bounds of the model

\* What the driver says of a board: the ids are not 0, and a connector has an
\* encoder, which drm_utils.cc asserts, and uses none but its own.
ASSUME BoardsAssumption ==
  \A b \in Boards :
    /\ b.connectors \in Seq(Nat \ {0}) /\ b.encoders \in Seq(Nat \ {0})
    /\ b.crtcs \in Seq(Nat \ {0}) /\ b.planes \in Seq(Nat \ {0})
    /\ \A c \in ToSet(b.connectors) :
         LET conn == b.connector[c] IN
         /\ conn.encoders \in Seq(Nat \ {0}) /\ conn.encoders # <<>>
         /\ conn.encoder \in ToSet(conn.encoders) \cup {0}
         /\ \A e \in ToSet(conn.encoders) : b.encoder[e].crtc \in Nat

VARIABLES
  board, want,
  opening,      \* how far Open has come
  ids,          \* resources::ids
  chosen,       \* connector_id, encoder_id, crtc_id, plane_id, active
  mode,         \* cur_mode
  support_scale,
  src_rect, dst_rect,  \* sizes, 0 before they are set
  plane,        \* the driver: the framebuffer and the rectangles of the plane
  disp_buffer,  \* the image that stays alive: Blank, or the frame of a Write
  calls, drm_faults

openVars == <<board, want, opening, ids, chosen, mode, support_scale>>
rectVars == <<src_rect, dst_rect, calls>>
drmVars  == <<openVars, rectVars, plane, disp_buffer, drm_faults>>

NoFrame == 0
Blank   == -1

DrmInit ==
  /\ board \in Boards /\ want \in Wants
  /\ opening = "device" /\ ids = AllIds(board) /\ chosen = NoSet /\ mode = None
  /\ support_scale = FALSE /\ src_rect = 0 /\ dst_rect = 0
  /\ plane = [fb |-> NoFrame, src |-> 0, dst |-> 0]
  /\ disp_buffer = NoFrame /\ calls = 0 /\ drm_faults = 0

DrmFault == drm_faults < MaxDrmFaults /\ drm_faults' = drm_faults + 1

(***************************************************************************)
(* DRMStream::Open: the ids are narrowed step by step.                     *)
(***************************************************************************)
Open(from, to, result) ==
  /\ opening = from
  /\ ids' = result
  /\ opening' = CASE result.ok = "true"  -> to
                  [] result.ok = "false" -> "failed"
                  [] result.ok = "crash" -> "crashed"
  /\ UNCHANGED <<board, want, chosen, mode, support_scale, rectVars, plane, disp_buffer>>

OpenDevice ==      \* no path, no device, no resources
  \/ Open("device", "connector", IF want.plane \in want.skip THEN Fail(ids) ELSE ids) /\ UNCHANGED drm_faults
  \/ Open("device", "failed", Fail(ids)) /\ DrmFault

OpenConnector ==
  /\ Open("connector", "encoder",
          IF want.connector = 0 THEN ByConnectorCondition(board, ids, Ready(board))
          ELSE IF want.connector \in Ready(board) THEN ReserveConnector(board, ids, want.connector)
          ELSE Fail(ids))
  /\ UNCHANGED drm_faults

OpenEncoder ==
  /\ Open("encoder", "crtc", IF want.encoder = 0 THEN ids ELSE ReserveEncoder(board, ids, want.encoder))
  /\ UNCHANGED drm_faults

OpenCrtc ==
  /\ Open("crtc", "plane", IF want.crtc = 0 THEN ids ELSE ReserveCrtc(board, ids, want.crtc))
  /\ UNCHANGED drm_faults

OpenPlane ==
  /\ Open("plane", "skip", IF want.plane = 0 THEN ids ELSE ReservePlane(board, ids, want.plane))
  /\ UNCHANGED drm_faults

OpenSkipped ==
  /\ Open("skip", "fps", IF want.skip = {} THEN ids ELSE BySkipped(board, ids, want.skip))
  /\ UNCHANGED drm_faults

OpenFps ==
  /\ Open("fps", "format", IF want.fps = 0 THEN ids
                           ELSE ByConnectorCondition(board, ids, HasFps(board, want.fps)))
  /\ UNCHANGED drm_faults

OpenFormat == Open("format", "type", ByDataType(board, ids, want.format)) /\ UNCHANGED drm_faults

OpenType ==
  /\ Open("type", "size", IF want.type = "" THEN ids ELSE ByPlaneType(board, ids, want.type))
  /\ UNCHANGED drm_faults

\* find_strict_match_wh: otherwise the image is scaled.
Matched == IF \E c \in ToSet(ids.connectors) : c \in HasSize(board, want.size) THEN want.size ELSE 0

OpenSize ==
  /\ Open("size", "agree", IF Matched = 0 THEN ids
                           ELSE ByConnectorCondition(board, ids, HasSize(board, want.size)))
  /\ UNCHANGED drm_faults

(***************************************************************************)
(* GetAgreeableIDSet. When it finds none, DRMOutPutStream::Open returns    *)
(* false, which is 0, and the stream is used all the same: "blind".        *)
(***************************************************************************)
Agree ==
  /\ opening = "agree"
  /\ IF WithPlane(board, ids, Matched) = {} \/ AgreeCrashes(board, ids, Matched)
       THEN /\ opening' = IF AgreeCrashes(board, ids, Matched) THEN "crashed" ELSE "blind"
            /\ UNCHANGED chosen
       ELSE opening' = "mode" /\ chosen' = AgreeableSet(board, ids, Matched)
  /\ UNCHANGED <<board, want, ids, mode, support_scale, rectVars, plane, disp_buffer, drm_faults>>

AgreeMode ==
  LET m == IF chosen.active THEN board.mode[chosen.crtc]
           ELSE ChooseMode(board.connector[chosen.connector].modes, Matched, want.fps)
  IN /\ opening = "mode"
     /\ mode' = m
     /\ opening' = IF m = None THEN "crashed" ELSE IF chosen.active THEN "properties" ELSE "set_crtc"
     /\ UNCHANGED <<board, want, ids, chosen, support_scale, rectVars, plane, disp_buffer, drm_faults>>

(***************************************************************************)
(* DRMOutPutStream::Open.                                                  *)
(***************************************************************************)

\* DRMDisplayBuffer: a handle and a framebuffer for an image.
HasFb == want.format \in FbFormats

\* An inactive crtc is turned on with a blank image.
SetCrtc ==
  /\ opening = "set_crtc"
  /\ \/ /\ HasFb /\ opening' = "properties"
        /\ disp_buffer' = Blank /\ UNCHANGED drm_faults
     \/ ~HasFb /\ opening' = "failed" /\ UNCHANGED <<disp_buffer, drm_faults>>
     \/ HasFb /\ DrmFault /\ opening' = "failed" /\ UNCHANGED disp_buffer
  /\ UNCHANGED <<board, want, ids, chosen, mode, support_scale, rectVars, plane>>

GetProperties ==   \* every property must be there; the z position is set
  /\ opening = "properties"
  /\ \/ opening' = "source" /\ UNCHANGED <<disp_buffer, drm_faults>>
     \/ opening' = "failed" /\ DrmFault /\ disp_buffer' = NoFrame
  /\ support_scale' = board.plane[chosen.plane].scale
  /\ UNCHANGED <<board, want, ids, chosen, mode, rectVars, plane>>

(***************************************************************************)
(* IoCtrl. A rectangle is kept if the commit succeeded. Without ids no     *)
(* property goes into the request, and an empty request may be accepted or *)
(* not: it changes nothing.                                                *)
(***************************************************************************)
Blind == opening = "blind"

Set(src, dst) ==
  /\ src_rect' = src /\ dst_rect' = dst
  /\ plane' = IF Blind THEN plane ELSE [plane EXCEPT !.src = src, !.dst = dst]
  /\ UNCHANGED drm_faults

Refused ==
  /\ UNCHANGED <<src_rect, dst_rect, plane>>
  /\ IF Blind THEN UNCHANGED drm_faults ELSE DrmFault

NotAsked == UNCHANGED <<src_rect, dst_rect, plane, drm_faults>>

\* Mutant of SetSource: the destination does not matter.
SetSourceAnyway(rect, ok) ==
  IF ok THEN Set(rect, dst_rect) ELSE Refused

SetSource(rect, ok) ==
  IF ~support_scale /\ dst_rect # 0 /\ rect # dst_rect THEN ~ok /\ NotAsked
  ELSE IF ok THEN Set(rect, dst_rect) ELSE Refused

SetDestination(rect, ok) ==
  IF ~support_scale /\ src_rect # 0 /\ rect # src_rect THEN ~ok /\ NotAsked
  ELSE IF ok THEN Set(src_rect, rect) ELSE Refused

SetBoth(src, dst, ok) ==
  IF ~support_scale /\ src # dst THEN ~ok /\ NotAsked
  ELSE IF ok THEN Set(src, dst) ELSE Refused

\* The end of Open: both rectangles are the mode's.
OpenSource ==
  /\ opening = "source"
  /\ \E ok \in BOOLEAN :
       /\ SetSource(mode.size, ok)
       /\ opening' = IF ok THEN "destination" ELSE "failed"
       /\ disp_buffer' = IF ok THEN disp_buffer ELSE NoFrame
  /\ UNCHANGED <<board, want, ids, chosen, mode, support_scale, calls>>

OpenDestination ==
  /\ opening = "destination"
  /\ \E ok \in BOOLEAN :
       /\ SetDestination(mode.size, ok)
       /\ opening' = IF ok THEN "open" ELSE "failed"
       /\ disp_buffer' = IF ok THEN disp_buffer ELSE NoFrame
  /\ UNCHANGED <<board, want, ids, chosen, mode, support_scale, calls>>

IoCtrl ==
  /\ opening \in {"open", "blind"} /\ calls < MaxCalls
  /\ calls' = calls + 1
  /\ \E ok \in BOOLEAN, r \in Rects :
       \/ SetSource(r, ok) \/ SetDestination(r, ok) \/ \E s \in Rects : SetBoth(r, s, ok)
  /\ UNCHANGED <<openVars, disp_buffer>>

(***************************************************************************)
(* Write: a framebuffer for the image, then the commit. Only then the      *)
(* image shown before is let go.                                           *)
(***************************************************************************)

\* Mutant of Shown: the stream keeps no reference to what it shows.
ShownLoosely(frame) ==
  disp_buffer' = NoFrame /\ plane' = IF Blind THEN plane ELSE [plane EXCEPT !.fb = frame]

Shown(frame) ==
  disp_buffer' = frame /\ plane' = IF Blind THEN plane ELSE [plane EXCEPT !.fb = frame]

Write(frame, ok) ==
  /\ opening \in {"open", "blind"}
  /\ IF frame = NoFrame \/ ~HasFb
       THEN ~ok /\ UNCHANGED <<plane, disp_buffer, drm_faults>>
       ELSE IF ok THEN Shown(frame) /\ UNCHANGED drm_faults
                  ELSE (IF Blind THEN UNCHANGED drm_faults ELSE DrmFault)
                       /\ UNCHANGED <<plane, disp_buffer>>
  /\ UNCHANGED <<openVars, rectVars>>

OpenStep ==
  \/ OpenDevice \/ OpenConnector \/ OpenEncoder \/ OpenCrtc \/ OpenPlane \/ OpenSkipped
  \/ OpenFps \/ OpenFormat \/ OpenType \/ OpenSize \/ Agree \/ AgreeMode
  \/ SetCrtc \/ GetProperties \/ OpenSource \/ OpenDestination

\* The stream alone, with an application that opens it, writes and moves it.
DrmNext == OpenStep \/ IoCtrl \/ \E ok \in BOOLEAN : Write(1, ok)

DrmSpec == DrmInit /\ [][DrmNext]_drmVars

(***************************************************************************)
(* Properties.                                                             *)
(***************************************************************************)
OpenStates == {"device", "connector", "encoder", "crtc", "plane", "skip", "fps", "format", "type",
               "size", "agree", "mode", "set_crtc", "properties", "source", "destination",
               "open", "blind", "failed", "crashed"}

\* The set that was chosen goes together: the plane can be shown by the crtc,
\* is not another crtc's, supports the format and was not to be skipped; the
\* encoder is the connector's, and its crtc, if it has one, the crtc.
Compatible ==
  chosen # NoSet =>
    LET p == board.plane[chosen.plane]
        e == board.encoder[chosen.encoder]
    IN /\ chosen.crtc \in p.crtcs /\ p.crtc \in {0, chosen.crtc}
       /\ want.format \in p.formats /\ chosen.plane \notin want.skip
       /\ want.type # "" => p.type = want.type
       /\ chosen.encoder \in ToSet(board.connector[chosen.connector].encoders)
       /\ e.crtc \in {0, chosen.crtc}
       /\ want.fps # 0 => chosen.connector \in HasFps(board, want.fps)
       /\ Matched # 0 => chosen.connector \in HasSize(board, want.size)

\* The rectangles the stream remembers are those the driver has, unless it was
\* opened without ids, and a plane that does not scale never has two of
\* different sizes, whatever was refused.
RectsAgree ==
  /\ ~Blind => plane.src = src_rect /\ plane.dst = dst_rect
  /\ ~support_scale /\ src_rect # 0 /\ dst_rect # 0 => src_rect = dst_rect

\* drm_utils.h:134, "reserve: filter the unmatch elements": the id the user asks
\* for is the one that is kept.
ReservedIsKept ==
  /\ opening = "encoder" /\ want.connector # 0 => ToSet(ids.connectors) = {want.connector}
  /\ opening = "skip" /\ want.plane # 0 => ToSet(ids.planes) = {want.plane}
=============================================================================
