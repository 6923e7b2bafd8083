--------------------------- MODULE MCCaptureGraph ---------------------------
(* Small pipelines for CaptureGraph: each thread model of the filter, each  *)
(* way to hold, rings of two and three, and what can go wrong in building.  *)
EXTENDS CaptureGraph

GrantedOrFewer(n) == IF n > 3 THEN {0} ELSE IF n > 2 THEN {n - 1, n} ELSE {n}

Slots(in, model, cache) ==
  [in |-> in, out |-> <<>>, fetch_block |-> <<>>, hold |-> <<>>,
   model |-> model, mode |-> "DROPFRONT", cache |-> cache]
Taker == <<Slots(<<0>>, "ASYNCCOMMON", <<1>>)>>

Rga == [parts |-> 1, name |-> "rkrga", model |-> "", mode |-> "", cache |-> {1},
        fps |-> FALSE, hold |-> "HOLD_INPUT", format |-> TRUE, size |-> TRUE,
        rects |-> {"src", "dst"}, dst_rect |-> TRUE, tensor |-> FALSE]
Rknn == [Rga EXCEPT !.name = "rknn", !.rects = {}, !.format = FALSE, !.tensor = TRUE]

Camera == [memory |-> "", loop_num |-> 0, size |-> TRUE, type |-> "nv12",
           libv4l2 |-> FALSE, have_libv4l2 |-> TRUE,
           allocator |-> "drm", source |-> [parts |-> 1, name |-> "v4l2_capture_stream"],
           filter |-> Rga, sink |-> Taker, slot |-> 0, stops |-> 0]
With(f) == [Camera EXCEPT !.filter = f]
Three(s) == [s EXCEPT !.loop_num = 3]

Pipelines == {
  Three(Camera),
  [With([Rknn EXCEPT !.fps = TRUE]) EXCEPT !.memory = "DMABUF"],
  [With([Rknn EXCEPT !.model = "ASYNCCOMMON"]) EXCEPT !.memory = "DMABUF", !.allocator = "ion"],
  With([Rga EXCEPT !.hold = "INHERIT_FORM_INPUT", !.model = "ASYNCCOMMON", !.mode = "DROPFRONT"]),
  [With([Rga EXCEPT !.hold = "", !.size = FALSE, !.dst_rect = FALSE]) EXCEPT !.stops = 1]}

Broken == {
  [Camera EXCEPT !.size = FALSE], [Camera EXCEPT !.loop_num = 4], [Camera EXCEPT !.memory = "FRAME"],
  [Camera EXCEPT !.type = "aac"], [Camera EXCEPT !.libv4l2 = TRUE, !.have_libv4l2 = FALSE],
  [Camera EXCEPT !.memory = "USERPTR"], [Camera EXCEPT !.source.name = ""],
  With([Rga EXCEPT !.rects = {"src"}]), With([Rga EXCEPT !.parts = 2]),
  With([Rga EXCEPT !.parts = 2, !.size = FALSE, !.model = "ASYNCATOMIC"]),
  With([Rga EXCEPT !.size = FALSE]), With([Rga EXCEPT !.format = FALSE, !.hold = ""]),
  [Camera EXCEPT !.libv4l2 = TRUE, !.sink = <<Slots(<<0, 0>>, "ASYNCCOMMON", <<1, 1>>)>>],
  [Camera EXCEPT !.sink = <<Slots(<<0>>, "NONE", <<1>>)>>],
  [With([Rga EXCEPT !.hold = ""]) EXCEPT !.slot = 1,
     !.sink = <<Slots(<<1>>, "ASYNCCOMMON", <<1>>)>>],
  [Camera EXCEPT !.sink = Taker \o <<Slots(<<1>>, "ASYNCCOMMON", <<1>>)>>],
  [With([Rga EXCEPT !.hold = ""]) EXCEPT !.sink = Taker \o Taker]}

MCSetups == Pipelines \cup Broken
=============================================================================
