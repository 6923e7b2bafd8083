------------------------------ MODULE DrmBoards ------------------------------
(* Boards and requests for the runs of the DRM display. *)
EXTENDS TLC

Vga == [size |-> 1, fps |-> 60, preferred |-> FALSE]
Hd  == [size |-> 2, fps |-> 30, preferred |-> TRUE]

Connector(ready, encoders, encoder, modes) ==
  [ready |-> ready, encoders |-> encoders, encoder |-> encoder, modes |-> modes]
Encoder(crtcs, crtc) == [crtcs |-> crtcs, crtc |-> crtc]
Plane(crtcs, crtc, formats, type, scale) ==
  [crtcs |-> crtcs, crtc |-> crtc, formats |-> formats, type |-> type, scale |-> scale]

\* An HDMI and a panel connector, each with an encoder and a crtc of its own, a
\* plane of the first in use, a plane for both and one for the second.
TwoHeads(ready, active) ==
  [connectors |-> <<1, 2>>, encoders |-> <<11, 12>>, crtcs |-> <<21, 22>>,
   planes |-> <<31, 32, 33>>,
   connector |-> 1 :> Connector(ready, <<11>>, IF active THEN 11 ELSE 0, <<Vga, Hd>>)
              @@ 2 :> Connector(TRUE, <<12>>, 0, <<Hd>>),
   encoder |-> 11 :> Encoder({21}, IF active THEN 21 ELSE 0) @@ 12 :> Encoder({22}, 0),
   plane |-> 31 :> Plane({21}, IF active THEN 21 ELSE 0, {"nv12", "rgb"}, "primary", FALSE)
          @@ 32 :> Plane({21, 22}, IF active THEN 21 ELSE 0, {"nv12"}, "overlay", TRUE)
          @@ 33 :> Plane({22}, 0, {"nv12", "rgb"}, "primary", FALSE),
   mode |-> 21 :> Vga @@ 22 :> Hd]

Nothing == [connector |-> 0, encoder |-> 0, crtc |-> 0, plane |-> 0, skip |-> {},
            fps |-> 0, format |-> "nv12", type |-> "", size |-> 0]
=============================================================================
