--------------------------- MODULE MCDecodeDisplay ---------------------------
EXTENDS DecodeDisplay, DrmBoards

MCBoards == {TwoHeads(TRUE, TRUE), TwoHeads(FALSE, TRUE)}

MCWants ==
  {Nothing,
   [Nothing EXCEPT !.connector = 2, !.crtc = 22],
   [Nothing EXCEPT !.plane = 33, !.skip = {31}, !.encoder = 12, !.format = "abgr8888"],
   [Nothing EXCEPT !.fps = 30, !.size = 2, !.skip = {31}, !.format = "rgb"],
   [Nothing EXCEPT !.skip = {33}, !.type = "overlay", !.size = 3]}
=============================================================================
