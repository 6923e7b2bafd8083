--------------------------- MODULE MCEncoderFlow ---------------------------
EXTENDS EncoderFlow

\* A mask of one change each, one of two, and one of none the code supports.
MCMasks == {{"bps"}, {"qp"}, {"fps", "idr"}, {"osd"}}
=============================================================================
