---------------------------- MODULE MCDrmDisplay ----------------------------
EXTENDS DrmDisplay, DrmBoards

\* The application names a connector that is not the first.
MCBoards == {TwoHeads(TRUE, FALSE)}
MCWants  == {[Nothing EXCEPT !.connector = 2]}
=============================================================================
