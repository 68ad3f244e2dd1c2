--------------------------- MODULE MCScrollWindow ---------------------------
(* Three rows of five pixels; the mouse beyond both ends and at heights between. *)
EXTENDS ScrollWindow

MCPoints == {-1, 0, 1, 3, 4, 7, 8, 11, 12, 14, 15, 16}
=============================================================================
