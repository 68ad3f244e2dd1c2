---------------------------- MODULE MCSingleGame ----------------------------
(* SingleGame on narrow boards. *)
EXTENDS SingleGame

=============================================================================
