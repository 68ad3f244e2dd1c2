---------------------------- MODULE MCController ----------------------------
(* Controller with a first delay of three repeats. *)
EXTENDS Controller

=============================================================================
