--------------------------- MODULE MCClientScreens ---------------------------
(* ClientScreens with a handful of rooms and players. *)
EXTENDS ClientScreens

=============================================================================
