----------------------------- MODULE MCRoomView -----------------------------
(* Small rooms for TLC: the other players are interchangeable. *)
EXTENDS RoomView, TLC

OtherPlayers == Permutations(Others)
=============================================================================
