---------------------------- MODULE MCLobbyRoom ----------------------------
(* LobbyRoom on small instances. *)
EXTENDS LobbyRoom, TLC

MCSeats == 1..2

Symmetry == Permutations(Slots) \cup Permutations(LobbyThreads) \cup Permutations(GameThreads)
            \cup Permutations(RoomKeys) \cup Permutations(RoomIndices)

=============================================================================
