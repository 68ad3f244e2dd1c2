--------------------------- MODULE MCPacketStream ---------------------------
(* Every packet of both sides alone, and short packets in sequence. *)
EXTENDS PacketStream

\* A bare header, a short packet, and one of a type the client has not registered.
Short == {ServerRoom.S2C_MULTI_START, ServerGame.S2C_MOVE, ServerTest.S2C_TEST}

MCTraffic ==
  ({<<p>> : p \in ServerPackets} \cup UNION {[1..n -> Short] : n \in 0..3}) \X {NoPacket}
  \cup {<<>>} \X BuilderPackets
=============================================================================
