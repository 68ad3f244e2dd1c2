---------------------------- MODULE PacketLayout ----------------------------
(***************************************************************************)
(* The packets of the protocol as the two programs declare them: the       *)
(* client's table of struct formats (net/packet_structs.py, packet_types   *)
(* and packet_registry) and the server's packed structs (Packets/*.h).     *)
(* A packet is its type number and the kinds of its fields after the       *)
(* header: "i" a 32-bit int, "b" a char, "?" a bool, "Q" a 64-bit room key *)
(* and "s" a 48-byte string field.  A packet with trailing text            *)
(* (S2C_MESSAGE, S2C_TEST) is the fixed part of it.                        *)
(***************************************************************************)
EXTENDS Naturals, Sequences, FiniteSets, Functions

\* PacketHeader.SIZE, PACKET_HEADER_SIZE: a 16-bit size and an 8-bit type.
HeaderSize == 3

\* struct.calcsize of one field; sizeof under #pragma pack(1).
Width(kind) == CASE kind = "i" -> 4
                 [] kind \in {"b", "?"} -> 1
                 [] kind = "Q" -> 8
                 [] kind = "s" -> 48

\* All fields of one kind.
WidthOf(kind, body) == Width(kind) * Cardinality({k \in DOMAIN body : body[k] = kind})

\* struct.calcsize(FMT), sizeof(packet).
SizeOf(body) == HeaderSize + WidthOf("i", body) + WidthOf("b", body) + WidthOf("?", body)
                           + WidthOf("Q", body) + WidthOf("s", body)

Packet(number, body) == [type |-> number, body |-> body]

-----------------------------------------------------------------------------
(* The client.                                                             *)

\* RecvPacketStruct: the packets of every screen, of login and of the lobby.
ClientLobby ==
    [S2C_ERROR          |-> Packet(0,   <<"i">>),
     S2C_LOGIN          |-> Packet(1,   <<"i", "i", "i", "i", "s">>),
     S2C_MESSAGE        |-> Packet(3,   <<"i", "s">>),
     S2C_DISCONNECT     |-> Packet(7,   <<"i">>),
     S2C_ADD_OPEN_ROOM  |-> Packet(10,  <<"Q", "b", "s">>),
     S2C_ADD_LOCK_ROOM  |-> Packet(12,  <<"Q", "b", "s", "s">>)]

\* The packets of a room: seats, host, ready, start.
ClientRoom ==
    [S2C_ADD_USER       |-> Packet(14,  <<"i", "s">>),
     S2C_DELETE_USER    |-> Packet(16,  <<"i">>),
     S2C_READY          |-> Packet(18,  <<"i", "?">>),
     S2C_SINGLE_START   |-> Packet(20,  <<"i">>),
     S2C_MULTI_START    |-> Packet(39,  << >>),
     S2C_KICK           |-> Packet(22,  <<"i">>)]

\* Mutant: two fields of S2C_MOVE are declared in the opposite order.
ClientGameSwapped ==
    [S2C_MOVE           |-> Packet(24,  <<"b", "i">>),
     S2C_SPAWN          |-> Packet(25,  <<"i", "b", "b", "b", "b">>),
     S2C_FIX            |-> Packet(33,  <<"i", "b", "b">>),
     S2C_CLEARLINE      |-> Packet(31,  <<"i", "b", "b", "i">>),
     S2C_ADDLINE        |-> Packet(35,  <<"i", "b">>),
     S2C_GAMEOVER       |-> Packet(27,  <<"i">>),
     S2C_GAMEEND        |-> Packet(29,  <<"i">>),
     S2C_UPDATE_SCORE   |-> Packet(37,  <<"i">>),
     S2C_MATCH_RECORD   |-> Packet(41,  <<"i", "i">>)]

\* IngamePacket and the results of a game.
ClientGame ==
    [S2C_MOVE           |-> Packet(24,  <<"i", "b">>),
     S2C_SPAWN          |-> Packet(25,  <<"i", "b", "b", "b", "b">>),
     S2C_FIX            |-> Packet(33,  <<"i", "b", "b">>),
     S2C_CLEARLINE      |-> Packet(31,  <<"i", "b", "b", "i">>),
     S2C_ADDLINE        |-> Packet(35,  <<"i", "b">>),
     S2C_GAMEOVER       |-> Packet(27,  <<"i">>),
     S2C_GAMEEND        |-> Packet(29,  <<"i">>),
     S2C_UPDATE_SCORE   |-> Packet(37,  <<"i">>),
     S2C_MATCH_RECORD   |-> Packet(41,  <<"i", "i">>)]

\* Host changes, the room list, notices, friends and the ranking.
ClientLists ==
    [S2C_UPDATE_HOST    |-> Packet(43,  <<"i">>),
     S2C_ROOM_INFO      |-> Packet(49,  <<"Q", "s", "b", "b", "?", "?">>),
     S2C_INFO           |-> Packet(100, <<"i">>),
     S2C_REQUEST_FRIEND |-> Packet(55,  <<"i", "s">>),
     S2C_DELETE_FRIEND  |-> Packet(56,  <<"i">>),
     S2C_ADD_FRIEND     |-> Packet(57,  <<"i", "s">>),
     S2C_LOBBY_USER_INFO |-> Packet(59, <<"i", "s">>),
     S2C_FRIEND_INFO    |-> Packet(61,  <<"i", "s", "?">>),
     S2C_RANKING_INFO   |-> Packet(63,  <<"s", "i">>)]

\* SendPacketStruct: what PacketBuilder packs.
ClientSends ==
    [C2S_LOGIN             |-> Packet(2,  <<"s", "s">>),
     C2S_MESSAGE           |-> Packet(4,  << >>),
     C2S_DISCONNECT        |-> Packet(8,  << >>),
     C2S_ADD_OPEN_ROOM     |-> Packet(9,  <<"b", "s">>),
     C2S_ADD_LOCK_ROOM     |-> Packet(11, <<"b", "s", "s">>),
     C2S_JOIN_OPEN_ROOM    |-> Packet(13, <<"Q">>),
     C2S_JOIN_LOCK_ROOM    |-> Packet(50, <<"Q", "s">>),
     C2S_DELETE_USER       |-> Packet(15, << >>),
     C2S_READY             |-> Packet(17, << >>),
     C2S_START             |-> Packet(19, << >>),
     C2S_KICK              |-> Packet(21, <<"i">>)]

ClientSendsMore ==
    [C2S_MOVE              |-> Packet(23, <<"b">>),
     C2S_GIVEUP            |-> Packet(45, << >>),
     C2S_REQUEST_ROOM_LIST |-> Packet(47, << >>),
     C2S_FAST_MATCHING     |-> Packet(51, <<"b">>),
     C2S_REQUEST_FRIEND    |-> Packet(52, <<"i">>),
     C2S_DELETE_FRIEND     |-> Packet(53, <<"i">>),
     C2S_ACCEPT_FRIEND     |-> Packet(54, <<"i">>),
     C2S_REQUEST_LOBBY_USER_LIST |-> Packet(58, << >>),
     C2S_REQUEST_FRIEND_LIST     |-> Packet(60, << >>),
     C2S_REQUEST_RANKING   |-> Packet(62, << >>)]

\* PACKET_REGISTRY: the struct of a type number, for the receiving side.
Registry == UNION {Range(t) : t \in {ClientLobby, ClientRoom, ClientGame,
                                     ClientLists, ClientSends, ClientSendsMore}}
Registered(number) == \E p \in Registry : p.type = number
StructType(number) == CHOOSE p \in Registry : p.type = number

\* What the builder can send.
BuilderPackets == Range(ClientSends) \cup Range(ClientSendsMore)

-----------------------------------------------------------------------------
(* The server.                                                             *)

\* common_packets.h, database_packets.h, lobby_packets.h
ServerLobby ==
    [S2C_ERROR              |-> Packet(0,   <<"i">>),
     S2C_LOGIN              |-> Packet(1,   <<"i", "i", "i", "i", "s">>),
     S2C_MESSAGE            |-> Packet(3,   <<"i", "s">>),
     S2C_UPDATE_SCORE       |-> Packet(37,  <<"i">>),
     S2C_MATCH_RECORD       |-> Packet(41,  <<"i", "i">>),
     S2C_ADD_FRIEND_REQUEST |-> Packet(55,  <<"i", "s">>),
     S2C_DELETE_FRIEND      |-> Packet(56,  <<"i">>),
     S2C_ADD_FRIEND         |-> Packet(57,  <<"i", "s">>),
     S2C_LOBBY_PLAYER_INFO  |-> Packet(59,  <<"i", "s">>),
     S2C_FRIEND_INFO        |-> Packet(61,  <<"i", "s", "?">>),
     S2C_RANKING_INFO       |-> Packet(63,  <<"s", "i">>)]

\* room_packets.h
ServerRoom ==
    [S2C_ADD_PUBLIC_ROOM    |-> Packet(10,  <<"Q", "b", "s">>),
     S2C_ADD_PRIVATE_ROOM   |-> Packet(12,  <<"Q", "b", "s", "s">>),
     S2C_ADD_PLAYER         |-> Packet(14,  <<"i", "s">>),
     S2C_REMOVE_PLAYER      |-> Packet(16,  <<"i">>),
     S2C_READY              |-> Packet(18,  <<"i", "?">>),
     S2C_SINGLE_START       |-> Packet(20,  <<"i">>),
     S2C_MULTI_START        |-> Packet(39,  << >>),
     S2C_KICK               |-> Packet(22,  <<"i">>),
     S2C_UPDATE_HOST        |-> Packet(43,  <<"i">>),
     S2C_ROOM_INFO          |-> Packet(49,  <<"Q", "s", "b", "b", "?", "?">>),
     S2C_INFO               |-> Packet(100, <<"i">>)]

\* game_packets.h
ServerGame ==
    [S2C_MOVE               |-> Packet(24,  <<"i", "b">>),
     S2C_SPAWN              |-> Packet(25,  <<"i", "b", "b", "b", "b">>),
     S2C_FIX                |-> Packet(33,  <<"i", "b", "b">>),
     S2C_CLEAR_LINE         |-> Packet(31,  <<"i", "b", "b", "i">>),
     S2C_ADD_LINE           |-> Packet(35,  <<"i", "b">>),
     S2C_GAME_OVER          |-> Packet(27,  <<"i">>),
     S2C_GAME_END           |-> Packet(29,  <<"i">>)]

\* test_packets.h: the broadcast of the load generator's C2S_TEST; last_time is 64 bits.
ServerTest == [S2C_TEST |-> Packet(5, <<"i", "Q">>)]

\* The structs RoutePacket's handlers cast an incoming packet to.
ServerCasts ==
    {Packet(2,  <<"s", "s">>), Packet(4,  << >>),      Packet(8,  << >>),
     Packet(9,  <<"b", "s">>), Packet(11, <<"b", "s", "s">>),
     Packet(13, <<"Q">>),      Packet(50, <<"Q", "s">>), Packet(15, << >>),
     Packet(17, << >>),        Packet(19, << >>),      Packet(21, <<"i">>),
     Packet(23, <<"b">>),      Packet(45, << >>),      Packet(47, << >>),
     Packet(51, <<"b">>),      Packet(52, <<"i">>),    Packet(53, <<"i">>),
     Packet(54, <<"i">>),      Packet(58, << >>),      Packet(60, << >>),
     Packet(62, << >>)}

\* What the game itself sends to a client.
ServerPackets == Range(ServerLobby) \cup Range(ServerRoom) \cup Range(ServerGame)
=============================================================================
