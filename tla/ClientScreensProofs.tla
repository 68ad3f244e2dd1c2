------------------------ MODULE ClientScreensProofs ------------------------
(***************************************************************************)
(* What the screens of the client guarantee for any rooms and players and  *)
(* any number of requests and packets under way, and its scrolling windows *)
(* for every number of rows, every row height and every sequence of mouse  *)
(* events and packets.                                                     *)
(***************************************************************************)
EXTENDS ClientScreens, ScrollWindow, FiniteSetTheorems, SequenceTheorems, TLAPS

\* What the server sends: a friend request names a player, an entry of the list
\* a room.
ServerPacket ==
  [type : {"ROOM_INFO"}, arg : Rooms] \cup [type : {"REQUEST_FRIEND"}, arg : Users]
  \cup [type : {"ADD_ROOM"}, arg : {1, 2}]
  \cup [type : {"ERROR", "INFO", "LOGIN", "DELETE_USER"},
        arg : {"code", "notice", "kicked", "id"}] \cup [type : {"RANKING_INFO"}, arg : {"r"}]

\* The fields and the packets under way; a screen is queued exactly during a fade-out.
FieldsTyped ==
  /\ TypeOK
  /\ room_list \in Seq(Rooms) /\ s2c \in Seq(ServerPacket)
  /\ (fade_mode = "out") <=> (next_state # None)

ScreensInv == FieldsTyped /\ WindowsUsable

----------------------------------------------------------------------------
(* Packets and lists. *)

\* The room list of the server is a sequence of all rooms.
LEMMA ListOfRooms ==
  /\ Cardinality(Rooms) \in Nat
  /\ SetToSeq(Rooms) \in [1..Cardinality(Rooms) -> Rooms] /\ IsInjective(SetToSeq(Rooms))
  <1>1. IsFiniteSet(Rooms)
    BY ScreensAssumption
  <1>2. Cardinality(Rooms) \in Nat /\ ExistsBijection(1..Cardinality(Rooms), Rooms)
    BY <1>1, FS_CardinalityType
  <1>3. \E f \in [1..Cardinality(Rooms) -> Rooms] : IsInjective(f)
    BY <1>2 DEF ExistsBijection, Bijection, Injection
  <1> QED
    BY <1>2, <1>3 DEF SetToSeq

\* The answer to a request for the room list is a list of packets.
LEMMA AnswerOfRooms ==
  [i \in DOMAIN RoomList |-> Packet("ROOM_INFO", RoomList[i])] \in Seq(ServerPacket)
  <1>1. /\ DOMAIN RoomList = 1..Cardinality(Rooms)
        /\ \A i \in 1..Cardinality(Rooms) : Packet("ROOM_INFO", RoomList[i]) \in ServerPacket
    BY ListOfRooms DEF Packet, ServerPacket, RoomList
  <1> QED
    BY <1>1, ListOfRooms, SeqDef

\* Whatever the server answers with, packets are under way.
LEMMA AnswerTyped ==
  ASSUME s2c \in Seq(ServerPacket), NEW ps \in Seq(ServerPacket), Answer(ps)
  PROVE  s2c' \in Seq(ServerPacket)
  BY ConcatProperties DEF Answer

----------------------------------------------------------------------------
(* The steps of the client. *)

\* queue_state leaves a screen queued and the fade going out.
LEMMA QueueTyped ==
  ASSUME ScreensInv, NEW scr \in Screens, QueueState(scr)
  PROVE  /\ screen' \in Screens /\ next_state' \in Screens \cup {None} /\ fade_mode' \in {None, "in", "out"}
         /\ (fade_mode' = "out") <=> (next_state' # None)
         /\ crashed' = crashed /\ asked' \in {"once", "again", "unheard"}
  <1>1. scr # None /\ "all" # None
    BY ScreensAssumption
  <1>2. crashed' = crashed
    BY <1>1 DEF QueueState, Send
  <1>3. asked' \in {"once", "again", "unheard"}
    BY DEF QueueState, AskedFor, ScreensInv, FieldsTyped, TypeOK
  <1> QED
    BY <1>1, <1>2, <1>3 DEF QueueState, ScreensInv, FieldsTyped, TypeOK

\* Only a missing argument ends the main loop.
LEMMA SendTyped ==
  ASSUME ScreensInv, NEW type, NEW arg, Send(type, arg) \/ SendOrNot(type, arg)
  PROVE  crashed' \in BOOLEAN /\ (arg # None => crashed' = crashed)
  BY DEF Send, SendOrNot, ScreensInv, FieldsTyped, TypeOK

\* Actions that touch neither the windows nor what is under way to the client.
LEMMA FadeSteps ==
  ASSUME ScreensInv, ChangeScreen \/ FadedIn
  PROVE  ScreensInv'
  <1> USE DEF ScreensInv, FieldsTyped, TypeOK, WindowsUsable, NeverStuck, RequesterKnown, RoomKnown
  <1>1. CASE ChangeScreen
    <2>1. next_state \in Screens
      BY <1>1 DEF ChangeScreen
    <2>2. /\ room_list' = <<>> /\ room_list' \in Seq(Rooms) /\ s2c' = s2c /\ place' = place
          /\ ~crashed' /\ missed' = missed /\ asked' = asked
      BY <1>1 DEF ChangeScreen, net, past
    <2>3. fade_mode' = "in" /\ next_state' = None /\ "in" # None /\ screen' \in Screens
      BY <1>1, <2>1, ScreensAssumption DEF ChangeScreen
    <2>4. TypeOK'
      <3>1. \A i \in DOMAIN (room_list') : room_list'[i] \in Rooms
        BY <2>2, EmptySeq
      <3>2. /\ reactable' \in BOOLEAN /\ windows' \subseteq Names /\ create_error' \in BOOLEAN /\ rankings' \in Nat
            /\ join_room_key' = None /\ clobbered' = FALSE /\ friend_requester_id' = None /\ crashed' \in BOOLEAN
        BY <1>1, <2>2 DEF ChangeScreen
      <3> QED
        BY <2>2, <2>3, <3>1, <3>2
    <2>5. NeverStuck' /\ RequesterKnown' /\ RoomKnown'
      BY <1>1, <2>2 DEF ChangeScreen
    <2> QED
      BY <2>2, <2>3, <2>4, <2>5
  <1>2. CASE FadedIn
    BY <1>2, ScreensAssumption DEF FadedIn, modal, password, lists, net, past
  <1> QED
    BY <1>1, <1>2

\* Presses that send or that queue a screen.
LEMMA RequestSteps ==
  ASSUME ScreensInv, PressLogin \/ PressRanking \/ PressRefresh \/ PressBack \/ PressLeave
  PROVE  ScreensInv'
  <1> USE DEF ScreensInv, FieldsTyped, TypeOK, WindowsUsable, NeverStuck, RequesterKnown, RoomKnown, modal, password, past
  <1>0. "account" # None /\ "all" # None /\ "room" # None
    BY ScreensAssumption
  <1>1. CASE PressLogin
    <2>1. crashed' = crashed
      BY <1>0, <1>1, SendTyped DEF PressLogin
    <2> QED
      BY <1>1, <2>1 DEF PressLogin, fade, lists
  <1>2. CASE PressLeave
    <2>1. crashed' = crashed
      BY <1>0, <1>2, SendTyped DEF PressLeave
    <2> QED
      BY <1>2, <2>1 DEF PressLeave, fade, lists
  <1>3. CASE PressRanking
    BY <1>3, QueueTyped DEF PressRanking, lists, Screens
  <1>4. CASE PressBack
    BY <1>4, QueueTyped DEF PressBack, lists, Screens
  <1>5. CASE PressRefresh
    <2>1. room_list' = <<>> /\ <<>> \in Seq(Rooms) /\ crashed' = crashed
      BY <1>0, <1>5, SendTyped DEF PressRefresh
    <2>2. asked' \in {"once", "again", "unheard"}
      BY <1>5 DEF PressRefresh, AskedFor
    <2> QED
      BY <1>5, <2>1, <2>2 DEF PressRefresh, fade
  <1> QED
    BY <1>1, <1>2, <1>3, <1>4, <1>5

\* The login's own steps.
LEMMA LoginSteps ==
  ASSUME ScreensInv, Retry \/ ConfirmLoginError
  PROVE  ScreensInv'
  <1> USE DEF ScreensInv, FieldsTyped, TypeOK, WindowsUsable, NeverStuck, RequesterKnown, RoomKnown, fade, lists, net, past, password
  <1>1. {"fail_connect"} \subseteq Names
    BY DEF Names
  <1>2. CASE Retry
    BY <1>1, <1>2 DEF Retry, Connect
  <1>3. CASE ConfirmLoginError
    BY <1>3 DEF ConfirmLoginError
  <1> QED
    BY <1>2, <1>3

\* The windows have names.
LEMMA WindowNames ==
  {"error", "quick_start", "fast_matching", "room_create",
   "input_pw", "info", "friend_request", "fail_connect", "fail_login"} \subseteq Names
  <1>1. /\ DOMAIN Order = 1..7
        /\ Order[1] = "error" /\ Order[2] = "quick_start" /\ Order[3] = "fast_matching" /\ Order[4] = "room_create"
        /\ Order[5] = "input_pw" /\ Order[6] = "info" /\ Order[7] = "friend_request"
    BY DEF Order
  <1> QED
    BY <1>1 DEF Names

\* Presses in the lobby while it is reactable.
LEMMA LobbySteps ==
  ASSUME ScreensInv, PressMenu \/ ClickRoom
  PROVE  ScreensInv'
  <1> USE DEF ScreensInv, FieldsTyped, TypeOK, WindowsUsable, NeverStuck, RequesterKnown, RoomKnown, fade, lists, net, past, password
  <1>1. CASE PressMenu
    <2>1. PICK w \in {"quick_start", "room_create"} :
             windows' = windows \cup {w} /\ create_error' = (w # "room_create" /\ create_error)
      BY <1>1 DEF PressMenu
    <2>2. windows' \subseteq Names /\ create_error' \in BOOLEAN
      BY <2>1, WindowNames
    <2>3. /\ reactable' = FALSE
          /\ UNCHANGED <<fade, password, friend_requester_id, lists, crashed, net, past>>
      BY <1>1 DEF PressMenu
    <2>4. NeverStuck' /\ RequesterKnown' /\ RoomKnown'
      BY <2>1, <2>3
    <2> QED
      BY <2>2, <2>3, <2>4
  <1>2. CASE ClickRoom
    <2>1. PICK i \in DOMAIN room_list :
            IF room_list[i] \in Private
            THEN /\ join_room_key' = room_list[i] /\ clobbered' = FALSE
                 /\ windows' = windows \cup {"input_pw"} /\ reactable' = FALSE
                 /\ UNCHANGED <<c2s, crashed>>
            ELSE /\ MaySend /\ Send("ENTER", room_list[i])
                 /\ join_room_key' = None /\ clobbered' = ("input_pw" \in windows)
                 /\ UNCHANGED <<windows, reactable>>
      BY <1>2 DEF ClickRoom
    <2>2. room_list[i] \in Rooms /\ room_list[i] # None
      BY <2>1, ScreensAssumption
    <2>3. ~crashed /\ UNCHANGED <<fade, create_error, friend_requester_id, lists, s2c, place, past>>
      BY <1>2 DEF ClickRoom, InLobby, Reacts
    <2>4. CASE room_list[i] \in Private
      <3>1. /\ join_room_key' = room_list[i] /\ windows' = windows \cup {"input_pw"} /\ clobbered' = FALSE
            /\ windows' \subseteq Names /\ reactable' = FALSE /\ ~crashed' /\ crashed' \in BOOLEAN
        BY <2>1, <2>3, <2>4, WindowNames
      <3> QED
        BY <2>2, <2>3, <3>1
    <2>5. CASE room_list[i] \notin Private
      <3>1. /\ join_room_key' = None /\ clobbered' = ("input_pw" \in windows) /\ UNCHANGED <<windows, reactable>>
            /\ ~crashed' /\ crashed' \in BOOLEAN
        BY <2>1, <2>2, <2>3, <2>5, SendTyped
      <3>2. clobbered' \in BOOLEAN
        BY <3>1
      <3>3. RoomKnown'
        BY <3>1
      <3> QED
        BY <2>3, <3>1, <3>2, <3>3
    <2> QED
      BY <2>4, <2>5
  <1> QED
    BY <1>1, <1>2

\* Events in a window of the lobby.
LEMMA WindowSteps ==
  ASSUME ScreensInv, Window
  PROVE  ScreensInv'
  <1> USE DEF ScreensInv, FieldsTyped, TypeOK, WindowsUsable, NeverStuck, RequesterKnown, RoomKnown, fade, lists, net, past, password, CloseWindow
  <1>0. 1 # None /\ 2 # None
    BY ScreensAssumption
  <1>1. ASSUME NEW w \in {"error", "info"}, ConfirmNotice(w) PROVE ScreensInv'
    BY <1>1 DEF ConfirmNotice
  <1>2. CASE ChooseQuickStart
    <2>1. crashed' = crashed
      BY <1>0, <1>2, SendTyped DEF ChooseQuickStart
    <2>2. /\ windows' \subseteq Names
          /\ reactable' = TRUE \/ (UNCHANGED reactable /\ windows' # {})
          /\ ("input_pw" \in windows') <=> ("input_pw" \in windows)
          /\ ("friend_request" \in windows') <=> ("friend_request" \in windows)
          /\ UNCHANGED <<fade, create_error, password, friend_requester_id, lists, s2c, place, past>>
      BY <1>2, WindowNames DEF ChooseQuickStart
    <2>3. NeverStuck' /\ RequesterKnown' /\ RoomKnown'
      <3>1. NeverStuck'
        BY <2>2
      <3>2. RequesterKnown'
        BY <2>2
      <3>3. RoomKnown'
        BY <2>1, <2>2
      <3> QED
        BY <3>1, <3>2, <3>3
    <2>4. reactable' \in BOOLEAN
      BY <1>2 DEF ChooseQuickStart
    <2>5. TypeOK'
      BY <2>1, <2>2, <2>4
    <2> QED
      BY <2>2, <2>3, <2>5
  <1>3. CASE ChooseMatching
    <2>1. crashed' = crashed
      BY <1>0, <1>3, SendTyped DEF ChooseMatching
    <2> QED
      BY <1>3, <2>1 DEF ChooseMatching
  <1>4. CASE CreateRoom
    <2>1. crashed' = crashed
      BY <1>0, <1>4, SendTyped DEF CreateRoom
    <2>2. /\ create_error' \in BOOLEAN /\ windows' \subseteq windows
          /\ (windows' = windows /\ reactable' = reactable) \/ reactable' = TRUE
      BY <1>4 DEF CreateRoom
    <2>3. UNCHANGED <<fade, password, friend_requester_id, lists, s2c, place, past>>
      BY <1>4 DEF CreateRoom
    <2>4. NeverStuck' /\ RequesterKnown'
      BY <2>2, <2>3
    <2>5. RoomKnown'
      BY <2>1, <2>2, <2>3
    <2>6. TypeOK'
      BY <2>1, <2>2, <2>3
    <2> QED
      BY <2>3, <2>4, <2>5, <2>6
  <1>5. CASE EnterPassword
    <2>1. /\ "input_pw" \in windows /\ ~crashed
          /\ windows' = windows \ {"input_pw"} /\ reactable' = TRUE
          /\ SendOrNot("ENTER", join_room_key) /\ join_room_key' = None /\ UNCHANGED clobbered
          /\ UNCHANGED <<fade, create_error, friend_requester_id, lists, s2c, place, past>>
      BY <1>5 DEF EnterPassword, InWindow, Reacts
    <2>2. crashed' \in BOOLEAN /\ (join_room_key # None => crashed' = crashed)
      BY <2>1, SendTyped
    <2>3. RoomKnown'
      BY <2>1, <2>2
    <2> QED
      BY <2>1, <2>2, <2>3
  <1>6. CASE AnswerFriend
    <2>1. "friend_request" \in windows /\ friend_requester_id # None
      BY <1>6 DEF AnswerFriend, InWindow
    <2>2. crashed' = crashed
      BY <1>6, <2>1, SendTyped DEF AnswerFriend
    <2> QED
      BY <1>6, <2>2 DEF AnswerFriend
  <1> QED
    BY <1>1, <1>2, <1>3, <1>4, <1>5, <1>6 DEF Window

\* A popup opens over whatever else is open.
LEMMA PopupOpens ==
  ASSUME ScreensInv, NEW w \in Names, OpenPopup(w)
  PROVE  windows' \subseteq Names /\ reactable' \in BOOLEAN /\ NeverStuck'
  BY DEF OpenPopup, ScreensInv, FieldsTyped, TypeOK, NeverStuck

\* The screens and lists of the state after a packet that queues a screen.
LEMMA QueueKeeps ==
  ASSUME ScreensInv, NEW scr \in Screens, QueueState(scr), UNCHANGED <<modal, lists, place>>,
         s2c' \in Seq(ServerPacket), missed' \in BOOLEAN
  PROVE  ScreensInv'
  <1>1. /\ screen' \in Screens /\ next_state' \in Screens \cup {None} /\ fade_mode' \in {None, "in", "out"}
        /\ (fade_mode' = "out") <=> (next_state' # None)
        /\ crashed' = crashed /\ asked' \in {"once", "again", "unheard"}
    BY QueueTyped
  <1> QED
    BY <1>1 DEF ScreensInv, FieldsTyped, TypeOK, WindowsUsable, NeverStuck, RequesterKnown, RoomKnown,
                modal, lists, password

\* ... after one that opens a popup, which is not about a friend or has its friend.
LEMMA PopupKeeps ==
  ASSUME ScreensInv, NEW w \in Names, OpenPopup(w), w # "input_pw",
         UNCHANGED <<fade, create_error, password, lists, crashed, asked, place>>,
         friend_requester_id' \in Users \/ (w # "friend_request" /\ UNCHANGED friend_requester_id),
         s2c' \in Seq(ServerPacket), missed' \in BOOLEAN
  PROVE  ScreensInv'
  <1>1. windows' \subseteq Names /\ reactable' \in BOOLEAN /\ NeverStuck'
    BY PopupOpens
  <1>2. RequesterKnown'
    BY ScreensAssumption DEF OpenPopup, ScreensInv, WindowsUsable, RequesterKnown
  <1>3. RoomKnown'
    BY DEF OpenPopup, ScreensInv, WindowsUsable, RoomKnown, password
  <1>4. TypeOK'
    BY <1>1 DEF ScreensInv, FieldsTyped, TypeOK, fade, lists, password
  <1> QED
    BY <1>1, <1>2, <1>3, <1>4 DEF ScreensInv, FieldsTyped, WindowsUsable, fade, lists

\* ... after one that changes nothing but the lists.
LEMMA ListKeeps ==
  ASSUME ScreensInv, UNCHANGED <<fade, modal, crashed, place>>, room_list' \in Seq(Rooms), rankings' \in Nat,
         asked' \in {"once", "again", "unheard"}, s2c' \in Seq(ServerPacket), missed' \in BOOLEAN
  PROVE  ScreensInv'
  <1>1. \A i \in DOMAIN (room_list') : room_list'[i] \in Rooms
    BY ElementOfSeq
  <1> QED
    BY <1>1 DEF ScreensInv, FieldsTyped, TypeOK, WindowsUsable, NeverStuck, RequesterKnown, RoomKnown,
                modal, fade, password

\* Packets that are read (handle_packet of the screens).
LEMMA PacketSteps ==
  ASSUME ScreensInv, HandlePacket
  PROVE  ScreensInv'
  <1> DEFINE p == Head(s2c)
  <1>1. p \in ServerPacket /\ s2c' \in Seq(ServerPacket) /\ UNCHANGED place
    BY HeadTailProperties DEF HandlePacket, ScreensInv, FieldsTyped
  <1>2. /\ p.type = "ROOM_INFO" => p.arg \in Rooms
        /\ p.type = "REQUEST_FRIEND" => p.arg \in Users
    BY <1>1 DEF ServerPacket
  <1>3. missed' \in BOOLEAN
    BY DEF HandlePacket, ScreensInv, FieldsTyped, TypeOK
  <1>4. LoginPacket(p) \/ LobbyPacket(p) \/ RankingPacket(p) \/ PlayPacket(p)
    BY DEF HandlePacket, p
  <1>5. /\ room_list \in Seq(Rooms) /\ rankings \in Nat /\ asked \in {"once", "again", "unheard"}
        /\ {"Lobby", "Single", "Multi"} \subseteq Screens
        /\ {"error", "info", "fail_login", "friend_request"} \subseteq Names
    BY WindowNames DEF ScreensInv, FieldsTyped, TypeOK, Screens
  <1> HIDE DEF p
  <1>6. ASSUME LoginPacket(p) PROVE ScreensInv'
    <2>1. CASE p.type = "ERROR"
      BY <1>1, <1>3, <1>5, <1>6, <2>1, PopupKeeps DEF LoginPacket
    <2>2. CASE p.type = "LOGIN"
      <3>1. QueueState("Lobby") /\ UNCHANGED <<modal, lists, place>>
        BY <1>1, <1>6, <2>2 DEF LoginPacket, modal
      <3> QED
        BY <1>1, <1>3, <1>5, <3>1, QueueKeeps
    <2>3. CASE p.type \notin {"ERROR", "LOGIN"}
      BY <1>1, <1>3, <1>5, <1>6, <2>3, ListKeeps DEF LoginPacket, lists, modal
    <2> QED
      BY <2>1, <2>2, <2>3
  <1>7. ASSUME LobbyPacket(p) PROVE ScreensInv'
    <2>1. CASE p.type = "ERROR"
      BY <1>1, <1>3, <1>5, <1>7, <2>1, PopupKeeps DEF LobbyPacket
    <2>2. CASE p.type = "INFO"
      BY <1>1, <1>3, <1>5, <1>7, <2>2, PopupKeeps DEF LobbyPacket
    <2>3. CASE p.type = "REQUEST_FRIEND"
      BY <1>1, <1>2, <1>3, <1>5, <1>7, <2>3, PopupKeeps DEF LobbyPacket
    <2>4. CASE p.type = "ROOM_INFO"
      <3>1. /\ room_list' = Append(room_list, p.arg)
            /\ UNCHANGED <<fade, windows, reactable, friend_requester_id, rankings, c2s, crashed, asked>>
            /\ UNCHANGED <<create_error, password>>
        BY <1>7, <2>4 DEF LobbyPacket
      <3>2. room_list' \in Seq(Rooms)
        BY <1>2, <1>5, <2>4, <3>1, AppendProperties
      <3> QED
        BY <1>1, <1>3, <1>5, <3>1, <3>2, ListKeeps DEF modal
    <2>5. CASE p.type = "ADD_ROOM"
      <3>1. PICK scr \in Screens : QueueState(scr)
        BY <1>5, <1>7, <2>5 DEF LobbyPacket
      <3>2. UNCHANGED <<modal, lists, place>>
        BY <1>1, <1>7, <2>5 DEF LobbyPacket, modal
      <3> QED
        BY <1>1, <1>3, <3>1, <3>2, QueueKeeps
    <2>6. CASE p.type \notin {"ERROR", "INFO", "REQUEST_FRIEND", "ROOM_INFO", "ADD_ROOM"}
      BY <1>1, <1>3, <1>5, <1>7, <2>6, ListKeeps DEF LobbyPacket, lists, modal
    <2> QED
      BY <2>1, <2>2, <2>3, <2>4, <2>5, <2>6
  <1>8. ASSUME RankingPacket(p) PROVE ScreensInv'
    <2>1. rankings' \in Nat /\ asked' \in {"once", "again", "unheard"} /\ UNCHANGED <<fade, modal, room_list, crashed>>
      BY <1>5, <1>8 DEF RankingPacket
    <2> QED
      BY <1>1, <1>3, <1>5, <2>1, ListKeeps
  <1>9. ASSUME PlayPacket(p) PROVE ScreensInv'
    <2>1. CASE p.type = "DELETE_USER"
      <3>1. QueueState("Lobby") /\ UNCHANGED <<modal, lists, place>>
        BY <1>1, <1>9, <2>1 DEF PlayPacket
      <3> QED
        BY <1>1, <1>3, <1>5, <3>1, QueueKeeps
    <2>2. CASE p.type # "DELETE_USER"
      BY <1>1, <1>3, <1>5, <1>9, <2>2, ListKeeps DEF PlayPacket, lists
    <2> QED
      BY <2>1, <2>2
  <1> QED
    BY <1>4, <1>6, <1>7, <1>8, <1>9

----------------------------------------------------------------------------
(* The steps of the server. *)

\* Steps of the server.
LEMMA ServerSteps ==
  ASSUME ScreensInv, Serve \/ Decide \/ EnterLobby \/ ServerSpeaks
  PROVE  ScreensInv'
  <1>1. s2c \in Seq(ServerPacket) /\ place \in {"none", "login", "lobby", "pending", "room", "leaving"}
    BY DEF ScreensInv, FieldsTyped, TypeOK
  <1>2. /\ <<Packet("LOGIN", "id")>> \in Seq(ServerPacket) /\ <<Packet("ERROR", "code")>> \in Seq(ServerPacket)
        /\ <<Packet("RANKING_INFO", "r")>> \in Seq(ServerPacket) /\ <<Packet("DELETE_USER", "id")>> \in Seq(ServerPacket)
        /\ <<Packet("INFO", "notice")>> \in Seq(ServerPacket) /\ <<Packet("INFO", "kicked")>> \in Seq(ServerPacket)
        /\ \A n \in {1, 2} : <<Packet("ADD_ROOM", n)>> \in Seq(ServerPacket)
        /\ \A u \in Users : <<Packet("REQUEST_FRIEND", u)>> \in Seq(ServerPacket)
    BY DEF Packet, ServerPacket
  <1>3. /\ s2c' \in Seq(ServerPacket) /\ place' \in {"none", "login", "lobby", "pending", "room", "leaving"}
        /\ UNCHANGED <<fade, modal, lists, crashed, past>>
    <2>1. CASE Serve
      <3> DEFINE r == Head(c2s)
      <3>1. UNCHANGED <<fade, modal, lists, crashed, past>>
        BY <2>1 DEF Serve
      <3>2. CASE place = "login" /\ r = "LOGIN"
        <4>1. \/ Answer(<<Packet("LOGIN", "id")>>) /\ place' = "lobby"
              \/ Answer(<<Packet("ERROR", "code")>>) /\ UNCHANGED place
          BY <2>1, <3>2 DEF Serve
        <4> QED
          BY <1>1, <1>2, <3>1, <4>1, AnswerTyped
      <3>3. CASE place \in {"lobby", "pending"}
        <4>1. LobbyServes(r)
          BY <2>1, <3>3 DEF Serve
        <4>2. CASE r = "ROOM_LIST"
          BY <1>1, <3>1, <4>1, <4>2, AnswerOfRooms, AnswerTyped DEF LobbyServes
        <4>3. CASE r = "RANKING"
          BY <1>1, <1>2, <3>1, <4>1, <4>3, AnswerTyped DEF LobbyServes
        <4>4. CASE r = "ENTER"
          <5>1. \/ place' = "pending" /\ UNCHANGED s2c
                \/ UNCHANGED place /\ Answer(<<Packet("ERROR", "code")>>)
                \/ UNCHANGED <<place, s2c>>
            BY <4>1, <4>4 DEF LobbyServes
          <5> QED
            BY <1>1, <1>2, <3>1, <5>1, AnswerTyped
        <4>5. CASE r = "LOGIN"
          BY <1>1, <1>2, <3>1, <4>1, <4>5, AnswerTyped DEF LobbyServes
        <4>6. CASE r \notin {"ROOM_LIST", "RANKING", "ENTER", "LOGIN"}
          BY <1>1, <3>1, <4>1, <4>6 DEF LobbyServes
        <4> QED
          BY <4>2, <4>3, <4>4, <4>5, <4>6
      <3>4. CASE ~(place = "login" /\ r = "LOGIN") /\ place \notin {"lobby", "pending"}
        <4>1. UNCHANGED s2c /\ (place' = "leaving" \/ UNCHANGED place)
          BY <2>1, <3>4 DEF Serve
        <4> QED
          BY <1>1, <3>1, <4>1
      <3> QED
        BY <3>2, <3>3, <3>4
    <2>2. CASE Decide
      BY <1>1, <1>2, <2>2, AnswerTyped DEF Decide
    <2>3. CASE EnterLobby
      BY <1>1, <1>2, <2>3, AnswerTyped DEF EnterLobby
    <2>4. CASE ServerSpeaks
      BY <1>1, <1>2, <2>4, AnswerTyped DEF ServerSpeaks
    <2> QED
      BY <2>1, <2>2, <2>3, <2>4
  <1> QED
    BY <1>3 DEF ScreensInv, FieldsTyped, TypeOK, WindowsUsable, NeverStuck, RequesterKnown, RoomKnown, fade, modal, password, lists, past

----------------------------------------------------------------------------
(* Theorems. *)

\* The client starts typed, on the login.
LEMMA ScreensInit == Init => ScreensInv
  <1> SUFFICES ASSUME Init PROVE ScreensInv
    OBVIOUS
  <1>1. room_list = <<>> /\ s2c = <<>> /\ room_list \in Seq(Rooms) /\ s2c \in Seq(ServerPacket)
        /\ \A i \in DOMAIN room_list : room_list[i] \in Rooms
    BY EmptySeq DEF Init
  <1>2. "out" # None /\ fade_mode = None /\ next_state = None /\ screen \in Screens
    BY ScreensAssumption DEF Init, Screens
  <1>3. windows \subseteq {"fail_connect"} /\ windows \subseteq Names /\ WindowsUsable
    BY WindowNames DEF Init, WindowsUsable, NeverStuck, RequesterKnown, RoomKnown
  <1>4. TypeOK
    BY <1>1, <1>2, <1>3 DEF Init, TypeOK
  <1> QED
    BY <1>1, <1>2, <1>3, <1>4 DEF ScreensInv, FieldsTyped

\* Every step keeps the fields typed and the windows usable.
LEMMA ScreensStep ==
  ASSUME ScreensInv, [Next]_vars
  PROVE  ScreensInv'
  <1>1. CASE UNCHANGED vars
    BY <1>1 DEF vars, fade, modal, password, lists, net, past, ScreensInv, FieldsTyped, TypeOK, WindowsUsable, NeverStuck, RequesterKnown, RoomKnown
  <1> QED
    BY <1>1, FadeSteps, RequestSteps, LoginSteps, LobbySteps, WindowSteps, PacketSteps, ServerSteps DEF Next

\* The fields keep their types, and the packets under way theirs.
THEOREM ScreensTyped == Spec => []ScreensInv
  BY ScreensInit, ScreensStep, PTL DEF Spec

\* For any rooms, players and packets under way: a screen that does
\* not react has a window that does, the friend popup knows
\* its friend and the password window its room (lobby_state: handle_packet, the *_popup handlers and reactable).
THEOREM WindowsStayUsable == Spec => []WindowsUsable
  <1>1. ScreensInv => WindowsUsable
    BY DEF ScreensInv, WindowsUsable
  <1> QED
    BY <1>1, ScreensTyped, PTL

----------------------------------------------------------------------------
(* What the packets have told the client, and will tell it. *)

\* The screen that the player is on, or on the way to.
Target == IF next_state = None THEN screen ELSE next_state

\* Where the session is: on the login, out of the rooms or in one, as the packets
\* handled so far have told the client, and as the server has it.
Stages == {"login", "out", "in"}
Told == IF Target = "Login" THEN "login"
        ELSE IF Target \in {"Single", "Multi"} \/ missed THEN "in" ELSE "out"
Where == IF place \in {"none", "login"} THEN "login"
         ELSE IF place \in {"lobby", "pending"} THEN "out" ELSE "in"

\* A packet takes the session from one stage to the next.
Turns(a, type, b) ==
  /\ type = "LOGIN" => a = "login" /\ b = "out"
  /\ type = "ADD_ROOM" => a = "out" /\ b = "in"
  /\ type = "DELETE_USER" => a = "in" /\ b = "out"
  /\ type \notin {"LOGIN", "ADD_ROOM", "DELETE_USER"} => b = a

\* The packets ps under way lead through the stages st to the stage w, which is not
\* the login once a stage has passed it, nor a room without its announcement.
Tale(st, ps, w) ==
  /\ st \in [1..(Len(ps) + 1) -> Stages] /\ st[Len(ps) + 1] = w
  /\ \A i \in 1..Len(ps) : Turns(st[i], ps[i].type, st[i + 1])
  /\ \A i \in 1..(Len(ps) + 1) :
       /\ w = "login" => st[i] = "login"
       /\ (st[i] = "out" /\ \A j \in i..Len(ps) : ps[j].type # "ADD_ROOM") => w = "out"

Leads(a, ps, w) == \E st : Tale(st, ps, w) /\ st[1] = a

ToldInv ==
  /\ Leads(Told, s2c, Where)
  /\ missed => Target \in {"Lobby", "Ranking"} /\ asked = "unheard"
  /\ "fail_connect" \in windows => place = "none"

\* Nothing under way: the client has been told where the session is.
LEMMA NothingMore ==
  ASSUME NEW a, NEW ps, NEW w, Leads(a, ps, w), ps = <<>>
  PROVE  a = w
  <1>1. PICK st : Tale(st, ps, w) /\ st[1] = a
    BY DEF Leads
  <1>2. Len(ps) = 0
    BY EmptySeq
  <1> QED
    BY <1>1, <1>2 DEF Tale

\* The session is in a room while the client was told that it is out: the way in is
\* announced; and one that was told of the lobby is not on the login.
LEMMA WayIn ==
  ASSUME NEW ps \in Seq(ServerPacket), NEW w, Leads("out", ps, w)
  PROVE  /\ w # "login"
         /\ w = "in" => \E j \in 1..Len(ps) : ps[j].type = "ADD_ROOM"
  <1>1. PICK st : Tale(st, ps, w) /\ st[1] = "out"
    BY DEF Leads
  <1>2. Len(ps) \in Nat /\ 1 \in 1..(Len(ps) + 1)
    BY LenProperties
  <1> QED
    BY <1>1, <1>2 DEF Tale

\* A packet is read: the client is told the next stage.
LEMMA TaleRead ==
  ASSUME NEW a, NEW ps \in Seq(ServerPacket), NEW w, Leads(a, ps, w), ps # <<>>
  PROVE  \E b \in Stages : a \in Stages /\ Turns(a, Head(ps).type, b) /\ Leads(b, Tail(ps), w)
  <1>1. PICK st : Tale(st, ps, w) /\ st[1] = a
    BY DEF Leads
  <1> DEFINE n == Len(ps)
             tl == Tail(ps)
             su == [i \in 1..n |-> st[i + 1]]
  <1>2. /\ n \in Nat /\ n >= 1 /\ Len(tl) = n - 1 /\ Head(ps) = ps[1]
        /\ \A i \in 1..(n - 1) : tl[i] = ps[i + 1]
    BY LenProperties, HeadTailProperties, EmptySeq
  <1> HIDE DEF tl, n
  <1>3. \A i \in 1..n : su[i] = st[i + 1] /\ i + 1 \in 1..(n + 1)
    BY <1>2
  <1>4. st \in [1..(n + 1) -> Stages] /\ st[n + 1] = w
    BY <1>1 DEF Tale, n
  <1>5. su \in [1..n -> Stages] /\ su[n] = w
    BY <1>2, <1>3, <1>4
  <1>6. \A i \in 1..(n - 1) : Turns(su[i], tl[i].type, su[i + 1])
    <2> TAKE i \in 1..(n - 1)
    <2>1. i \in 1..n /\ i + 1 \in 1..n /\ tl[i] = ps[i + 1] /\ (i + 1) + 1 = i + 2
      BY <1>2
    <2>2. Turns(st[i + 1], ps[i + 1].type, st[(i + 1) + 1])
      BY <1>1, <2>1 DEF Tale, n
    <2> QED
      BY <1>3, <2>1, <2>2
  <1>7. ASSUME NEW i \in 1..n
        PROVE  /\ w = "login" => su[i] = "login"
               /\ (su[i] = "out" /\ \A j \in i..(n - 1) : tl[j].type # "ADD_ROOM") => w = "out"
    <2>1. /\ w = "login" => st[i + 1] = "login"
          /\ (st[i + 1] = "out" /\ \A j \in (i + 1)..n : ps[j].type # "ADD_ROOM") => w = "out"
      BY <1>1, <1>3 DEF Tale, n
    <2>2. ASSUME \A j \in i..(n - 1) : tl[j].type # "ADD_ROOM"
          PROVE  \A j \in (i + 1)..n : ps[j].type # "ADD_ROOM"
      <3> TAKE j \in (i + 1)..n
      <3>1. j - 1 \in i..(n - 1) /\ j - 1 \in 1..(n - 1) /\ (j - 1) + 1 = j
        BY <1>2
      <3>2. tl[j - 1] = ps[j]
        BY <1>2, <3>1
      <3> QED
        BY <2>2, <3>1, <3>2
    <2> QED
      BY <1>3, <2>1, <2>2
  <1>8. Tale(su, tl, w)
    <2>1. Len(tl) = n - 1 /\ (n - 1) + 1 = n
      BY <1>2
    <2> HIDE DEF su
    <2> QED
      BY <1>5, <1>6, <1>7, <2>1 DEF Tale
  <1>9. su[1] = st[2] /\ Turns(st[1], ps[1].type, st[2]) /\ st[1] \in Stages /\ st[2] \in Stages
    BY <1>1, <1>2, <1>4 DEF Tale, n
  <1>10. Leads(st[2], tl, w)
    BY <1>8, <1>9 DEF Leads
  <1> QED
    BY <1>1, <1>2, <1>9, <1>10 DEF tl

\* Packets are sent that lead on from the last stage.
LEMMA TaleSent ==
  ASSUME NEW a, NEW ps \in Seq(ServerPacket), NEW p \in ServerPacket, NEW v, NEW w \in Stages,
         Leads(a, ps, v), Turns(v, p.type, w)
  PROVE  Leads(a, ps \o <<p>>, w)
  <1>1. PICK st : Tale(st, ps, v) /\ st[1] = a
    BY DEF Leads
  <1> DEFINE n == Len(ps)
             qs == ps \o <<p>>
             su == [i \in 1..(n + 2) |-> IF i = n + 2 THEN w ELSE st[i]]
  <1>2. /\ n \in Nat /\ Len(qs) = n + 1 /\ qs[n + 1] = p
        /\ \A i \in 1..n : qs[i] = ps[i]
    BY LenProperties, ConcatProperties
  <1> HIDE DEF qs, n
  <1>3. st \in [1..(n + 1) -> Stages] /\ st[n + 1] = v
    BY <1>1 DEF Tale, n
  <1>4. su[n + 2] = w /\ \A i \in 1..(n + 1) : su[i] = st[i]
    BY <1>2
  <1>5. su \in [1..(n + 2) -> Stages]
    BY <1>2, <1>3
  <1> HIDE DEF su
  <1>6. \A i \in 1..(n + 1) : Turns(su[i], qs[i].type, su[i + 1])
    <2> TAKE i \in 1..(n + 1)
    <2>1. CASE i = n + 1
      <3>1. su[i] = v /\ su[i + 1] = w /\ qs[i] = p
        BY <1>2, <1>3, <1>4, <2>1
      <3> QED
        BY <3>1
    <2>2. CASE i # n + 1
      <3>1. i \in 1..n /\ su[i] = st[i] /\ su[i + 1] = st[i + 1] /\ qs[i] = ps[i]
        BY <1>2, <1>4, <2>2
      <3>2. Turns(st[i], ps[i].type, st[i + 1])
        BY <1>1, <3>1 DEF Tale, n
      <3> QED
        BY <3>1, <3>2
    <2> QED
      BY <2>1, <2>2
  <1>7. ASSUME NEW i \in 1..(n + 2)
        PROVE  /\ w = "login" => su[i] = "login"
               /\ (su[i] = "out" /\ \A j \in i..(n + 1) : qs[j].type # "ADD_ROOM") => w = "out"
    <2>1. CASE i = n + 2
      BY <1>4, <2>1
    <2>2. CASE i # n + 2
      <3>1. i \in 1..(n + 1) /\ su[i] = st[i]
        BY <1>2, <1>4, <2>2
      <3>2. /\ v = "login" => st[i] = "login"
            /\ (st[i] = "out" /\ \A j \in i..n : ps[j].type # "ADD_ROOM") => v = "out"
        BY <1>1, <3>1 DEF Tale, n
      <3>3. w = "login" => v = "login"
        BY DEF Turns
      <3>4. ASSUME \A j \in i..(n + 1) : qs[j].type # "ADD_ROOM", st[i] = "out"
            PROVE  w = "out"
        <4>1. n + 1 \in i..(n + 1) /\ p.type # "ADD_ROOM"
          BY <1>2, <3>1, <3>4
        <4>2. \A j \in i..n : ps[j].type # "ADD_ROOM"
          BY <1>2, <3>1, <3>4
        <4> QED
          BY <3>2, <3>4, <4>1, <4>2 DEF Turns
      <3> QED
        BY <3>1, <3>2, <3>3, <3>4
    <2> QED
      BY <2>1, <2>2
  <1>8. Tale(su, qs, w)
    <2>1. Len(qs) + 1 = n + 2 /\ Len(qs) = n + 1
      BY <1>2
    <2> QED
      BY <1>4, <1>5, <1>6, <1>7, <2>1 DEF Tale
  <1>9. su[1] = a
    BY <1>1, <1>2, <1>4
  <1> QED
    BY <1>8, <1>9 DEF Leads, qs

\* ... or an answer of any length that leads nowhere.
LEMMA TaleAnswered ==
  ASSUME NEW a, NEW ps \in Seq(ServerPacket), NEW xs \in Seq(ServerPacket), NEW w \in Stages,
         Leads(a, ps, w), \A j \in 1..Len(xs) : xs[j].type = "ROOM_INFO"
  PROVE  Leads(a, ps \o xs, w)
  <1>1. PICK st : Tale(st, ps, w) /\ st[1] = a
    BY DEF Leads
  <1> DEFINE n == Len(ps)
             m == Len(xs)
             qs == ps \o xs
             su == [i \in 1..(n + m + 1) |-> IF i <= n THEN st[i] ELSE w]
  <1>2. /\ n \in Nat /\ m \in Nat /\ Len(qs) = n + m
        /\ \A i \in 1..n : qs[i] = ps[i]
        /\ \A i \in (n + 1)..(n + m) : qs[i] = xs[i - n]
    BY LenProperties, ConcatProperties
  <1>3. \A i \in (n + 1)..(n + m) : qs[i].type = "ROOM_INFO"
    <2> TAKE i \in (n + 1)..(n + m)
    <2>1. i - n \in 1..m
      BY <1>2
    <2> QED
      BY <1>2, <2>1
  <1> HIDE DEF qs, n, m
  <1>4. st \in [1..(n + 1) -> Stages] /\ st[n + 1] = w
    BY <1>1 DEF Tale, n
  <1>5. /\ \A i \in 1..(n + 1) : su[i] = st[i]
        /\ \A i \in (n + 1)..(n + m + 1) : su[i] = w
    BY <1>2, <1>4
  <1>6. su \in [1..(n + m + 1) -> Stages]
    BY <1>2, <1>4
  <1> HIDE DEF su
  <1>7. \A i \in 1..(n + m) : Turns(su[i], qs[i].type, su[i + 1])
    <2> TAKE i \in 1..(n + m)
    <2>1. CASE i <= n
      <3>1. i \in 1..n /\ su[i] = st[i] /\ su[i + 1] = st[i + 1] /\ qs[i] = ps[i]
        BY <1>2, <1>5, <2>1
      <3>2. Turns(st[i], ps[i].type, st[i + 1])
        BY <1>1, <3>1 DEF Tale, n
      <3> QED
        BY <3>1, <3>2
    <2>2. CASE i > n
      <3>1. su[i] = w /\ su[i + 1] = w /\ qs[i].type = "ROOM_INFO"
        BY <1>2, <1>3, <1>5, <2>2
      <3> QED
        BY <3>1 DEF Turns
    <2> QED
      BY <1>2, <2>1, <2>2
  <1>8. ASSUME NEW i \in 1..(n + m + 1)
        PROVE  /\ w = "login" => su[i] = "login"
               /\ (su[i] = "out" /\ \A j \in i..(n + m) : qs[j].type # "ADD_ROOM") => w = "out"
    <2>1. CASE i > n
      <3>1. su[i] = w
        BY <1>2, <1>5, <2>1
      <3> QED
        BY <3>1
    <2>2. CASE i <= n
      <3>1. i \in 1..(n + 1) /\ su[i] = st[i]
        BY <1>2, <1>5, <2>2
      <3>2. /\ w = "login" => st[i] = "login"
            /\ (st[i] = "out" /\ \A j \in i..n : ps[j].type # "ADD_ROOM") => w = "out"
        BY <1>1, <3>1 DEF Tale, n
      <3>3. ASSUME \A j \in i..(n + m) : qs[j].type # "ADD_ROOM"
            PROVE  \A j \in i..n : ps[j].type # "ADD_ROOM"
        BY <1>2, <3>1, <3>3
      <3> QED
        BY <3>1, <3>2, <3>3
    <2> QED
      BY <1>2, <2>1, <2>2
  <1>9. Tale(su, qs, w)
    <2>1. n + m + 1 \in (n + 1)..(n + m + 1) /\ su[n + m + 1] = w
      BY <1>2, <1>5
    <2> QED
      BY <1>2, <1>6, <1>7, <1>8, <2>1 DEF Tale
  <1>10. su[1] = a
    BY <1>1, <1>2, <1>5
  <1> QED
    BY <1>9, <1>10 DEF Leads, qs

\* A screen that takes events, or reads packets, is not on its way out.
LEMMA NoneQueued ==
  ASSUME ScreensInv, Reacts \/ HandlePacket
  PROVE  next_state = None /\ Target = screen
  BY ScreensAssumption DEF Reacts, HandlePacket, ScreensInv, FieldsTyped, Target

\* Queueing a screen from one that is not on its way out.
LEMMA Queued ==
  ASSUME ScreensInv, next_state = None, NEW scr \in Screens, QueueState(scr)
  PROVE  Target' = scr /\ next_state' = scr
  BY ScreensAssumption DEF QueueState, Target

\* A list that is asked for from inside a room is not heard.
LEMMA Unheard ==
  ASSUME missed, NEW type, NEW info, asked' = AskedFor(type, info)
  PROVE  asked' = "unheard"
  BY DEF AskedFor

\* Steps that neither tell nor move: what leads on still does.
LEMMA SameTale ==
  ASSUME ScreensInv, ToldInv, UNCHANGED <<s2c, place, missed>>,
         Target' = Target \/ (Target \in {"Lobby", "Ranking"} /\ Target' \in {"Lobby", "Ranking"}),
         missed => asked' = "unheard",
         "fail_connect" \in windows' => "fail_connect" \in windows
  PROVE  ToldInv'
  <1>1. Told' = Told /\ Where' = Where
    BY DEF Told, Where
  <1>2. Leads(Told, s2c, Where)'
    <2>1. Leads(Told, s2c, Where)
      BY DEF ToldInv
    <2> QED
      BY <1>1, <2>1
  <1>3. (missed => Target \in {"Lobby", "Ranking"} /\ asked = "unheard")'
    BY DEF ToldInv
  <1> QED
    BY <1>2, <1>3 DEF ToldInv

\* The player's own steps, and the fades, tell nothing.
LEMMA ClientSteps ==
  ASSUME ScreensInv, ToldInv,
         \/ ChangeScreen \/ FadedIn \/ PressLogin \/ ConfirmLoginError \/ PressMenu \/ PressRanking
         \/ PressRefresh \/ ClickRoom \/ Window \/ PressBack \/ PressLeave
  PROVE  ToldInv'
  <1>0. missed => asked = "unheard"
    BY DEF ToldInv
  <1>1. CASE ChangeScreen
    <2>1. screen' = next_state /\ next_state' = None /\ windows' = {} /\ UNCHANGED <<s2c, place, missed, asked>>
      BY <1>1 DEF ChangeScreen, net, past
    <2>2. next_state # None
      BY <1>1 DEF ChangeScreen, ScreensInv, FieldsTyped
    <2>3. Target' = Target
      BY <2>1, <2>2 DEF Target
    <2> QED
      BY <1>0, <2>1, <2>3, SameTale
  <1>2. CASE FadedIn
    BY <1>0, <1>2, SameTale DEF FadedIn, modal, net, past, Target
  <1>3. CASE PressLogin \/ PressLeave
    BY <1>0, <1>3, SameTale DEF PressLogin, PressLeave, fade, modal, past, Target
  <1>4. CASE ConfirmLoginError
    BY <1>0, <1>4, SameTale DEF ConfirmLoginError, fade, net, past, Target
  <1>5. CASE PressMenu
    BY <1>0, <1>5, SameTale DEF PressMenu, fade, net, past, Target
  <1>6. CASE PressRanking
    <2>1. QueueState("Ranking") /\ screen = "Lobby" /\ UNCHANGED <<modal, s2c, place, missed>> /\ Reacts
      BY <1>6 DEF PressRanking, InLobby
    <2>2. Target = "Lobby" /\ Target' = "Ranking"
      BY <2>1, NoneQueued, Queued DEF Screens
    <2>3. missed => asked' = "unheard"
      BY <2>1, Unheard DEF QueueState
    <2> QED
      BY <2>1, <2>2, <2>3, SameTale DEF modal
  <1>7. CASE PressBack
    <2>1. QueueState("Lobby") /\ screen = "Ranking" /\ UNCHANGED <<modal, s2c, place, missed>> /\ Reacts
      BY <1>7 DEF PressBack
    <2>2. Target = "Ranking" /\ Target' = "Lobby"
      BY <2>1, NoneQueued, Queued DEF Screens
    <2>3. missed => asked' = "unheard"
      BY <2>1, Unheard DEF QueueState
    <2> QED
      BY <2>1, <2>2, <2>3, SameTale DEF modal
  <1>8. CASE PressRefresh
    <2>1. missed => asked' = "unheard"
      BY <1>8, Unheard DEF PressRefresh
    <2> QED
      BY <1>8, <2>1, SameTale DEF PressRefresh, fade, modal, Target
  <1>9. CASE ClickRoom
    <2>1. UNCHANGED <<fade, s2c, place, past>>
      BY <1>9 DEF ClickRoom
    <2>2. windows' = windows \cup {"input_pw"} \/ UNCHANGED windows
      BY <1>9 DEF ClickRoom
    <2> QED
      BY <1>0, <2>1, <2>2, SameTale DEF fade, past, Target
  <1>10. CASE Window
    <2>1. UNCHANGED <<fade, s2c, place, past>>
      BY <1>10 DEF Window, ConfirmNotice, ChooseQuickStart, ChooseMatching, CreateRoom, EnterPassword, AnswerFriend, net
    <2>2. windows' \subseteq windows \cup {"fast_matching"}
      BY <1>10 DEF Window, ConfirmNotice, ChooseQuickStart, ChooseMatching, CreateRoom, EnterPassword, AnswerFriend, CloseWindow
    <2> QED
      BY <1>0, <2>1, <2>2, SameTale DEF fade, past, Target
  <1> QED
    BY <1>1, <1>2, <1>3, <1>4, <1>5, <1>6, <1>7, <1>8, <1>9, <1>10

\* Connecting leads to the login, where the client is.
LEMMA RetrySteps ==
  ASSUME ScreensInv, ToldInv, Retry
  PROVE  ToldInv'
  <1>1. place = "none" /\ place' \in {"none", "login"} /\ UNCHANGED <<fade, s2c, past>>
        /\ ("fail_connect" \in windows' => place' = "none")
    BY DEF Retry, Connect, ToldInv
  <1>2. Where' = Where /\ Told' = Told /\ Target' = Target
    BY <1>1 DEF Where, Told, Target, fade, past
  <1>3. Leads(Told, s2c, Where) /\ s2c' = s2c
    BY <1>1 DEF ToldInv
  <1>4. Leads(Told, s2c, Where)'
    BY <1>2, <1>3
  <1>5. (missed => Target \in {"Lobby", "Ranking"} /\ asked = "unheard")'
    BY <1>1, <1>2 DEF ToldInv, past
  <1> QED
    BY <1>1, <1>4, <1>5 DEF ToldInv

\* What a packet does to the screens.
LEMMA HandledScreens ==
  ASSUME ScreensInv, HandlePacket
  PROVE  LET p == Head(s2c) IN
         /\ s2c # <<>> /\ s2c' = Tail(s2c) /\ place' = place
         /\ screen = "Login" => IF p.type = "LOGIN" THEN Target' = "Lobby" ELSE Target' = Target /\ asked' = asked
         /\ screen = "Lobby" => IF p.type = "ADD_ROOM" THEN Target' \in {"Single", "Multi"} ELSE Target' = Target /\ asked' = asked
         /\ screen = "Ranking" => Target' = Target /\ asked' = IF p.type = "ADD_ROOM" THEN "unheard" ELSE asked
         /\ screen \in {"Single", "Multi"} =>
              IF p.type = "DELETE_USER" THEN Target' = "Lobby" ELSE Target' = Target /\ asked' = asked
         /\ missed' = IF p.type = "ADD_ROOM" THEN screen # "Lobby" ELSE IF p.type = "DELETE_USER" THEN FALSE ELSE missed
         /\ "fail_connect" \in windows' => "fail_connect" \in windows
  <1> DEFINE p == Head(s2c)
  <1>1. /\ s2c # <<>> /\ s2c' = Tail(s2c) /\ place' = place
        /\ missed' = IF p.type = "ADD_ROOM" THEN screen # "Lobby" ELSE IF p.type = "DELETE_USER" THEN FALSE ELSE missed
    BY DEF HandlePacket
  <1>2. /\ screen = "Login" => LoginPacket(p)
        /\ screen = "Lobby" => LobbyPacket(p)
        /\ screen = "Ranking" => RankingPacket(p)
        /\ screen \in {"Single", "Multi"} => PlayPacket(p)
    BY DEF HandlePacket
  <1>3. next_state = None
    BY NoneQueued
  <1> HIDE DEF p
  <1>4. ASSUME LoginPacket(p)
        PROVE  /\ IF p.type = "LOGIN" THEN Target' = "Lobby" ELSE Target' = Target /\ asked' = asked
               /\ "fail_connect" \in windows' => "fail_connect" \in windows
    <2>1. CASE p.type = "LOGIN"
      <3>1. QueueState("Lobby") /\ UNCHANGED windows
        BY <1>4, <2>1 DEF LoginPacket
      <3> QED
        BY <1>3, <2>1, <3>1, Queued DEF Screens
    <2>2. CASE p.type = "ERROR"
      BY <1>4, <2>2 DEF LoginPacket, OpenPopup, fade, Target
    <2>3. CASE p.type \notin {"LOGIN", "ERROR"}
      BY <1>4, <2>3 DEF LoginPacket, fade, Target
    <2> QED
      BY <2>1, <2>2, <2>3
  <1>5. ASSUME LobbyPacket(p)
        PROVE  /\ IF p.type = "ADD_ROOM" THEN Target' \in {"Single", "Multi"} ELSE Target' = Target /\ asked' = asked
               /\ "fail_connect" \in windows' => "fail_connect" \in windows
    <2>1. CASE p.type = "ADD_ROOM"
      <3>1. PICK scr \in {"Single", "Multi"} : QueueState(scr)
        BY <1>5, <2>1 DEF LobbyPacket
      <3>2. UNCHANGED windows
        BY <1>5, <2>1 DEF LobbyPacket
      <3> QED
        BY <1>3, <2>1, <3>1, <3>2, Queued DEF Screens
    <2>2. CASE p.type = "ERROR"
      BY <1>5, <2>2 DEF LobbyPacket, OpenPopup, fade, Target
    <2>3. CASE p.type = "INFO"
      BY <1>5, <2>3 DEF LobbyPacket, OpenPopup, fade, Target
    <2>4. CASE p.type = "REQUEST_FRIEND"
      BY <1>5, <2>4 DEF LobbyPacket, OpenPopup, fade, Target
    <2>5. CASE p.type = "ROOM_INFO"
      BY <1>5, <2>5 DEF LobbyPacket, fade, Target
    <2>6. CASE p.type \notin {"ADD_ROOM", "ERROR", "INFO", "REQUEST_FRIEND", "ROOM_INFO"}
      BY <1>5, <2>6 DEF LobbyPacket, fade, Target
    <2> QED
      BY <2>1, <2>2, <2>3, <2>4, <2>5, <2>6
  <1>6. ASSUME RankingPacket(p)
        PROVE  /\ Target' = Target /\ asked' = IF p.type = "ADD_ROOM" THEN "unheard" ELSE asked
               /\ UNCHANGED windows
    BY <1>6 DEF RankingPacket, fade, modal, Target
  <1>7. ASSUME PlayPacket(p)
        PROVE  /\ IF p.type = "DELETE_USER" THEN Target' = "Lobby" ELSE Target' = Target /\ asked' = asked
               /\ UNCHANGED windows
    <2>1. CASE p.type = "DELETE_USER"
      <3>1. QueueState("Lobby") /\ UNCHANGED windows
        BY <1>7, <2>1 DEF PlayPacket, modal
      <3> QED
        BY <1>3, <2>1, <3>1, Queued DEF Screens
    <2>2. CASE p.type # "DELETE_USER"
      BY <1>7, <2>2 DEF PlayPacket, modal, fade, Target
    <2> QED
      BY <2>1, <2>2
  <1>8. screen \in Screens
    BY DEF ScreensInv, FieldsTyped, TypeOK
  <1>9. "fail_connect" \in windows' => "fail_connect" \in windows
    BY <1>2, <1>4, <1>5, <1>6, <1>7, <1>8 DEF Screens
  <1> HIDE DEF Target
  <1> QED
    BY <1>1, <1>2, <1>4, <1>5, <1>6, <1>7, <1>9 DEF p

\* A packet that is read tells the client what it says.
LEMMA HandleSteps ==
  ASSUME ScreensInv, ToldInv, HandlePacket
  PROVE  ToldInv'
  <1> DEFINE p == Head(s2c)
  <1>0. /\ s2c # <<>> /\ s2c' = Tail(s2c) /\ place' = place
        /\ screen = "Login" => IF p.type = "LOGIN" THEN Target' = "Lobby" ELSE Target' = Target /\ asked' = asked
        /\ screen = "Lobby" => IF p.type = "ADD_ROOM" THEN Target' \in {"Single", "Multi"} ELSE Target' = Target /\ asked' = asked
        /\ screen = "Ranking" => Target' = Target /\ asked' = IF p.type = "ADD_ROOM" THEN "unheard" ELSE asked
        /\ screen \in {"Single", "Multi"} =>
             IF p.type = "DELETE_USER" THEN Target' = "Lobby" ELSE Target' = Target /\ asked' = asked
        /\ missed' = IF p.type = "ADD_ROOM" THEN screen # "Lobby" ELSE IF p.type = "DELETE_USER" THEN FALSE ELSE missed
        /\ "fail_connect" \in windows' => "fail_connect" \in windows
    BY HandledScreens
  <1>1. Target = screen /\ screen \in Screens /\ s2c \in Seq(ServerPacket) /\ missed \in BOOLEAN
    BY NoneQueued DEF ScreensInv, FieldsTyped, TypeOK
  <1>2. Leads(Told, s2c, Where) /\ Where' = Where
        /\ (missed => Target \in {"Lobby", "Ranking"} /\ asked = "unheard")
        /\ ("fail_connect" \in windows => place = "none")
    BY <1>0 DEF ToldInv, Where
  <1>3. PICK a, w : a = Told /\ w = Where
    OBVIOUS
  <1>4. PICK b \in Stages : Turns(a, p.type, b) /\ Leads(b, Tail(s2c), w)
    BY <1>0, <1>1, <1>2, <1>3, TaleRead
  <1> HIDE DEF p
  <1>5. Told' = b /\ (missed' => Target' \in {"Lobby", "Ranking"} /\ asked' = "unheard")
    <2>1. CASE screen = "Login"
      <3>1. a = "login" /\ ~missed
        BY <1>1, <1>2, <1>3, <2>1 DEF Told
      <3>2. p.type \notin {"ADD_ROOM", "DELETE_USER"} /\ ~missed'
        BY <1>0, <1>4, <3>1 DEF Turns
      <3>3. CASE p.type = "LOGIN"
        BY <1>0, <1>4, <2>1, <3>2, <3>3 DEF Turns, Told
      <3>4. CASE p.type # "LOGIN"
        BY <1>0, <1>1, <1>4, <2>1, <3>1, <3>2, <3>4 DEF Turns, Told
      <3> QED
        BY <3>3, <3>4
    <2>2. CASE screen = "Lobby"
      <3>1. a = (IF missed THEN "in" ELSE "out")
        BY <1>1, <1>3, <2>2 DEF Told
      <3>2. CASE p.type = "ADD_ROOM"
        <4>1. b = "in" /\ ~missed' /\ Target' \in {"Single", "Multi"}
          BY <1>0, <1>4, <2>2, <3>2 DEF Turns
        <4> QED
          BY <4>1 DEF Told
      <3>3. CASE p.type = "DELETE_USER"
        <4>1. b = "out" /\ ~missed' /\ Target' = "Lobby"
          BY <1>0, <1>1, <1>4, <2>2, <3>3 DEF Turns
        <4> QED
          BY <4>1 DEF Told
      <3>4. CASE p.type \notin {"ADD_ROOM", "DELETE_USER"}
        <4>1. b = a /\ missed' = missed /\ Target' = "Lobby" /\ asked' = asked
          BY <1>0, <1>1, <1>4, <2>2, <3>1, <3>4 DEF Turns
        <4> QED
          BY <1>2, <3>1, <4>1 DEF Told
      <3> QED
        BY <3>2, <3>3, <3>4
    <2>3. CASE screen = "Ranking"
      <3>1. a = (IF missed THEN "in" ELSE "out") /\ Target' = "Ranking"
        BY <1>0, <1>1, <1>3, <2>3 DEF Told
      <3>2. CASE p.type = "ADD_ROOM"
        <4>1. b = "in" /\ missed' /\ asked' = "unheard"
          BY <1>0, <1>4, <2>3, <3>2 DEF Turns
        <4> QED
          BY <3>1, <4>1 DEF Told
      <3>3. CASE p.type = "DELETE_USER"
        <4>1. b = "out" /\ ~missed'
          BY <1>0, <1>4, <2>3, <3>3 DEF Turns
        <4> QED
          BY <3>1, <4>1 DEF Told
      <3>4. CASE p.type \notin {"ADD_ROOM", "DELETE_USER"}
        <4>1. b = a /\ missed' = missed /\ asked' = asked
          BY <1>0, <1>4, <2>3, <3>1, <3>4 DEF Turns
        <4> QED
          BY <1>2, <3>1, <4>1 DEF Told
      <3> QED
        BY <3>2, <3>3, <3>4
    <2>4. CASE screen \in {"Single", "Multi"}
      <3>1. a = "in" /\ ~missed
        BY <1>1, <1>2, <1>3, <2>4 DEF Told
      <3>2. p.type \notin {"ADD_ROOM", "LOGIN"} /\ ~missed'
        BY <1>0, <1>4, <3>1 DEF Turns
      <3>3. CASE p.type = "DELETE_USER"
        <4>1. b = "out" /\ Target' = "Lobby"
          BY <1>0, <1>4, <2>4, <3>3 DEF Turns
        <4> QED
          BY <3>2, <4>1 DEF Told
      <3>4. CASE p.type # "DELETE_USER"
        <4>1. b = "in" /\ Target' = screen
          BY <1>0, <1>1, <1>4, <2>4, <3>1, <3>2, <3>4 DEF Turns
        <4> QED
          BY <2>4, <3>2, <4>1 DEF Told
      <3> QED
        BY <3>3, <3>4
    <2> QED
      BY <1>1, <2>1, <2>2, <2>3, <2>4 DEF Screens
  <1>6. Leads(Told, s2c, Where)'
    BY <1>0, <1>2, <1>3, <1>4, <1>5
  <1> QED
    BY <1>0, <1>2, <1>5, <1>6 DEF ToldInv

----------------------------------------------------------------------------
(* The lists: what is still to come of an answer. *)

Requests == {"LOGIN", "ROOM_LIST", "RANKING", "ENTER", "LEAVE", "ACCEPT"}

\* The newest answer ans: m of its entries end the list, the rest is under way
\* behind k packets, and nothing of its kind behind it.
Block(ps, list, info, ans, once, k, m) ==
  /\ k \in Nat /\ m \in 0..Len(ans) /\ (m > 0 => k = 0)
  /\ k + (Len(ans) - m) <= Len(ps)
  /\ \A j \in (m + 1)..Len(ans) : ps[k + (j - m)] = Packet(info, ans[j])
  /\ \A j \in 1..Len(ps) : j > k + (Len(ans) - m) => ps[j].type # info
  /\ Len(list) >= m /\ \A j \in 1..m : list[(Len(list) - m) + j] = ans[j]
  /\ once => Len(list) = m /\ \A j \in 1..k : ps[j].type # info

\* A list is asked for, or answered; only once, and with nothing else of its kind,
\* when it was asked for once.
Requested(cs, ps, list, request, info, once) ==
  /\ \E a \in 1..Len(cs) : cs[a] = request /\ (once => \A b \in 1..Len(cs) : cs[b] = request => b = a)
  /\ once => Len(list) = 0 /\ \A j \in 1..Len(ps) : ps[j].type # info
Answered(cs, ps, list, request, info, ans, once) ==
  /\ once => \A b \in 1..Len(cs) : cs[b] # request
  /\ \E k \in Nat, m \in Nat : Block(ps, list, info, ans, once, k, m)
Coming(cs, ps, list, request, info, ans, once) ==
  \/ Requested(cs, ps, list, request, info, once)
  \/ Answered(cs, ps, list, request, info, ans, once)

\* Nothing under way: the list ends with the answer, and is it if asked for once.
LEMMA AllCame ==
  ASSUME NEW list, NEW request, NEW info, NEW ans, NEW once \in BOOLEAN, Len(list) \in Nat, Len(ans) \in Nat,
         Coming(<<>>, <<>>, list, request, info, ans, once)
  PROVE  /\ Len(list) >= Len(ans) /\ (once => Len(list) = Len(ans))
         /\ \A j \in 1..Len(ans) : list[(Len(list) - Len(ans)) + j] = ans[j]
  <1>1. Len(<<>>) = 0
    OBVIOUS
  <1>2. PICK k \in Nat, m \in Nat : Block(<<>>, list, info, ans, once, k, m)
    BY <1>1 DEF Coming, Requested, Answered
  <1>3. m = Len(ans) /\ m \in Nat
    BY <1>1, <1>2 DEF Block
  <1> QED
    BY <1>2, <1>3 DEF Block

\* A list is asked for: it is empty, and the answer comes.
LEMMA AskComes ==
  ASSUME NEW cs \in Seq(Requests), NEW ps \in Seq(ServerPacket), NEW qs \in {ps, Tail(ps)}, ps = <<>> => qs = ps,
         NEW list, Len(list) = 0, NEW request \in Requests, NEW info, NEW ans, NEW once \in BOOLEAN,
         once => request \notin Range(cs) /\ \A p \in Range(ps) : p.type # info
  PROVE  Coming(Append(cs, request), qs, list, request, info, ans, once)
  <1> DEFINE ds == Append(cs, request)
             a == Len(cs) + 1
  <1>1. /\ Len(cs) \in Nat /\ Len(ds) = Len(cs) + 1 /\ a \in 1..Len(ds) /\ ds[a] = request
        /\ \A b \in 1..Len(cs) : ds[b] = cs[b]
    BY LenProperties, AppendProperties
  <1>2. once => \A b \in 1..Len(cs) : cs[b] # request
    BY <1>1 DEF Range
  <1>3. once => \A j \in 1..Len(ps) : ps[j].type # info
    BY DEF Range
  <1>4. once => \A j \in 1..Len(qs) : qs[j].type # info
    <2>1. CASE qs = ps
      BY <1>3, <2>1
    <2>2. CASE qs # ps
      <3>1. qs = Tail(ps) /\ ps # <<>>
        BY <2>2
      <3>2. Len(qs) = Len(ps) - 1 /\ Len(ps) \in Nat /\ \A j \in 1..Len(qs) : qs[j] = ps[j + 1]
        BY <3>1, HeadTailProperties, LenProperties
      <3> QED
        BY <1>3, <3>2
    <2> QED
      BY <2>1, <2>2
  <1> HIDE DEF ds
  <1>5. once => \A b \in 1..Len(ds) : ds[b] = request => b = a
    BY <1>1, <1>2
  <1>6. Requested(ds, qs, list, request, info, once)
    BY <1>1, <1>4, <1>5 DEF Requested
  <1> QED
    BY <1>6 DEF Coming, ds

\* Another request is sent.
LEMMA AskOther ==
  ASSUME NEW cs \in Seq(Requests), NEW ps, NEW list, NEW request, NEW info, NEW ans, NEW once \in BOOLEAN,
         NEW other \in Requests, other # request, Coming(cs, ps, list, request, info, ans, once)
  PROVE  Coming(Append(cs, other), ps, list, request, info, ans, once)
  <1> DEFINE ds == Append(cs, other)
  <1>1. /\ Len(cs) \in Nat /\ Len(ds) = Len(cs) + 1 /\ ds[Len(cs) + 1] = other
        /\ \A b \in 1..Len(cs) : ds[b] = cs[b]
    BY LenProperties, AppendProperties
  <1> HIDE DEF ds
  <1>2. ASSUME Requested(cs, ps, list, request, info, once) PROVE Requested(ds, ps, list, request, info, once)
    <2>1. PICK a \in 1..Len(cs) : cs[a] = request /\ (once => \A b \in 1..Len(cs) : cs[b] = request => b = a)
      BY <1>2 DEF Requested
    <2>2. a \in 1..Len(ds) /\ ds[a] = request /\ (once => \A b \in 1..Len(ds) : ds[b] = request => b = a)
      BY <1>1, <2>1
    <2> QED
      BY <1>2, <2>2 DEF Requested
  <1>3. ASSUME Answered(cs, ps, list, request, info, ans, once) PROVE Answered(ds, ps, list, request, info, ans, once)
    <2>1. once => \A b \in 1..Len(ds) : ds[b] # request
      BY <1>1, <1>3 DEF Answered
    <2> QED
      BY <1>3, <2>1 DEF Answered
  <1> QED
    BY <1>2, <1>3 DEF Coming, ds

\* Another request is taken by the server.
LEMMA OtherServed ==
  ASSUME NEW cs \in Seq(Requests), NEW ps, NEW list, NEW request, NEW info, NEW ans, NEW once \in BOOLEAN,
         cs # <<>>, Head(cs) # request, Coming(cs, ps, list, request, info, ans, once)
  PROVE  Coming(Tail(cs), ps, list, request, info, ans, once)
  <1> DEFINE ds == Tail(cs)
  <1>1. /\ Len(cs) \in Nat /\ Len(cs) >= 1 /\ Len(ds) = Len(cs) - 1 /\ cs[1] # request
        /\ \A b \in 1..Len(ds) : ds[b] = cs[b + 1]
    BY LenProperties, HeadTailProperties, EmptySeq
  <1> HIDE DEF ds
  <1>2. ASSUME Requested(cs, ps, list, request, info, once) PROVE Requested(ds, ps, list, request, info, once)
    <2>1. PICK a \in 1..Len(cs) : cs[a] = request /\ (once => \A b \in 1..Len(cs) : cs[b] = request => b = a)
      BY <1>2 DEF Requested
    <2>2. a # 1 /\ a - 1 \in 1..Len(ds) /\ ds[a - 1] = request
      BY <1>1, <2>1
    <2>3. once => \A b \in 1..Len(ds) : ds[b] = request => b = a - 1
      BY <1>1, <2>1
    <2> QED
      BY <1>2, <2>2, <2>3 DEF Requested
  <1>3. ASSUME Answered(cs, ps, list, request, info, ans, once) PROVE Answered(ds, ps, list, request, info, ans, once)
    <2>1. once => \A b \in 1..Len(ds) : ds[b] # request
      BY <1>1, <1>3 DEF Answered
    <2> QED
      BY <1>3, <2>1 DEF Answered
  <1> QED
    BY <1>2, <1>3 DEF Coming, ds

\* Packets of another kind are sent.
LEMMA OtherSent ==
  ASSUME NEW cs, NEW ps \in Seq(ServerPacket), NEW xs \in Seq(ServerPacket), NEW list, NEW request, NEW info, NEW ans,
         NEW once \in BOOLEAN, \A j \in 1..Len(xs) : xs[j].type # info, Len(ans) \in Nat,
         Coming(cs, ps, list, request, info, ans, once)
  PROVE  Coming(cs, ps \o xs, list, request, info, ans, once)
  <1> DEFINE qs == ps \o xs
             n == Len(xs)
  <1>1. /\ Len(ps) \in Nat /\ n \in Nat /\ Len(qs) = Len(ps) + n
        /\ \A j \in 1..Len(ps) : qs[j] = ps[j]
        /\ \A j \in 1..Len(qs) : j > Len(ps) => qs[j].type # info
    <2>1. Len(ps) \in Nat /\ n \in Nat
      BY LenProperties
    <2>2. Len(qs) = Len(ps) + n
      BY ConcatProperties
    <2>3. \A j \in 1..(Len(ps) + n) : qs[j] = IF j <= Len(ps) THEN ps[j] ELSE xs[j - Len(ps)]
      BY ConcatProperties
    <2>4. \A j \in 1..n : xs[j].type # info
      OBVIOUS
    <2> HIDE DEF qs, n
    <2>5. ASSUME NEW j \in 1..Len(qs), j > Len(ps) PROVE qs[j].type # info
      <3>1. j - Len(ps) \in 1..n /\ qs[j] = xs[j - Len(ps)]
        BY <2>1, <2>2, <2>3, <2>5
      <3> QED
        BY <2>4, <3>1
    <2> QED
      BY <2>1, <2>2, <2>3, <2>5
  <1> HIDE DEF qs, n
  <1>2. ASSUME Requested(cs, ps, list, request, info, once) PROVE Requested(cs, qs, list, request, info, once)
    <2>1. once => Len(list) = 0 /\ \A j \in 1..Len(qs) : qs[j].type # info
      <3>1. SUFFICES ASSUME once PROVE Len(list) = 0 /\ \A j \in 1..Len(qs) : qs[j].type # info
        OBVIOUS
      <3>2. Len(list) = 0 /\ \A j \in 1..Len(ps) : ps[j].type # info
        BY <1>2, <3>1 DEF Requested
      <3> QED
        BY <1>1, <3>2
    <2> QED
      BY <1>2, <2>1 DEF Requested
  <1>3. ASSUME Answered(cs, ps, list, request, info, ans, once) PROVE Answered(cs, qs, list, request, info, ans, once)
    <2>1. PICK k \in Nat, m \in Nat : Block(ps, list, info, ans, once, k, m)
      BY <1>3 DEF Answered
    <2>2. /\ m \in 0..Len(ans) /\ (m > 0 => k = 0) /\ k + (Len(ans) - m) <= Len(ps)
          /\ \A j \in (m + 1)..Len(ans) : ps[k + (j - m)] = Packet(info, ans[j])
          /\ \A j \in 1..Len(ps) : j > k + (Len(ans) - m) => ps[j].type # info
      BY <2>1 DEF Block
    <2>3. \A j \in (m + 1)..Len(ans) : qs[k + (j - m)] = Packet(info, ans[j])
      <3> TAKE j \in (m + 1)..Len(ans)
      <3>1. k + (j - m) \in 1..Len(ps)
        BY <1>1, <2>2
      <3> QED
        BY <1>1, <2>2, <3>1
    <2>4. \A j \in 1..Len(qs) : j > k + (Len(ans) - m) => qs[j].type # info
      <3> TAKE j \in 1..Len(qs)
      <3>1. CASE j > Len(ps)
        BY <1>1, <3>1
      <3>2. CASE ~(j > Len(ps))
        <4>1. j \in 1..Len(ps) /\ qs[j] = ps[j]
          BY <1>1, <3>2
        <4> QED
          BY <2>2, <4>1
      <3> QED
        BY <3>1, <3>2
    <2>5. once => \A j \in 1..k : ps[j].type # info
      BY <2>1 DEF Block
    <2>6. \A j \in 1..k : j \in 1..Len(ps)
      BY <1>1, <2>2
    <2>7. once => \A j \in 1..k : qs[j].type # info
      BY <1>1, <2>5, <2>6
    <2>8. k + (Len(ans) - m) <= Len(qs)
      BY <1>1, <2>2
    <2>9. /\ Len(list) >= m /\ \A j \in 1..m : list[(Len(list) - m) + j] = ans[j]
          /\ once => Len(list) = m
      BY <2>1 DEF Block
    <2>10. Block(qs, list, info, ans, once, k, m)
      BY <2>2, <2>3, <2>4, <2>7, <2>8, <2>9 DEF Block
    <2> QED
      BY <1>3, <2>10 DEF Answered
  <1> QED
    BY <1>2, <1>3 DEF Coming, qs

\* The request is taken and answered.
LEMMA AnswerComes ==
  ASSUME NEW cs \in Seq(Requests), NEW ps \in Seq(ServerPacket), NEW list, NEW request, NEW info, NEW ans,
         NEW once \in BOOLEAN, Len(list) \in Nat, Len(ans) \in Nat,
         NEW xs \in Seq(ServerPacket), Len(xs) = Len(ans), \A j \in 1..Len(ans) : xs[j] = Packet(info, ans[j]),
         cs # <<>>, Head(cs) = request, Coming(cs, ps, list, request, info, ans, once)
  PROVE  Coming(Tail(cs), ps \o xs, list, request, info, ans, once)
  <1> DEFINE ds == Tail(cs)
             qs == ps \o xs
             k == Len(ps)
  <1>1. /\ Len(cs) \in Nat /\ Len(cs) >= 1 /\ Len(ds) = Len(cs) - 1 /\ cs[1] = request
        /\ \A b \in 1..Len(ds) : ds[b] = cs[b + 1]
    BY LenProperties, HeadTailProperties, EmptySeq
  <1>2. /\ k \in Nat /\ Len(qs) = k + Len(ans)
        /\ \A j \in 1..k : qs[j] = ps[j]
        /\ \A j \in (k + 1)..(k + Len(ans)) : qs[j] = xs[j - k]
    <2>1. /\ k \in Nat /\ Len(qs) = k + Len(xs)
          /\ \A j \in 1..k : qs[j] = ps[j]
          /\ \A j \in (k + 1)..(k + Len(xs)) : qs[j] = xs[j - k]
      <3>1. k \in Nat /\ Len(xs) \in Nat
        BY LenProperties
      <3>2. Len(qs) = k + Len(xs)
        BY ConcatProperties
      <3>3. \A j \in 1..(k + Len(xs)) : qs[j] = IF j <= k THEN ps[j] ELSE xs[j - k]
        BY ConcatProperties
      <3> HIDE DEF qs, k
      <3> QED
        BY <3>1, <3>2, <3>3
    <2>2. Len(xs) = Len(ans)
      OBVIOUS
    <2> HIDE DEF qs, k
    <2> QED
      BY <2>1, <2>2
  <1> HIDE DEF ds, qs, k
  <1>3. ASSUME once
        PROVE  /\ \A b \in 1..Len(ds) : ds[b] # request
               /\ Len(list) = 0 /\ \A j \in 1..k : ps[j].type # info
    <2>1. 1 \in 1..Len(cs) /\ ~Answered(cs, ps, list, request, info, ans, once)
      <3>1. 1 \in 1..Len(cs) /\ cs[1] = request
        BY <1>1
      <3>2. SUFFICES ASSUME Answered(cs, ps, list, request, info, ans, once) PROVE FALSE
        BY <3>1
      <3>3. \A c \in 1..Len(cs) : cs[c] # request
        BY <1>3, <3>2 DEF Answered
      <3> QED
        BY <3>1, <3>3
    <2>2. Requested(cs, ps, list, request, info, once)
      BY <2>1 DEF Coming
    <2>3. PICK a \in 1..Len(cs) : cs[a] = request /\ \A b \in 1..Len(cs) : cs[b] = request => b = a
      BY <1>3, <2>2 DEF Requested
    <2>4. a = 1
      BY <1>1, <2>1, <2>3
    <2>5. \A b \in 1..Len(ds) : ds[b] # request
      BY <1>1, <2>3, <2>4
    <2> QED
      BY <1>3, <2>2, <2>5 DEF Requested, k
  <1>4. \A j \in 1..Len(ans) : qs[k + (j - 0)] = Packet(info, ans[j])
    <2> TAKE j \in 1..Len(ans)
    <2>1. k + j \in (k + 1)..(k + Len(ans)) /\ (k + j) - k = j /\ k + (j - 0) = k + j
      BY <1>2
    <2> QED
      BY <1>2, <2>1
  <1>5. \A j \in 1..Len(qs) : ~(j > k + (Len(ans) - 0))
    BY <1>2
  <1>6. once => \A j \in 1..k : qs[j].type # info
    BY <1>2, <1>3
  <1>7. Block(qs, list, info, ans, once, k, 0)
    BY <1>2, <1>3, <1>4, <1>5, <1>6 DEF Block
  <1>8. Answered(ds, qs, list, request, info, ans, once)
    BY <1>2, <1>3, <1>7 DEF Answered
  <1> QED
    BY <1>8 DEF Coming, ds, qs

\* A packet of another kind is read.
LEMMA OtherRead ==
  ASSUME NEW cs, NEW ps \in Seq(ServerPacket), NEW list, NEW request, NEW info, NEW ans, NEW once \in BOOLEAN,
         Len(ans) \in Nat, ps # <<>>, Head(ps).type # info, Coming(cs, ps, list, request, info, ans, once)
  PROVE  Coming(cs, Tail(ps), list, request, info, ans, once)
  <1> DEFINE qs == Tail(ps)
  <1>1. /\ Len(ps) \in Nat /\ Len(ps) >= 1 /\ Len(qs) = Len(ps) - 1 /\ ps[1].type # info
        /\ \A j \in 1..Len(qs) : qs[j] = ps[j + 1]
    BY LenProperties, HeadTailProperties, EmptySeq
  <1> HIDE DEF qs
  <1>2. ASSUME Requested(cs, ps, list, request, info, once) PROVE Requested(cs, qs, list, request, info, once)
    <2>1. once => Len(list) = 0 /\ \A j \in 1..Len(qs) : qs[j].type # info
      BY <1>1, <1>2 DEF Requested
    <2> QED
      BY <1>2, <2>1 DEF Requested
  <1>3. ASSUME Answered(cs, ps, list, request, info, ans, once) PROVE Answered(cs, qs, list, request, info, ans, once)
    <2>1. PICK k \in Nat, m \in Nat : Block(ps, list, info, ans, once, k, m)
      BY <1>3 DEF Answered
    <2>2. /\ m \in 0..Len(ans) /\ (m > 0 => k = 0) /\ k + (Len(ans) - m) <= Len(ps)
          /\ \A j \in (m + 1)..Len(ans) : ps[k + (j - m)] = Packet(info, ans[j])
          /\ \A j \in 1..Len(ps) : j > k + (Len(ans) - m) => ps[j].type # info
          /\ once => \A j \in 1..k : ps[j].type # info
      BY <2>1 DEF Block
    <2>3. CASE k = 0
      <3>1. m = Len(ans)
        <4>1. SUFFICES ASSUME m < Len(ans) PROVE FALSE
          BY <2>2
        <4>2. m + 1 \in (m + 1)..Len(ans) /\ k + ((m + 1) - m) = 1
          BY <2>2, <2>3, <4>1
        <4>3. ps[1] = Packet(info, ans[m + 1])
          BY <2>2, <4>2
        <4> QED
          BY <1>1, <4>3 DEF Packet
      <3>2. \A j \in 1..Len(qs) : qs[j].type # info
        BY <1>1, <2>2, <2>3, <3>1
      <3>3. (m + 1)..Len(ans) = {} /\ 1..k = {} /\ k + (Len(ans) - m) <= Len(qs)
        BY <1>1, <2>2, <2>3, <3>1
      <3>4. Block(qs, list, info, ans, once, k, m)
        BY <1>1, <2>1, <3>2, <3>3 DEF Block
      <3> QED
        BY <1>3, <3>4 DEF Answered
    <2>4. CASE k # 0
      <3>1. m = 0 /\ k - 1 \in Nat /\ (k - 1) + (Len(ans) - m) <= Len(qs)
        BY <1>1, <2>2, <2>4
      <3>2. \A j \in (m + 1)..Len(ans) : qs[(k - 1) + (j - m)] = Packet(info, ans[j])
        <4> TAKE j \in (m + 1)..Len(ans)
        <4>1. (k - 1) + (j - m) \in 1..Len(qs) /\ ((k - 1) + (j - m)) + 1 = k + (j - m)
          BY <1>1, <2>2, <3>1
        <4> QED
          BY <1>1, <2>2, <4>1
      <3>3. \A j \in 1..Len(qs) : j > (k - 1) + (Len(ans) - m) => qs[j].type # info
        <4> TAKE j \in 1..Len(qs)
        <4>1. j + 1 \in 1..Len(ps) /\ (j > (k - 1) + (Len(ans) - m) => j + 1 > k + (Len(ans) - m))
          BY <1>1, <2>2, <3>1
        <4> QED
          BY <1>1, <2>2, <4>1
      <3>4. once => \A j \in 1..(k - 1) : qs[j].type # info
        BY <1>1, <2>2, <3>1
      <3>5. Block(qs, list, info, ans, once, k - 1, m)
        BY <1>1, <2>1, <2>2, <3>1, <3>2, <3>3, <3>4 DEF Block
      <3> QED
        BY <1>3, <3>1, <3>5 DEF Answered
    <2> QED
      BY <2>3, <2>4
  <1> QED
    BY <1>2, <1>3 DEF Coming, qs

\* An entry of the list is read.
LEMMA EntryRead ==
  ASSUME NEW cs, NEW ps \in Seq(ServerPacket), NEW T, NEW list \in Seq(T), NEW request, NEW info, NEW ans,
         NEW once \in BOOLEAN, Len(ans) \in Nat, ps # <<>>, Head(ps).type = info, Head(ps).arg \in T,
         Coming(cs, ps, list, request, info, ans, once)
  PROVE  Coming(cs, Tail(ps), Append(list, Head(ps).arg), request, info, ans, once)
  <1> DEFINE qs == Tail(ps)
             e == Head(ps).arg
             next == Append(list, e)
  <1>1. /\ Len(ps) \in Nat /\ Len(ps) >= 1 /\ Len(qs) = Len(ps) - 1 /\ ps[1].type = info /\ ps[1].arg = e
        /\ \A j \in 1..Len(qs) : qs[j] = ps[j + 1]
    BY LenProperties, HeadTailProperties, EmptySeq
  <1>2. /\ Len(list) \in Nat /\ Len(next) = Len(list) + 1 /\ next[Len(list) + 1] = e
        /\ \A j \in 1..Len(list) : next[j] = list[j]
    BY LenProperties, AppendProperties
  <1> HIDE DEF qs, e, next
  <1>3. ASSUME Requested(cs, ps, list, request, info, once) PROVE Requested(cs, qs, next, request, info, once)
    <2>1. 1 \in 1..Len(ps) /\ ~once
      BY <1>1, <1>3 DEF Requested
    <2> QED
      BY <1>3, <2>1 DEF Requested
  <1>4. ASSUME Answered(cs, ps, list, request, info, ans, once) PROVE Answered(cs, qs, next, request, info, ans, once)
    <2>1. PICK k \in Nat, m \in Nat : Block(ps, list, info, ans, once, k, m)
      BY <1>4 DEF Answered
    <2>2. /\ m \in 0..Len(ans) /\ (m > 0 => k = 0) /\ k + (Len(ans) - m) <= Len(ps)
          /\ \A j \in (m + 1)..Len(ans) : ps[k + (j - m)] = Packet(info, ans[j])
          /\ \A j \in 1..Len(ps) : j > k + (Len(ans) - m) => ps[j].type # info
          /\ Len(list) >= m /\ \A j \in 1..m : list[(Len(list) - m) + j] = ans[j]
          /\ once => Len(list) = m /\ \A j \in 1..k : ps[j].type # info
      BY <2>1 DEF Block
    <2>3. CASE k = 0
      <3>1. m < Len(ans)
        BY <1>1, <2>2, <2>3
      <3>2. m + 1 \in (m + 1)..Len(ans) /\ k + ((m + 1) - m) = 1 /\ m + 1 \in 0..Len(ans)
        BY <2>2, <2>3, <3>1
      <3>3. ps[1] = Packet(info, ans[m + 1])
        BY <2>2, <3>2
      <3>4. e = ans[m + 1]
        BY <1>1, <3>3 DEF Packet
      <3>5. \A j \in ((m + 1) + 1)..Len(ans) : qs[0 + (j - (m + 1))] = Packet(info, ans[j])
        <4> TAKE j \in ((m + 1) + 1)..Len(ans)
        <4>1. /\ 0 + (j - (m + 1)) \in 1..Len(qs) /\ (0 + (j - (m + 1))) + 1 = k + (j - m)
              /\ j \in (m + 1)..Len(ans)
          BY <1>1, <2>2, <2>3
        <4> QED
          BY <1>1, <2>2, <4>1
      <3>6. \A j \in 1..Len(qs) : j > 0 + (Len(ans) - (m + 1)) => qs[j].type # info
        <4> TAKE j \in 1..Len(qs)
        <4>1. j + 1 \in 1..Len(ps) /\ (j > 0 + (Len(ans) - (m + 1)) => j + 1 > k + (Len(ans) - m))
          BY <1>1, <2>2, <2>3
        <4> QED
          BY <1>1, <2>2, <4>1
      <3>7. \A j \in 1..(m + 1) : next[(Len(next) - (m + 1)) + j] = ans[j]
        <4> TAKE j \in 1..(m + 1)
        <4>1. (Len(next) - (m + 1)) + j = (Len(list) - m) + j
          BY <1>2
        <4>2. CASE j = m + 1
          <5>1. (Len(list) - m) + j = Len(list) + 1
            BY <1>2, <4>2
          <5> QED
            BY <1>2, <3>4, <4>1, <4>2, <5>1
        <4>3. CASE j # m + 1
          <5>1. j \in 1..m /\ (Len(list) - m) + j \in 1..Len(list)
            BY <1>2, <2>2, <4>3
          <5> QED
            BY <1>2, <2>2, <4>1, <5>1
        <4> QED
          BY <4>2, <4>3
      <3>8. /\ Len(next) >= m + 1 /\ 0 + (Len(ans) - (m + 1)) <= Len(qs) /\ 1..0 = {}
            /\ once => Len(next) = m + 1
        BY <1>1, <1>2, <2>2, <2>3
      <3>9. Block(qs, next, info, ans, once, 0, m + 1)
        BY <3>2, <3>5, <3>6, <3>7, <3>8 DEF Block
      <3> QED
        BY <1>4, <3>2, <3>9 DEF Answered
    <2>4. CASE k # 0
      <3>1. m = 0 /\ k - 1 \in Nat /\ (k - 1) + (Len(ans) - m) <= Len(qs)
        BY <1>1, <2>2, <2>4
      <3>2. 1 \in 1..k /\ ~once
        BY <1>1, <2>2, <3>1
      <3>3. \A j \in (m + 1)..Len(ans) : qs[(k - 1) + (j - m)] = Packet(info, ans[j])
        <4> TAKE j \in (m + 1)..Len(ans)
        <4>1. (k - 1) + (j - m) \in 1..Len(qs) /\ ((k - 1) + (j - m)) + 1 = k + (j - m)
          BY <1>1, <2>2, <3>1
        <4> QED
          BY <1>1, <2>2, <4>1
      <3>4. \A j \in 1..Len(qs) : j > (k - 1) + (Len(ans) - m) => qs[j].type # info
        <4> TAKE j \in 1..Len(qs)
        <4>1. j + 1 \in 1..Len(ps) /\ (j > (k - 1) + (Len(ans) - m) => j + 1 > k + (Len(ans) - m))
          BY <1>1, <2>2, <3>1
        <4> QED
          BY <1>1, <2>2, <4>1
      <3>5. Len(next) >= m /\ \A j \in 1..m : next[(Len(next) - m) + j] = ans[j]
        BY <1>2, <3>1
      <3>6. Block(qs, next, info, ans, once, k - 1, m)
        BY <2>2, <3>1, <3>2, <3>3, <3>4, <3>5 DEF Block
      <3> QED
        BY <1>4, <3>1, <3>6 DEF Answered
    <2> QED
      BY <2>3, <2>4
  <1> QED
    BY <1>3, <1>4 DEF Coming, qs, next, e

----------------------------------------------------------------------------
(* What the server says. *)

RoomsAnswer == [i \in DOMAIN RoomList |-> Packet("ROOM_INFO", RoomList[i])]
RanksAnswer == <<Packet("RANKING_INFO", "r")>>

\* One packet, of no list, or none.
Speaks ==
  /\ \/ s2c' = s2c /\ Where' = Where
     \/ \E p \in ServerPacket : /\ s2c' = s2c \o <<p>> /\ Turns(Where, p.type, Where')
                                /\ p.type \notin {"ROOM_INFO", "RANKING_INFO"}
  /\ \/ c2s' = c2s
     \/ /\ c2s # <<>> /\ c2s' = Tail(c2s)
        /\ Head(c2s) \notin {"ROOM_LIST", "RANKING"} \/ Where # "out"

\* A list that was asked for.
Lists(request, answer) ==
  /\ c2s # <<>> /\ Head(c2s) = request /\ c2s' = Tail(c2s)
  /\ s2c' = s2c \o answer /\ Where' = Where

\* One packet that leads on.
LEMMA Says ==
  ASSUME NEW type, NEW arg, Packet(type, arg) \in ServerPacket, type \notin {"ROOM_INFO", "RANKING_INFO"},
         s2c' = s2c \o <<Packet(type, arg)>>, Turns(Where, type, Where'),
         \/ c2s' = c2s
         \/ c2s # <<>> /\ c2s' = Tail(c2s) /\ (Head(c2s) \notin {"ROOM_LIST", "RANKING"} \/ Where # "out")
  PROVE  Speaks
  <1> DEFINE p == Packet(type, arg)
  <1>1. p \in ServerPacket /\ p.type = type /\ s2c' = s2c \o <<p>>
    BY DEF Packet
  <1> HIDE DEF p
  <1>2. \E q \in ServerPacket : s2c' = s2c \o <<q>> /\ Turns(Where, q.type, Where') /\ q.type \notin {"ROOM_INFO", "RANKING_INFO"}
    <2>1. p.type \notin {"ROOM_INFO", "RANKING_INFO"} /\ Turns(Where, p.type, Where')
      BY <1>1
    <2> QED
      BY <1>1, <2>1
  <1> QED
    BY <1>2 DEF Speaks

\* A step of the server says one thing, nothing, or a list that was asked for.
LEMMA ServerDoes ==
  ASSUME ScreensInv, Serve \/ Decide \/ EnterLobby \/ ServerSpeaks
  PROVE  /\ UNCHANGED <<screen, next_state, windows, room_list, rankings, missed, asked>>
         /\ place = "none" => place' = "none"
         /\ Speaks \/ Lists("ROOM_LIST", RoomsAnswer) \/ Lists("RANKING", RanksAnswer)
  <1>1. place \in {"none", "login", "lobby", "pending", "room", "leaving"}
    BY DEF ScreensInv, FieldsTyped, TypeOK
  <1>2. /\ Packet("LOGIN", "id") \in ServerPacket /\ Packet("ERROR", "code") \in ServerPacket
        /\ Packet("DELETE_USER", "id") \in ServerPacket
        /\ Packet("INFO", "notice") \in ServerPacket /\ Packet("INFO", "kicked") \in ServerPacket
        /\ \A n \in {1, 2} : Packet("ADD_ROOM", n) \in ServerPacket
        /\ \A u \in Users : Packet("REQUEST_FRIEND", u) \in ServerPacket
    BY DEF Packet, ServerPacket
  <1>4. UNCHANGED <<screen, next_state, windows, room_list, rankings, missed, asked>>
    BY DEF Serve, Decide, EnterLobby, ServerSpeaks, fade, modal, lists, past
  <1>5. CASE Serve
    <2> DEFINE r == Head(c2s)
    <2>1. c2s # <<>> /\ c2s' = Tail(c2s)
      BY <1>5 DEF Serve
    <2>2. CASE place = "login" /\ r = "LOGIN"
      <3>1. \/ s2c' = s2c \o <<Packet("LOGIN", "id")>> /\ place' = "lobby"
            \/ s2c' = s2c \o <<Packet("ERROR", "code")>> /\ place' = place
        BY <1>5, <2>2 DEF Serve, Answer
      <3>2. r \notin {"ROOM_LIST", "RANKING"}
        BY <2>2
      <3>3. CASE s2c' = s2c \o <<Packet("LOGIN", "id")>> /\ place' = "lobby"
        <4>1. Turns(Where, "LOGIN", Where')
          BY <2>2, <3>3 DEF Turns, Where
        <4> QED
          BY <1>2, <1>4, <2>1, <2>2, <3>2, <3>3, <4>1, Says
      <3>4. CASE s2c' = s2c \o <<Packet("ERROR", "code")>> /\ place' = place
        <4>1. Turns(Where, "ERROR", Where')
          BY <3>4 DEF Turns, Where
        <4> QED
          BY <1>2, <1>4, <2>1, <2>2, <3>2, <3>4, <4>1, Says
      <3> QED
        BY <3>1, <3>3, <3>4
    <2>3. CASE place \in {"lobby", "pending"}
      <3>1. LobbyServes(r)
        BY <1>5, <2>3 DEF Serve
      <3>2. CASE r = "ROOM_LIST"
        <4>1. s2c' = s2c \o RoomsAnswer /\ place' = place
          BY <3>1, <3>2 DEF LobbyServes, Answer, RoomsAnswer
        <4>2. Where' = Where
          BY <4>1 DEF Where
        <4> QED
          BY <1>4, <2>1, <3>2, <4>1, <4>2 DEF Lists
      <3>3. CASE r = "RANKING"
        <4>1. s2c' = s2c \o RanksAnswer /\ place' = place
          BY <3>1, <3>3 DEF LobbyServes, Answer, RanksAnswer
        <4>2. Where' = Where
          BY <4>1 DEF Where
        <4> QED
          BY <1>4, <2>1, <3>3, <4>1, <4>2 DEF Lists
      <3>4. CASE r \notin {"ROOM_LIST", "RANKING"}
        <4>1. /\ place' \in {"lobby", "pending"}
              /\ s2c' = s2c \/ s2c' = s2c \o <<Packet("ERROR", "code")>>
          BY <2>3, <3>1, <3>4 DEF LobbyServes, Answer
        <4>2. Where = "out" /\ Where' = "out"
          BY <2>3, <4>1 DEF Where
        <4>3. Turns(Where, "ERROR", Where')
          BY <4>2 DEF Turns
        <4>4. CASE s2c' = s2c
          BY <1>4, <2>1, <2>3, <3>4, <4>2, <4>4 DEF Speaks
        <4>5. CASE s2c' = s2c \o <<Packet("ERROR", "code")>>
          BY <1>2, <1>4, <2>1, <2>3, <3>4, <4>3, <4>5, Says
        <4> QED
          BY <4>1, <4>4, <4>5, <1>4, <2>3
      <3> QED
        BY <3>2, <3>3, <3>4
    <2>4. CASE ~(place = "login" /\ r = "LOGIN") /\ place \notin {"lobby", "pending"}
      <3>1. s2c' = s2c /\ ((place = "room" /\ place' = "leaving") \/ place' = place)
        BY <1>5, <2>4 DEF Serve
      <3>2. Where # "out" /\ Where' = Where
        BY <1>1, <2>4, <3>1 DEF Where
      <3> QED
        BY <1>4, <2>1, <3>1, <3>2 DEF Speaks
    <2> QED
      BY <2>2, <2>3, <2>4
  <1>6. CASE Decide
    <2>1. place = "pending" /\ c2s' = c2s
      BY <1>6 DEF Decide
    <2>2. CASE place' = "room" /\ \E n \in {1, 2} : Answer(<<Packet("ADD_ROOM", n)>>)
      <3>1. PICK n \in {1, 2} : s2c' = s2c \o <<Packet("ADD_ROOM", n)>>
        BY <2>2 DEF Answer
      <3>2. Turns(Where, "ADD_ROOM", Where')
        BY <2>1, <2>2 DEF Turns, Where
      <3> QED
        BY <1>2, <1>4, <2>1, <3>1, <3>2, Says
    <2>3. CASE place' = "lobby" /\ Answer(<<Packet("ERROR", "code")>>)
      <3>1. Turns(Where, "ERROR", Where')
        BY <2>1, <2>3 DEF Turns, Where
      <3> QED
        BY <1>2, <1>4, <2>1, <2>3, <3>1, Says DEF Answer
    <2> QED
      BY <1>6, <2>2, <2>3 DEF Decide
  <1>7. CASE EnterLobby
    <2>1. place = "leaving" /\ place' = "lobby" /\ s2c' = s2c \o <<Packet("DELETE_USER", "id")>> /\ c2s' = c2s
      BY <1>7 DEF EnterLobby, Answer
    <2>2. Turns(Where, "DELETE_USER", Where')
      BY <2>1 DEF Turns, Where
    <2> QED
      BY <1>2, <1>4, <2>1, <2>2, Says
  <1>8. CASE ServerSpeaks
    <2>1. c2s' = c2s
      BY <1>8 DEF ServerSpeaks
    <2>2. CASE place = "lobby" /\ UNCHANGED place /\ \E u \in Users : Answer(<<Packet("REQUEST_FRIEND", u)>>)
      <3>1. PICK u \in Users : s2c' = s2c \o <<Packet("REQUEST_FRIEND", u)>>
        BY <2>2 DEF Answer
      <3>2. Turns(Where, "REQUEST_FRIEND", Where')
        BY <2>2 DEF Turns, Where
      <3> QED
        BY <1>2, <1>4, <2>1, <2>2, <3>1, <3>2, Says
    <2>3. CASE place = "lobby" /\ UNCHANGED place /\ Answer(<<Packet("INFO", "notice")>>)
      <3>1. Turns(Where, "INFO", Where')
        BY <2>3 DEF Turns, Where
      <3> QED
        BY <1>2, <1>4, <2>1, <2>3, <3>1, Says DEF Answer
    <2>4. CASE place = "room" /\ place' = "leaving" /\ Answer(<<Packet("INFO", "kicked")>>)
      <3>1. Turns(Where, "INFO", Where')
        BY <2>4 DEF Turns, Where
      <3> QED
        BY <1>2, <1>4, <2>1, <2>4, <3>1, Says DEF Answer
    <2> QED
      BY <1>8, <2>2, <2>3, <2>4 DEF ServerSpeaks
  <1> QED
    BY <1>5, <1>6, <1>7, <1>8

\* The answers are lists of packets of their kind, one for each entry.
LEMMA AnswersTyped ==
  /\ RoomsAnswer \in Seq(ServerPacket) /\ RanksAnswer \in Seq(ServerPacket)
  /\ Len(RoomList) \in Nat /\ Len(RoomsAnswer) = Len(RoomList) /\ Len(RanksAnswer) = Len(<<"r">>)
  /\ \A j \in 1..Len(RoomList) : RoomsAnswer[j] = Packet("ROOM_INFO", RoomList[j])
  /\ \A j \in 1..Len(<<"r">>) : RanksAnswer[j] = Packet("RANKING_INFO", <<"r">>[j])
  /\ \A j \in 1..Len(RoomsAnswer) : RoomsAnswer[j].type = "ROOM_INFO"
  /\ \A j \in 1..Len(RanksAnswer) : RanksAnswer[j].type = "RANKING_INFO"
  <1>1. RoomsAnswer \in Seq(ServerPacket)
    BY AnswerOfRooms DEF RoomsAnswer
  <1>2. /\ DOMAIN RoomList = 1..Cardinality(Rooms) /\ Cardinality(Rooms) \in Nat
        /\ RoomList \in Seq(Rooms)
    <2>1. RoomList \in [1..Cardinality(Rooms) -> Rooms]
      BY ListOfRooms DEF RoomList
    <2> QED
      BY <2>1, ListOfRooms, SeqDef
  <1>3. Len(RoomList) \in Nat /\ 1..Len(RoomList) = DOMAIN RoomList
    BY <1>2, LenProperties
  <1>4. DOMAIN RoomsAnswer = DOMAIN RoomList /\ \A j \in DOMAIN RoomList : RoomsAnswer[j] = Packet("ROOM_INFO", RoomList[j])
    BY DEF RoomsAnswer
  <1>5. Len(RoomsAnswer) = Len(RoomList)
    <2>1. DOMAIN RoomsAnswer = 1..Len(RoomsAnswer) /\ Len(RoomsAnswer) \in Nat
      BY <1>1, LenProperties
    <2> QED
      BY <1>3, <1>4, <2>1
  <1>6. \A j \in 1..Len(RoomsAnswer) : RoomsAnswer[j].type = "ROOM_INFO"
    BY <1>3, <1>4, <1>5 DEF Packet
  <1>7. Packet("RANKING_INFO", "r") \in ServerPacket
    BY DEF Packet, ServerPacket
  <1>8. RanksAnswer \in Seq(ServerPacket)
    BY <1>7 DEF RanksAnswer
  <1>9. /\ Len(RanksAnswer) = 1 /\ Len(<<"r">>) = 1
        /\ RanksAnswer[1] = Packet("RANKING_INFO", "r") /\ <<"r">>[1] = "r"
    BY DEF RanksAnswer
  <1>10. \A j \in 1..1 : j = 1
    OBVIOUS
  <1>11. /\ \A j \in 1..Len(<<"r">>) : RanksAnswer[j] = Packet("RANKING_INFO", <<"r">>[j])
         /\ \A j \in 1..Len(RanksAnswer) : RanksAnswer[j].type = "RANKING_INFO"
    BY <1>9, <1>10 DEF Packet
  <1> QED
    BY <1>1, <1>3, <1>4, <1>5, <1>6, <1>8, <1>9, <1>11

\* What the server says leads on to where it has the session.
LEMMA ServerTells ==
  ASSUME ScreensInv, ToldInv, Serve \/ Decide \/ EnterLobby \/ ServerSpeaks
  PROVE  ToldInv'
  <1>1. /\ UNCHANGED <<screen, next_state, windows, room_list, rankings, missed, asked>>
        /\ place = "none" => place' = "none"
        /\ Speaks \/ Lists("ROOM_LIST", RoomsAnswer) \/ Lists("RANKING", RanksAnswer)
    BY ServerDoes
  <1>2. s2c \in Seq(ServerPacket) /\ Where \in Stages /\ Where' \in Stages
    BY DEF ScreensInv, FieldsTyped, Where, Stages
  <1>3. PICK a, ps, v, qs, w : a = Told /\ ps = s2c /\ v = Where /\ qs = s2c' /\ w = Where'
    OBVIOUS
  <1>4. Leads(a, ps, v)
    BY <1>3 DEF ToldInv
  <1>5. ps \in Seq(ServerPacket) /\ v \in Stages /\ w \in Stages
    BY <1>2, <1>3
  <1>6. Leads(a, qs, w)
    <2>1. CASE Speaks
      <3>1. CASE s2c' = s2c /\ Where' = Where
        BY <1>3, <1>4, <3>1
      <3>2. CASE \E p \in ServerPacket : s2c' = s2c \o <<p>> /\ Turns(Where, p.type, Where')
        <4>1. PICK p \in ServerPacket : qs = ps \o <<p>> /\ Turns(v, p.type, w)
          BY <1>3, <3>2
        <4> QED
          BY <1>4, <1>5, <4>1, TaleSent
      <3> QED
        BY <2>1, <3>1, <3>2 DEF Speaks
    <2>2. CASE Lists("ROOM_LIST", RoomsAnswer)
      <3>1. qs = ps \o RoomsAnswer /\ w = v
        BY <1>3, <2>2 DEF Lists
      <3>2. Leads(a, ps \o RoomsAnswer, v)
        BY <1>4, <1>5, AnswersTyped, TaleAnswered
      <3> QED
        BY <3>1, <3>2
    <2>3. CASE Lists("RANKING", RanksAnswer)
      <3>1. qs = ps \o <<Packet("RANKING_INFO", "r")>> /\ w = v
        BY <1>3, <2>3 DEF Lists, RanksAnswer
      <3>2. Packet("RANKING_INFO", "r") \in ServerPacket /\ Turns(v, Packet("RANKING_INFO", "r").type, v)
        BY DEF Packet, ServerPacket, Turns
      <3>3. Leads(a, ps \o <<Packet("RANKING_INFO", "r")>>, v)
        BY <1>4, <1>5, <3>2, TaleSent
      <3> QED
        BY <3>1, <3>3
    <2> QED
      BY <1>1, <2>1, <2>2, <2>3
  <1>7. Told' = Told /\ Target' = Target
    BY <1>1 DEF Told, Target
  <1>8. Leads(Told, s2c, Where)'
    BY <1>3, <1>6, <1>7
  <1> QED
    BY <1>1, <1>7, <1>8 DEF ToldInv

----------------------------------------------------------------------------
(* The list of the screen to come. *)

\* The list that the new screen starts with, or that of the screen itself.
ListThere == IF next_state = None THEN room_list ELSE <<>>
Ranks(n) == [i \in 1..n |-> "r"]
RanksThere == Ranks(IF next_state = None THEN rankings ELSE 0)

\* The session is not on its way into a room, as far as the packets tell.
Hears == asked # "unheard" /\ \A j \in 1..Len(s2c) : s2c[j].type # "ADD_ROOM"
RoomsCome == Coming(c2s, s2c, ListThere, "ROOM_LIST", "ROOM_INFO", RoomList, asked = "once")
RanksCome == Coming(c2s, s2c, RanksThere, "RANKING", "RANKING_INFO", <<"r">>, asked = "once")

\* A lobby that hears has its list, or part of it, and the rest is under way.
ListInv ==
  /\ c2s \in Seq(Requests)
  /\ Hears /\ Target = "Lobby" => RoomsCome
  /\ Hears /\ Target = "Ranking" => RanksCome

\* Rankings are counted: a list of n entries, and one entry more.
LEMMA RanksTyped ==
  ASSUME NEW n \in Nat
  PROVE  /\ Ranks(n) \in Seq({"r"}) /\ Len(Ranks(n)) = n
         /\ Append(Ranks(n), "r") = Ranks(n + 1)
  <1>1. /\ Ranks(n) \in [1..n -> {"r"}] /\ Ranks(n + 1) \in [1..(n + 1) -> {"r"}]
        /\ n + 1 \in Nat
    BY DEF Ranks
  <1>2. Ranks(n) \in Seq({"r"}) /\ Ranks(n + 1) \in Seq({"r"})
    BY <1>1, SeqDef
  <1>3. Len(Ranks(n)) = n /\ Len(Ranks(n + 1)) = n + 1
    BY <1>1, <1>2, LenProperties
  <1>4. /\ Append(Ranks(n), "r") \in Seq({"r"}) /\ Len(Append(Ranks(n), "r")) = n + 1
    BY <1>2, <1>3, AppendProperties
  <1>5. \A i \in 1..(n + 1) : Append(Ranks(n), "r")[i] = Ranks(n + 1)[i]
    <2>1. \A i \in 1..(n + 1) : Append(Ranks(n), "r")[i] \in {"r"}
      BY <1>4, ElementOfSeq
    <2> QED
      BY <1>1, <2>1
  <1>6. Append(Ranks(n), "r") = Ranks(n + 1)
    BY <1>2, <1>3, <1>4, <1>5, SeqEqual
  <1> QED
    BY <1>2, <1>3, <1>6

\* A new screen, or a new request, while the old list is gone.
LEMMA Asks ==
  ASSUME c2s \in Seq(Requests), s2c \in Seq(ServerPacket), NEW request \in Requests, NEW info, NEW ans, NEW list,
         s2c' \in {s2c, Tail(s2c)}, s2c = <<>> => s2c' = s2c, Len(list) = 0,
         c2s' = Append(c2s, request), asked' = AskedFor(request, info)
  PROVE  /\ c2s' \in Seq(Requests)
         /\ Coming(c2s', s2c', list, request, info, ans, asked' = "once")
  <1>0. PICK once \in BOOLEAN : once = (asked' = "once")
    OBVIOUS
  <1>1. PICK cs, ps, qs : cs = c2s /\ ps = s2c /\ qs = s2c'
    OBVIOUS
  <1>2. once => request \notin Range(cs) /\ \A p \in Range(ps) : p.type # info
    BY <1>0, <1>1 DEF AskedFor
  <1>3. cs \in Seq(Requests) /\ ps \in Seq(ServerPacket) /\ qs \in {ps, Tail(ps)} /\ (ps = <<>> => qs = ps)
    BY <1>1
  <1>4. Coming(Append(cs, request), qs, list, request, info, ans, once)
    BY <1>2, <1>3, AskComes
  <1>5. Append(cs, request) \in Seq(Requests)
    BY <1>3, AppendProperties
  <1> QED
    BY <1>0, <1>1, <1>4, <1>5

\* A screen that is queued has an empty list.
LEMMA Queues ==
  ASSUME ScreensInv, ListInv, next_state = None, NEW scr \in {"Lobby", "Ranking"}, QueueState(scr),
         s2c' \in {s2c, Tail(s2c)}, s2c = <<>> => s2c' = s2c
  PROVE  ListInv'
  <1>1. Target' = scr /\ next_state' = scr /\ scr # None /\ "all" # None
    BY Queued, ScreensAssumption DEF Screens
  <1>2. ListThere' = <<>> /\ RanksThere' = Ranks(0) /\ Len(<<>>) = 0 /\ Len(Ranks(0)) = 0
    BY <1>1, RanksTyped DEF ListThere, RanksThere
  <1>3. c2s \in Seq(Requests) /\ s2c \in Seq(ServerPacket)
    BY DEF ListInv, ScreensInv, FieldsTyped
  <1>4. CASE scr = "Lobby"
    <2>1. c2s' = Append(c2s, "ROOM_LIST") /\ asked' = AskedFor("ROOM_LIST", "ROOM_INFO")
      BY <1>1, <1>4 DEF QueueState, Send
    <2>2. /\ c2s' \in Seq(Requests)
          /\ Coming(c2s', s2c', <<>>, "ROOM_LIST", "ROOM_INFO", RoomList, asked' = "once")
      BY <1>2, <1>3, <2>1, Asks DEF Requests
    <2>3. RoomsCome'
      BY <1>2, <2>2 DEF RoomsCome
    <2> QED
      BY <1>1, <1>4, <2>2, <2>3 DEF ListInv
  <1>5. CASE scr = "Ranking"
    <2>1. c2s' = Append(c2s, "RANKING") /\ asked' = AskedFor("RANKING", "RANKING_INFO")
      BY <1>1, <1>5 DEF QueueState, Send
    <2>2. PICK rs : rs = Ranks(0)
      OBVIOUS
    <2>3. /\ c2s' \in Seq(Requests)
          /\ Coming(c2s', s2c', rs, "RANKING", "RANKING_INFO", <<"r">>, asked' = "once")
      BY <1>2, <1>3, <2>1, <2>2, Asks DEF Requests
    <2>4. RanksCome'
      BY <1>2, <2>2, <2>3 DEF RanksCome
    <2> QED
      BY <1>1, <1>5, <2>3, <2>4 DEF ListInv
  <1> QED
    BY <1>4, <1>5

\* Steps that leave the lists and what is told of them alone.
LEMMA SameLists ==
  ASSUME ListInv, UNCHANGED <<s2c, asked>>, Target' = Target, ListThere' = ListThere, RanksThere' = RanksThere,
         \/ c2s' = c2s
         \/ \E other \in Requests \ {"ROOM_LIST", "RANKING"} : c2s' = Append(c2s, other)
  PROVE  ListInv'
  <1>1. Hears' = Hears
    BY DEF Hears
  <1>2. CASE c2s' = c2s
    BY <1>1, <1>2 DEF ListInv, RoomsCome, RanksCome
  <1>3. CASE \E other \in Requests \ {"ROOM_LIST", "RANKING"} : c2s' = Append(c2s, other)
    <2>1. PICK other \in Requests : other # "ROOM_LIST" /\ other # "RANKING" /\ c2s' = Append(c2s, other)
      BY <1>3
    <2>0. PICK once \in BOOLEAN : once = (asked = "once")
      OBVIOUS
    <2>2. PICK cs, ps, list, ranks : cs = c2s /\ ps = s2c /\ list = ListThere /\ ranks = RanksThere
      OBVIOUS
    <2>3. cs \in Seq(Requests)
      BY <2>2 DEF ListInv
    <2>4. ASSUME Hears, Target = "Lobby" PROVE RoomsCome'
      <3>1. Coming(cs, ps, list, "ROOM_LIST", "ROOM_INFO", RoomList, once)
        BY <2>0, <2>2, <2>4 DEF ListInv, RoomsCome
      <3>2. Coming(Append(cs, other), ps, list, "ROOM_LIST", "ROOM_INFO", RoomList, once)
        BY <2>1, <2>3, <3>1, AskOther
      <3> QED
        BY <2>0, <2>1, <2>2, <3>2 DEF RoomsCome
    <2>5. ASSUME Hears, Target = "Ranking" PROVE RanksCome'
      <3>1. Coming(cs, ps, ranks, "RANKING", "RANKING_INFO", <<"r">>, once)
        BY <2>0, <2>2, <2>5 DEF ListInv, RanksCome
      <3>2. Coming(Append(cs, other), ps, ranks, "RANKING", "RANKING_INFO", <<"r">>, once)
        BY <2>1, <2>3, <3>1, AskOther
      <3> QED
        BY <2>0, <2>1, <2>2, <3>2 DEF RanksCome
    <2>6. c2s' \in Seq(Requests)
      BY <2>1, <2>2, <2>3, AppendProperties
    <2> QED
      BY <1>1, <2>4, <2>5, <2>6 DEF ListInv
  <1> QED
    BY <1>2, <1>3

\* The server says something else than a list.
LEMMA SpeaksOfNone ==
  ASSUME s2c \in Seq(ServerPacket), ListInv, ToldInv, Speaks, UNCHANGED <<asked, missed>>, Target' = Target,
         ListThere' = ListThere, RanksThere' = RanksThere
  PROVE  ListInv'
  <1>0. PICK once \in BOOLEAN : once = (asked = "once")
    OBVIOUS
  <1>1. PICK cs, ps, ds, qs, list, ranks :
          cs = c2s /\ ps = s2c /\ ds = c2s' /\ qs = s2c' /\ list = ListThere /\ ranks = RanksThere
    OBVIOUS
  <1>2. cs \in Seq(Requests) /\ ps \in Seq(ServerPacket)
    BY <1>1 DEF ListInv
  <1>3. PICK xs \in Seq(ServerPacket) :
          qs = ps \o xs /\ \A j \in 1..Len(xs) : xs[j].type \notin {"ROOM_INFO", "RANKING_INFO"}
    <2>1. CASE s2c' = s2c
      <3>1. <<>> \in Seq(ServerPacket) /\ qs = ps \o <<>> /\ Len(<<>>) = 0
        BY <1>1, <1>2, <2>1, ConcatEmptySeq
      <3>2. 1..0 = {}
        OBVIOUS
      <3> QED
        BY <3>1, <3>2
    <2>2. CASE \E p \in ServerPacket : s2c' = s2c \o <<p>> /\ p.type \notin {"ROOM_INFO", "RANKING_INFO"}
      <3>1. PICK p \in ServerPacket : qs = ps \o <<p>> /\ p.type \notin {"ROOM_INFO", "RANKING_INFO"}
        BY <1>1, <2>2
      <3>2. <<p>> \in Seq(ServerPacket) /\ Len(<<p>>) = 1 /\ <<p>>[1] = p
        OBVIOUS
      <3>3. \A j \in 1..1 : j = 1
        OBVIOUS
      <3> QED
        BY <3>1, <3>2, <3>3
    <2> QED
      BY <2>1, <2>2 DEF Speaks
  <1>4. Hears' => Hears
    <2>1. SUFFICES ASSUME Hears' PROVE \A j \in 1..Len(ps) : ps[j].type # "ADD_ROOM"
      BY <1>1 DEF Hears
    <2>2. Len(qs) = Len(ps) + Len(xs) /\ Len(ps) \in Nat /\ Len(xs) \in Nat
      BY <1>2, <1>3, ConcatProperties, LenProperties
    <2>3. \A j \in 1..Len(ps) : j \in 1..Len(qs) /\ qs[j] = ps[j]
      BY <1>2, <1>3, <2>2, ConcatProperties
    <2>4. \A j \in 1..Len(qs) : qs[j].type # "ADD_ROOM"
      BY <1>1, <2>1 DEF Hears
    <2> QED
      BY <2>3, <2>4
  <1>5. ASSUME Hears, Target \in {"Lobby", "Ranking"} PROVE Where = "out"
    <2>1. ~missed
      BY <1>5 DEF Hears, ToldInv
    <2>2. Told = "out"
      BY <1>5, <2>1 DEF Told
    <2>3. PICK w : w = Where
      OBVIOUS
    <2>4. Leads("out", ps, w)
      BY <1>1, <2>2, <2>3 DEF ToldInv
    <2>5. w # "login" /\ (w = "in" => \E j \in 1..Len(ps) : ps[j].type = "ADD_ROOM")
      BY <1>2, <2>4, WayIn
    <2>6. w # "in"
      BY <1>1, <1>5, <2>5 DEF Hears
    <2> QED
      BY <2>3, <2>5, <2>6 DEF Where
  <1>6. /\ ds \in Seq(Requests)
        /\ ds = cs \/ (cs # <<>> /\ ds = Tail(cs) /\ (Head(cs) \notin {"ROOM_LIST", "RANKING"} \/ Where # "out"))
    <2>1. ds = cs \/ (cs # <<>> /\ ds = Tail(cs) /\ (Head(cs) \notin {"ROOM_LIST", "RANKING"} \/ Where # "out"))
      BY <1>1 DEF Speaks
    <2> QED
      BY <1>2, <2>1, HeadTailProperties
  <1>7. Len(RoomList) \in Nat /\ Len(<<"r">>) \in Nat
    BY AnswersTyped
  <1>8. \A j \in 1..Len(xs) : xs[j].type # "ROOM_INFO" /\ xs[j].type # "RANKING_INFO"
    BY <1>3
  <1>9. ASSUME Hears', Target = "Lobby" PROVE RoomsCome'
    <2>1. Coming(cs, ps, list, "ROOM_LIST", "ROOM_INFO", RoomList, once)
      BY <1>0, <1>1, <1>4, <1>9 DEF ListInv, RoomsCome
    <2>2. Coming(cs, qs, list, "ROOM_LIST", "ROOM_INFO", RoomList, once)
      BY <1>2, <1>3, <1>7, <1>8, <2>1, OtherSent
    <2>3. ds = cs \/ (cs # <<>> /\ ds = Tail(cs) /\ Head(cs) # "ROOM_LIST")
      BY <1>4, <1>5, <1>6, <1>9
    <2>4. Coming(ds, qs, list, "ROOM_LIST", "ROOM_INFO", RoomList, once)
      BY <1>2, <2>2, <2>3, OtherServed
    <2> QED
      BY <1>0, <1>1, <2>4 DEF RoomsCome
  <1>10. ASSUME Hears', Target = "Ranking" PROVE RanksCome'
    <2>1. Coming(cs, ps, ranks, "RANKING", "RANKING_INFO", <<"r">>, once)
      BY <1>0, <1>1, <1>4, <1>10 DEF ListInv, RanksCome
    <2>2. Coming(cs, qs, ranks, "RANKING", "RANKING_INFO", <<"r">>, once)
      BY <1>2, <1>3, <1>7, <1>8, <2>1, OtherSent
    <2>3. ds = cs \/ (cs # <<>> /\ ds = Tail(cs) /\ Head(cs) # "RANKING")
      BY <1>4, <1>5, <1>6, <1>10
    <2>4. Coming(ds, qs, ranks, "RANKING", "RANKING_INFO", <<"r">>, once)
      BY <1>2, <2>2, <2>3, OtherServed
    <2> QED
      BY <1>0, <1>1, <2>4 DEF RanksCome
  <1> QED
    BY <1>1, <1>6, <1>9, <1>10 DEF ListInv

\* The server answers with a list.
LEMMA ListsTell ==
  ASSUME s2c \in Seq(ServerPacket), ListInv, UNCHANGED asked, Target' = Target,
         ListThere' = ListThere, RanksThere' = RanksThere, Len(ListThere) \in Nat, Len(RanksThere) \in Nat,
         Lists("ROOM_LIST", RoomsAnswer) \/ Lists("RANKING", RanksAnswer)
  PROVE  ListInv'
  <1>0. PICK once \in BOOLEAN : once = (asked = "once")
    OBVIOUS
  <1>1. PICK cs, ps, ds, qs, list, ranks :
          cs = c2s /\ ps = s2c /\ ds = c2s' /\ qs = s2c' /\ list = ListThere /\ ranks = RanksThere
    OBVIOUS
  <1>2. cs \in Seq(Requests) /\ ps \in Seq(ServerPacket) /\ Len(list) \in Nat /\ Len(ranks) \in Nat
    BY <1>1 DEF ListInv
  <1>3. /\ cs # <<>> /\ ds = Tail(cs)
        /\ \/ Head(cs) = "ROOM_LIST" /\ qs = ps \o RoomsAnswer
           \/ Head(cs) = "RANKING" /\ qs = ps \o RanksAnswer
    BY <1>1 DEF Lists
  <1>4. ds \in Seq(Requests)
    BY <1>2, <1>3, HeadTailProperties
  <1>5. PICK xs \in Seq(ServerPacket) : qs = ps \o xs /\ xs \in {RoomsAnswer, RanksAnswer}
    BY <1>3, AnswersTyped
  <1>6. Hears' => Hears
    <2>1. SUFFICES ASSUME Hears' PROVE \A j \in 1..Len(ps) : ps[j].type # "ADD_ROOM"
      BY <1>1 DEF Hears
    <2>2. Len(qs) = Len(ps) + Len(xs) /\ Len(ps) \in Nat /\ Len(xs) \in Nat
      BY <1>2, <1>5, ConcatProperties, LenProperties
    <2>3. \A j \in 1..Len(ps) : j \in 1..Len(qs) /\ qs[j] = ps[j]
      BY <1>2, <1>5, <2>2, ConcatProperties
    <2>4. \A j \in 1..Len(qs) : qs[j].type # "ADD_ROOM"
      BY <1>1, <2>1 DEF Hears
    <2> QED
      BY <2>3, <2>4
  <1>7. ASSUME Hears', Target = "Lobby" PROVE RoomsCome'
    <2>1. Coming(cs, ps, list, "ROOM_LIST", "ROOM_INFO", RoomList, once)
      BY <1>0, <1>1, <1>6, <1>7 DEF ListInv, RoomsCome
    <2>2. CASE Head(cs) = "ROOM_LIST" /\ qs = ps \o RoomsAnswer
      <3>1. Coming(ds, qs, list, "ROOM_LIST", "ROOM_INFO", RoomList, once)
        BY <1>2, <1>3, <2>1, <2>2, AnswersTyped, AnswerComes
      <3> QED
        BY <1>0, <1>1, <3>1 DEF RoomsCome
    <2>3. CASE Head(cs) = "RANKING" /\ qs = ps \o RanksAnswer
      <3>1. \A j \in 1..Len(RanksAnswer) : RanksAnswer[j].type # "ROOM_INFO"
        BY AnswersTyped
      <3>2. Coming(cs, qs, list, "ROOM_LIST", "ROOM_INFO", RoomList, once)
        BY <1>2, <2>1, <2>3, <3>1, AnswersTyped, OtherSent
      <3>3. Coming(ds, qs, list, "ROOM_LIST", "ROOM_INFO", RoomList, once)
        BY <1>2, <1>3, <2>3, <3>2, OtherServed
      <3> QED
        BY <1>0, <1>1, <3>3 DEF RoomsCome
    <2> QED
      BY <1>3, <2>2, <2>3
  <1>8. ASSUME Hears', Target = "Ranking" PROVE RanksCome'
    <2>1. Coming(cs, ps, ranks, "RANKING", "RANKING_INFO", <<"r">>, once)
      BY <1>0, <1>1, <1>6, <1>8 DEF ListInv, RanksCome
    <2>2. CASE Head(cs) = "RANKING" /\ qs = ps \o RanksAnswer
      <3>0. Len(<<"r">>) \in Nat
        OBVIOUS
      <3>1. Coming(ds, qs, ranks, "RANKING", "RANKING_INFO", <<"r">>, once)
        BY <1>2, <1>3, <2>1, <2>2, <3>0, AnswersTyped, AnswerComes
      <3> QED
        BY <1>0, <1>1, <3>1 DEF RanksCome
    <2>3. CASE Head(cs) = "ROOM_LIST" /\ qs = ps \o RoomsAnswer
      <3>1. /\ \A j \in 1..Len(RoomsAnswer) : RoomsAnswer[j].type # "RANKING_INFO"
            /\ Len(<<"r">>) \in Nat
        BY AnswersTyped
      <3>2. Coming(cs, qs, ranks, "RANKING", "RANKING_INFO", <<"r">>, once)
        BY <1>2, <2>1, <2>3, <3>1, AnswersTyped, OtherSent
      <3>3. Coming(ds, qs, ranks, "RANKING", "RANKING_INFO", <<"r">>, once)
        BY <1>2, <1>3, <2>3, <3>2, OtherServed
      <3> QED
        BY <1>0, <1>1, <3>3 DEF RanksCome
    <2> QED
      BY <1>3, <2>2, <2>3
  <1> QED
    BY <1>1, <1>4, <1>7, <1>8 DEF ListInv

\* The lists are sequences.
LEMMA ListsTyped ==
  ASSUME ScreensInv
  PROVE  /\ ListThere \in Seq(Rooms) /\ Len(ListThere) \in Nat
         /\ RanksThere \in Seq({"r"}) /\ Len(RanksThere) \in Nat
  <1>1. room_list \in Seq(Rooms) /\ rankings \in Nat
    BY DEF ScreensInv, FieldsTyped, TypeOK
  <1>2. ListThere \in Seq(Rooms)
    BY <1>1 DEF ListThere
  <1>3. PICK n \in Nat : n = (IF next_state = None THEN rankings ELSE 0)
    BY <1>1
  <1>4. RanksThere = Ranks(n)
    BY <1>3 DEF RanksThere
  <1> QED
    BY <1>2, <1>4, LenProperties, RanksTyped

\* Whatever the server says, the list of the screen to come is whole or under way.
LEMMA ServerLists ==
  ASSUME ScreensInv, ToldInv, ListInv, Serve \/ Decide \/ EnterLobby \/ ServerSpeaks
  PROVE  ListInv'
  <1>1. /\ UNCHANGED <<screen, next_state, room_list, rankings, missed, asked>>
        /\ Speaks \/ Lists("ROOM_LIST", RoomsAnswer) \/ Lists("RANKING", RanksAnswer)
    BY ServerDoes
  <1>2. /\ Target' = Target /\ ListThere' = ListThere /\ RanksThere' = RanksThere
        /\ s2c \in Seq(ServerPacket)
    BY <1>1 DEF Target, ListThere, RanksThere, ScreensInv, FieldsTyped
  <1> QED
    BY <1>1, <1>2, ListsTyped, SpeaksOfNone, ListsTell

\* A packet that is read and queues no lobby: its entry joins the list, or it is none.
LEMMA Reads ==
  ASSUME s2c \in Seq(ServerPacket), ListInv, s2c # <<>>, s2c' = Tail(s2c), UNCHANGED <<c2s, asked>>, Target' = Target,
         Head(s2c).type # "ADD_ROOM", ListThere \in Seq(Rooms), RanksThere \in Seq({"r"}),
         Target = "Lobby" => IF Head(s2c).type = "ROOM_INFO"
                             THEN Head(s2c).arg \in Rooms /\ ListThere' = Append(ListThere, Head(s2c).arg)
                             ELSE ListThere' = ListThere,
         Target = "Ranking" => IF Head(s2c).type = "RANKING_INFO"
                               THEN Head(s2c).arg = "r" /\ RanksThere' = Append(RanksThere, "r")
                               ELSE RanksThere' = RanksThere
  PROVE  ListInv'
  <1>0. PICK once \in BOOLEAN : once = (asked = "once")
    OBVIOUS
  <1>1. PICK cs, ps, list, ranks : cs = c2s /\ ps = s2c /\ list = ListThere /\ ranks = RanksThere
    OBVIOUS
  <1>2. PICK nexts, nextr : nexts = ListThere' /\ nextr = RanksThere'
    OBVIOUS
  <1>3. /\ ps \in Seq(ServerPacket) /\ ps # <<>> /\ s2c' = Tail(ps) /\ c2s' = cs /\ cs \in Seq(Requests)
        /\ list \in Seq(Rooms) /\ ranks \in Seq({"r"}) /\ Head(ps).type # "ADD_ROOM"
    BY <1>1 DEF ListInv
  <1>4. Len(RoomList) \in Nat /\ Len(<<"r">>) \in Nat
    BY AnswersTyped
  <1>5. Hears' => Hears
    <2>1. SUFFICES ASSUME Hears' PROVE \A j \in 1..Len(ps) : ps[j].type # "ADD_ROOM"
      BY <1>1 DEF Hears
    <2>2. PICK qs : qs = Tail(ps)
      OBVIOUS
    <2>3. \A j \in 1..Len(qs) : qs[j].type # "ADD_ROOM"
      BY <1>3, <2>1, <2>2 DEF Hears
    <2>4. /\ Len(ps) \in Nat /\ Len(qs) = Len(ps) - 1 /\ ps[1] = Head(ps)
          /\ \A j \in 1..Len(qs) : qs[j] = ps[j + 1]
      BY <1>3, <2>2, LenProperties, HeadTailProperties
    <2> TAKE j \in 1..Len(ps)
    <2>5. CASE j = 1
      BY <1>3, <2>4, <2>5
    <2>6. CASE j # 1
      <3>1. j - 1 \in 1..Len(qs) /\ (j - 1) + 1 = j
        BY <2>4, <2>6
      <3> QED
        BY <2>3, <2>4, <3>1
    <2> QED
      BY <2>5, <2>6
  <1>6. ASSUME Hears', Target = "Lobby" PROVE RoomsCome'
    <2>1. Coming(cs, ps, list, "ROOM_LIST", "ROOM_INFO", RoomList, once)
      BY <1>0, <1>1, <1>5, <1>6 DEF ListInv, RoomsCome
    <2>2. CASE Head(ps).type = "ROOM_INFO"
      <3>1. Head(ps).arg \in Rooms /\ nexts = Append(list, Head(ps).arg)
        BY <1>1, <1>2, <1>6, <2>2
      <3>2. Coming(cs, Tail(ps), Append(list, Head(ps).arg), "ROOM_LIST", "ROOM_INFO", RoomList, once)
        BY <1>3, <1>4, <2>1, <2>2, <3>1, EntryRead
      <3> QED
        BY <1>0, <1>2, <1>3, <3>1, <3>2 DEF RoomsCome
    <2>3. CASE Head(ps).type # "ROOM_INFO"
      <3>1. nexts = list
        BY <1>1, <1>2, <1>6, <2>3
      <3>2. Coming(cs, Tail(ps), list, "ROOM_LIST", "ROOM_INFO", RoomList, once)
        BY <1>3, <1>4, <2>1, <2>3, OtherRead
      <3> QED
        BY <1>0, <1>2, <1>3, <3>1, <3>2 DEF RoomsCome
    <2> QED
      BY <2>2, <2>3
  <1>7. ASSUME Hears', Target = "Ranking" PROVE RanksCome'
    <2>1. Coming(cs, ps, ranks, "RANKING", "RANKING_INFO", <<"r">>, once)
      BY <1>0, <1>1, <1>5, <1>7 DEF ListInv, RanksCome
    <2>2. CASE Head(ps).type = "RANKING_INFO"
      <3>1. Head(ps).arg \in {"r"} /\ nextr = Append(ranks, Head(ps).arg)
        BY <1>1, <1>2, <1>7, <2>2
      <3>2. Coming(cs, Tail(ps), Append(ranks, Head(ps).arg), "RANKING", "RANKING_INFO", <<"r">>, once)
        BY <1>3, <1>4, <2>1, <2>2, <3>1, EntryRead
      <3> QED
        BY <1>0, <1>2, <1>3, <3>1, <3>2 DEF RanksCome
    <2>3. CASE Head(ps).type # "RANKING_INFO"
      <3>1. nextr = ranks
        BY <1>1, <1>2, <1>7, <2>3
      <3>2. Coming(cs, Tail(ps), ranks, "RANKING", "RANKING_INFO", <<"r">>, once)
        BY <1>3, <1>4, <2>1, <2>3, OtherRead
      <3> QED
        BY <1>0, <1>2, <1>3, <3>1, <3>2 DEF RanksCome
    <2> QED
      BY <2>2, <2>3
  <1> QED
    BY <1>3, <1>6, <1>7 DEF ListInv

\* Whatever is read, the list of the screen to come is whole or under way.
LEMMA HandleLists ==
  ASSUME ScreensInv, ListInv, HandlePacket
  PROVE  ListInv'
  <1> DEFINE p == Head(s2c)
  <1>1. /\ s2c # <<>> /\ s2c' = Tail(s2c) /\ s2c \in Seq(ServerPacket) /\ c2s \in Seq(Requests)
        /\ next_state = None /\ Target = screen /\ screen \in Screens
    BY NoneQueued DEF HandlePacket, ScreensInv, FieldsTyped, TypeOK, ListInv
  <1>2. p \in ServerPacket
    BY <1>1, HeadTailProperties
  <1>3. /\ screen = "Login" => LoginPacket(p)
        /\ screen = "Lobby" => LobbyPacket(p)
        /\ screen = "Ranking" => RankingPacket(p)
        /\ screen \in {"Single", "Multi"} => PlayPacket(p)
    BY DEF HandlePacket
  <1>4. ListThere = room_list /\ RanksThere = Ranks(rankings) /\ rankings \in Nat
        /\ ListThere \in Seq(Rooms) /\ RanksThere \in Seq({"r"})
    BY <1>1, ListsTyped DEF ListThere, RanksThere, ScreensInv, FieldsTyped, TypeOK
  <1>5. /\ p.type = "ROOM_INFO" => p.arg \in Rooms
        /\ p.type = "RANKING_INFO" => p.arg = "r"
    BY <1>2 DEF ServerPacket
  <1> HIDE DEF p
  <1>6. ASSUME screen \notin {"Lobby", "Ranking"}, Target' = screen, c2s' = c2s PROVE ListInv'
    BY <1>1, <1>6 DEF ListInv
  <1>7. CASE screen = "Login"
    <2>1. CASE p.type = "LOGIN"
      <3>1. QueueState("Lobby")
        BY <1>3, <1>7, <2>1 DEF LoginPacket
      <3> QED
        BY <1>1, <3>1, Queues
    <2>2. CASE p.type # "LOGIN"
      <3>1. Target' = screen /\ c2s' = c2s
        BY <1>1, <1>3, <1>7, <2>2 DEF LoginPacket, Target, fade
      <3> QED
        BY <1>6, <1>7, <3>1
    <2> QED
      BY <2>1, <2>2
  <1>8. CASE screen = "Lobby"
    <2>1. CASE p.type = "ADD_ROOM"
      <3>1. PICK scr \in {"Single", "Multi"} : QueueState(scr)
        BY <1>3, <1>8, <2>1 DEF LobbyPacket
      <3>2. Target' = scr /\ c2s' = c2s
        BY <1>1, <3>1, Queued DEF QueueState, Screens
      <3> QED
        BY <1>1, <3>2 DEF ListInv
    <2>2. CASE p.type = "ROOM_INFO"
      <3>1. room_list' = Append(room_list, p.arg) /\ UNCHANGED <<screen, next_state, c2s, asked>>
        BY <1>3, <1>8, <2>2 DEF LobbyPacket, fade
      <3>2. Target' = Target /\ ListThere' = Append(ListThere, p.arg)
        BY <1>1, <1>4, <3>1 DEF Target, ListThere
      <3> QED
        BY <1>1, <1>4, <1>5, <1>8, <2>2, <3>1, <3>2, Reads DEF p
    <2>3. CASE p.type \notin {"ADD_ROOM", "ROOM_INFO"}
      <3>1. UNCHANGED <<screen, next_state, c2s, asked, room_list>>
        BY <1>3, <1>8, <2>3 DEF LobbyPacket, fade, lists
      <3>2. Target' = Target /\ ListThere' = ListThere
        BY <3>1 DEF Target, ListThere
      <3> QED
        BY <1>1, <1>4, <1>8, <2>3, <3>1, <3>2, Reads DEF p
    <2> QED
      BY <2>1, <2>2, <2>3
  <1>9. CASE screen = "Ranking"
    <2>1. UNCHANGED <<screen, next_state, c2s>> /\ Target' = Target
      BY <1>3, <1>9 DEF RankingPacket, fade, Target
    <2>2. CASE p.type = "ADD_ROOM"
      <3>1. asked' = "unheard"
        BY <1>3, <1>9, <2>2 DEF RankingPacket
      <3> QED
        BY <1>1, <2>1, <3>1 DEF ListInv, Hears
    <2>3. CASE p.type = "RANKING_INFO"
      <3>1. rankings' = rankings + 1 /\ asked' = asked
        BY <1>3, <1>9, <2>3 DEF RankingPacket
      <3>2. RanksThere' = Ranks(rankings + 1)
        BY <1>1, <2>1, <3>1 DEF RanksThere
      <3>3. RanksThere' = Append(RanksThere, "r")
        BY <1>4, <3>2, RanksTyped
      <3> QED
        BY <1>1, <1>4, <1>5, <1>9, <2>1, <2>3, <3>1, <3>3, Reads DEF p
    <2>4. CASE p.type \notin {"ADD_ROOM", "RANKING_INFO"}
      <3>1. UNCHANGED <<rankings, asked>>
        BY <1>3, <1>9, <2>4 DEF RankingPacket
      <3>2. RanksThere' = RanksThere
        BY <2>1, <3>1 DEF RanksThere
      <3> QED
        BY <1>1, <1>4, <1>9, <2>1, <2>4, <3>1, <3>2, Reads DEF p
    <2> QED
      BY <2>2, <2>3, <2>4
  <1>10. CASE screen \in {"Single", "Multi"}
    <2>1. CASE p.type = "DELETE_USER"
      <3>1. QueueState("Lobby")
        BY <1>3, <1>10, <2>1 DEF PlayPacket
      <3> QED
        BY <1>1, <3>1, Queues
    <2>2. CASE p.type # "DELETE_USER"
      <3>1. Target' = screen /\ c2s' = c2s
        BY <1>1, <1>3, <1>10, <2>2 DEF PlayPacket, Target, fade
      <3> QED
        BY <1>6, <1>10, <3>1
    <2> QED
      BY <2>1, <2>2
  <1> QED
    BY <1>1, <1>7, <1>8, <1>9, <1>10 DEF Screens

\* What a press sends.
LEMMA SendsOther ==
  ASSUME NEW type \in Requests \ {"ROOM_LIST", "RANKING"}, NEW arg,
         Send(type, arg) \/ SendOrNot(type, arg)
  PROVE  \/ c2s' = c2s
         \/ \E other \in Requests \ {"ROOM_LIST", "RANKING"} : c2s' = Append(c2s, other)
  BY DEF Send, SendOrNot

\* So it is whatever the player presses.
LEMMA ClientLists ==
  ASSUME ScreensInv, ListInv,
         \/ ChangeScreen \/ FadedIn \/ Retry \/ PressLogin \/ ConfirmLoginError \/ PressMenu \/ PressRanking
         \/ PressRefresh \/ ClickRoom \/ Window \/ PressBack \/ PressLeave
  PROVE  ListInv'
  <1>0. {"LOGIN", "ENTER", "ACCEPT", "LEAVE"} = Requests \ {"ROOM_LIST", "RANKING"}
    BY DEF Requests
  <1>1. CASE ChangeScreen
    <2>1. /\ screen' = next_state /\ next_state' = None /\ UNCHANGED <<c2s, s2c, asked>> /\ room_list' = <<>>
          /\ rankings' = 0 /\ next_state # None
      BY <1>1 DEF ChangeScreen, net, past, ScreensInv, FieldsTyped
    <2>2. Target' = Target /\ ListThere' = ListThere /\ RanksThere' = RanksThere
      BY <2>1 DEF Target, ListThere, RanksThere
    <2> QED
      BY <2>1, <2>2, SameLists
  <1>2. ASSUME UNCHANGED <<screen, next_state, s2c, lists, asked>>,
               \/ c2s' = c2s
               \/ \E other \in Requests \ {"ROOM_LIST", "RANKING"} : c2s' = Append(c2s, other)
        PROVE  ListInv'
    <2>1. Target' = Target /\ ListThere' = ListThere /\ RanksThere' = RanksThere
      BY <1>2 DEF Target, ListThere, RanksThere, lists
    <2> QED
      BY <1>2, <2>1, SameLists
  <1>3. CASE FadedIn \/ Retry \/ ConfirmLoginError \/ PressMenu
    BY <1>2, <1>3 DEF FadedIn, Retry, ConfirmLoginError, PressMenu, fade, net, past
  <1>4. CASE PressLogin
    BY <1>0, <1>2, <1>4, SendsOther DEF PressLogin, fade, past
  <1>5. CASE PressLeave
    BY <1>0, <1>2, <1>5, SendsOther DEF PressLeave, fade, past
  <1>6. CASE ClickRoom
    <2>1. UNCHANGED <<screen, next_state, s2c, lists, asked>>
      BY <1>6 DEF ClickRoom, fade, past
    <2>2. c2s' = c2s \/ \E i \in DOMAIN room_list : Send("ENTER", room_list[i])
      BY <1>6 DEF ClickRoom
    <2> QED
      BY <1>0, <1>2, <2>1, <2>2, SendsOther
  <1>7. CASE Window
    <2>1. UNCHANGED <<screen, next_state, s2c, lists, asked>>
      BY <1>7 DEF Window, ConfirmNotice, ChooseQuickStart, ChooseMatching, CreateRoom, EnterPassword, AnswerFriend, fade, net, past
    <2>2. \/ c2s' = c2s
          \/ \E type \in {"ENTER", "ACCEPT"} : \E arg \in {1, 2, join_room_key, friend_requester_id} :
               Send(type, arg) \/ SendOrNot(type, arg)
      BY <1>7 DEF Window, ConfirmNotice, ChooseQuickStart, ChooseMatching, CreateRoom, EnterPassword, AnswerFriend, net
    <2> QED
      BY <1>0, <1>2, <2>1, <2>2, SendsOther
  <1>8. CASE PressRanking \/ PressBack
    <2>1. Reacts /\ s2c' = s2c /\ \E scr \in {"Lobby", "Ranking"} : QueueState(scr)
      BY <1>8 DEF PressRanking, PressBack, InLobby
    <2> QED
      BY <2>1, NoneQueued, Queues
  <1>9. CASE PressRefresh
    <2>1. Reacts /\ screen = "Lobby" /\ room_list' = <<>> /\ UNCHANGED <<screen, next_state, s2c>>
          /\ c2s' = Append(c2s, "ROOM_LIST") /\ asked' = AskedFor("ROOM_LIST", "ROOM_INFO")
      BY <1>9, ScreensAssumption DEF PressRefresh, InLobby, Send, fade
    <2>2. next_state = None /\ Target' = "Lobby" /\ ListThere' = <<>> /\ Len(<<>>) = 0
      BY <2>1, NoneQueued DEF Target, ListThere
    <2>3. c2s \in Seq(Requests) /\ s2c \in Seq(ServerPacket)
      BY DEF ListInv, ScreensInv, FieldsTyped
    <2>4. c2s' \in Seq(Requests) /\ Coming(c2s', s2c', <<>>, "ROOM_LIST", "ROOM_INFO", RoomList, asked' = "once")
      BY <2>1, <2>2, <2>3, Asks DEF Requests
    <2>5. RoomsCome'
      BY <2>2, <2>4 DEF RoomsCome
    <2> QED
      BY <2>2, <2>4, <2>5 DEF ListInv
  <1> QED
    BY <1>1, <1>3, <1>4, <1>5, <1>6, <1>7, <1>8, <1>9

----------------------------------------------------------------------------
FollowInv == ScreensInv /\ ToldInv /\ ListInv

\* The client starts on the login, where the session is.
LEMMA FollowInit == Init => FollowInv
  <1> SUFFICES ASSUME Init PROVE FollowInv
    OBVIOUS
  <1>1. Target = "Login" /\ s2c = <<>> /\ ~missed /\ c2s = <<>>
    BY DEF Init, Target
  <1>2. Told = "login" /\ Where = "login"
    BY <1>1 DEF Init, Told, Where
  <1>3. Leads(Told, s2c, Where)
    <2> DEFINE st == [i \in 1..1 |-> "login"]
    <2>1. Len(<<>>) = 0
      OBVIOUS
    <2>2. st \in [1..1 -> Stages] /\ st[1] = "login" /\ \A i \in 1..1 : st[i] = "login"
      BY DEF Stages
    <2> HIDE DEF st
    <2>3. Tale(st, <<>>, "login")
      BY <2>1, <2>2 DEF Tale
    <2> QED
      BY <1>1, <1>2, <2>2, <2>3 DEF Leads
  <1>4. "fail_connect" \in windows => place = "none"
    BY DEF Init
  <1>5. ToldInv
    BY <1>1, <1>3, <1>4 DEF ToldInv
  <1>6. ListInv
    BY <1>1 DEF ListInv
  <1> QED
    BY <1>5, <1>6, ScreensInit DEF FollowInv

\* Every step keeps what was told, and the lists.
LEMMA FollowStep == FollowInv /\ [Next]_vars => FollowInv'
  <1> SUFFICES ASSUME FollowInv, [Next]_vars PROVE FollowInv'
    OBVIOUS
  <1>1. ScreensInv /\ ToldInv /\ ListInv
    BY DEF FollowInv
  <1>2. ScreensInv'
    BY <1>1, ScreensStep
  <1>3. CASE vars' = vars
    <2>1. /\ Told' = Told /\ Where' = Where /\ Target' = Target /\ UNCHANGED <<s2c, c2s, missed, asked, windows, place>>
          /\ ListThere' = ListThere /\ RanksThere' = RanksThere
      BY <1>3 DEF vars, fade, modal, lists, net, past, Told, Where, Target, ListThere, RanksThere
    <2>2. ListInv'
      BY <1>1, <2>1, SameLists
    <2>3. missed => asked' = "unheard"
      BY <1>1, <2>1 DEF ToldInv
    <2>4. ToldInv'
      BY <1>1, <2>1, <2>3, SameTale
    <2> QED
      BY <1>2, <2>2, <2>4 DEF FollowInv
  <1>4. CASE \/ ChangeScreen \/ FadedIn \/ PressLogin \/ ConfirmLoginError \/ PressMenu \/ PressRanking
             \/ PressRefresh \/ ClickRoom \/ Window \/ PressBack \/ PressLeave
    BY <1>1, <1>2, <1>4, ClientSteps, ClientLists DEF FollowInv
  <1>5. CASE Retry
    BY <1>1, <1>2, <1>5, RetrySteps, ClientLists DEF FollowInv
  <1>6. CASE HandlePacket
    BY <1>1, <1>2, <1>6, HandleSteps, HandleLists DEF FollowInv
  <1>7. CASE Serve \/ Decide \/ EnterLobby \/ ServerSpeaks
    BY <1>1, <1>2, <1>7, ServerTells, ServerLists DEF FollowInv
  <1> QED
    BY <1>3, <1>4, <1>5, <1>6, <1>7 DEF Next

\* For any rooms and players and any number of requests and packets under way, without
\* a player who waits: when all is handled, the screen is that of the session's place,
\* and its list ends with the whole newest answer, and is it when it was asked for once
\* (handle_packet of the states, drain_packets, ProcessPacket and the place of a session).
THEOREM ScreenIsOfThePlace == Spec => []ClientFollowsServer
  <1>1. FollowInv => ClientFollowsServer
    <2> SUFFICES ASSUME FollowInv PROVE ClientFollowsServer
      OBVIOUS
    <2>1. ScreensInv /\ ToldInv /\ ListInv
      BY DEF FollowInv
    <2>2. TypeOK /\ screen \in Screens
      BY <2>1 DEF ScreensInv, FieldsTyped, TypeOK
    <2>3. ASSUME AllHandled
          PROVE  c2s = <<>> /\ s2c = <<>> /\ place # "pending" /\ Target = screen /\ Told = Where
                 /\ ListThere = room_list /\ RanksThere = Ranks(rankings)
      <3>1. c2s = <<>> /\ s2c = <<>> /\ place # "pending" /\ Target = screen
            /\ ListThere = room_list /\ RanksThere = Ranks(rankings)
        BY <2>3 DEF AllHandled, Target, ListThere, RanksThere
      <3>2. PICK a, ps, w : a = Told /\ ps = s2c /\ w = Where
        OBVIOUS
      <3>3. Leads(a, ps, w)
        BY <2>1, <3>2 DEF ToldInv
      <3>4. a = w
        BY <3>1, <3>2, <3>3, NothingMore
      <3> QED
        BY <3>1, <3>2, <3>4
    <2>4. ScreenFollowsServer
      <3>1. SUFFICES ASSUME AllHandled
                     PROVE  CASE place \in {"none", "login"} -> screen = "Login"
                              [] place = "lobby" -> screen \in {"Lobby", "Ranking"}
                              [] place = "room" -> screen \in {"Single", "Multi"} \/ missed
                              [] OTHER -> TRUE
        BY DEF ScreenFollowsServer
      <3>2. Told = Where /\ Target = screen
        BY <2>3, <3>1
      <3>3. CASE place \in {"none", "login"}
        BY <3>2, <3>3 DEF Told, Where
      <3>4. CASE place = "lobby"
        BY <2>2, <3>2, <3>4 DEF Told, Where, Screens
      <3>5. CASE place = "room"
        BY <2>2, <3>2, <3>5 DEF Told, Where, Screens
      <3>6. CASE place \notin {"none", "login", "lobby", "room"}
        BY <3>6
      <3> QED
        BY <3>3, <3>4, <3>5, <3>6
    <2>5. ListsExact
      <3>1. SUFFICES ASSUME AllHandled, asked # "unheard"
                     PROVE  /\ screen = "Lobby" => RoomsListed
                            /\ screen = "Ranking" => rankings >= 1 /\ (asked = "once" => rankings = 1)
        BY DEF ListsExact
      <3>2. PICK once \in BOOLEAN : once = (asked = "once")
        OBVIOUS
      <3>3. Hears
        <4>1. s2c = <<>> /\ Len(<<>>) = 0 /\ 1..0 = {}
          BY <2>3, <3>1
        <4> QED
          BY <3>1, <4>1 DEF Hears
      <3>4. PICK list, ranks : list = room_list /\ ranks = Ranks(rankings)
        OBVIOUS
      <3>5. /\ Len(RoomList) \in Nat /\ Len(<<"r">>) = 1 /\ Len(list) \in Nat /\ Len(ranks) = rankings /\ rankings \in Nat
            /\ DOMAIN RoomList = 1..Len(RoomList) /\ Len(RoomList) = Cardinality(Rooms)
        <4>1. room_list \in Seq(Rooms) /\ rankings \in Nat
          BY <2>1 DEF ScreensInv, FieldsTyped, TypeOK
        <4>2. Len(list) \in Nat /\ Len(ranks) = rankings
          BY <3>4, <4>1, LenProperties, RanksTyped
        <4>3. DOMAIN RoomList = 1..Cardinality(Rooms) /\ Cardinality(Rooms) \in Nat /\ RoomList \in Seq(Rooms)
          <5>1. RoomList \in [1..Cardinality(Rooms) -> Rooms]
            BY ListOfRooms DEF RoomList
          <5> QED
            BY <5>1, ListOfRooms, SeqDef
        <4>4. Len(RoomList) \in Nat /\ DOMAIN RoomList = 1..Len(RoomList) /\ Len(RoomList) = Cardinality(Rooms)
          BY <4>3, LenProperties
        <4>5. Len(<<"r">>) = 1
          OBVIOUS
        <4> QED
          BY <4>1, <4>2, <4>4, <4>5
      <3>6. ASSUME screen = "Lobby" PROVE RoomsListed
        <4>1. Coming(<<>>, <<>>, list, "ROOM_LIST", "ROOM_INFO", RoomList, once)
          BY <2>1, <2>3, <3>1, <3>2, <3>3, <3>4, <3>6 DEF ListInv, RoomsCome
        <4>2. /\ Len(list) >= Len(RoomList) /\ (once => Len(list) = Len(RoomList))
              /\ \A j \in 1..Len(RoomList) : list[(Len(list) - Len(RoomList)) + j] = RoomList[j]
          <5>1. Len(list) \in Nat /\ Len(RoomList) \in Nat
            BY <3>5
          <5> QED
            BY <4>1, <5>1, AllCame
        <4> QED
          <5> DEFINE n == Len(room_list) - Cardinality(Rooms)
          <5>1. n = Len(list) - Len(RoomList) /\ n >= 0 /\ (asked = "once" => n = 0)
            <6>1. n = Len(list) - Len(RoomList) /\ n >= 0
              BY <3>4, <3>5, <4>2
            <6>2. asked = "once" => Len(list) = Len(RoomList)
              BY <3>2, <4>2, Zenon
            <6> QED
              BY <3>5, <6>1, <6>2
          <5>2. \A j \in DOMAIN RoomList : room_list[n + j] = RoomList[j]
            BY <3>4, <3>5, <4>2, <5>1
          <5> QED
            BY <5>1, <5>2 DEF RoomsListed
      <3>7. ASSUME screen = "Ranking" PROVE rankings >= 1 /\ (asked = "once" => rankings = 1)
        <4>1. Coming(<<>>, <<>>, ranks, "RANKING", "RANKING_INFO", <<"r">>, once)
          BY <2>1, <2>3, <3>1, <3>2, <3>3, <3>4, <3>7 DEF ListInv, RanksCome
        <4>2. Len(ranks) >= Len(<<"r">>) /\ (once => Len(ranks) = Len(<<"r">>))
          <5>1. Len(ranks) \in Nat /\ Len(<<"r">>) \in Nat
            BY <3>5
          <5> QED
            BY <4>1, <5>1, AllCame
        <4> QED
          BY <3>2, <3>5, <4>2
      <3> QED
        BY <3>6, <3>7
    <2> QED
      BY <2>2, <2>4, <2>5 DEF ClientFollowsServer
  <1> QED
    BY <1>1, FollowInit, FollowStep, PTL DEF Spec

----------------------------------------------------------------------------
(* The scrolling windows. *)

\* The fields of a window, before any relation between them.
Fields == [kind : Kinds, items : 0..MaxItems, line : Int, px : Int, h : Int, y : Int, prev : Int,
           scroll : BOOLEAN, start : Int, end : Int]

\* What set_scroll_info and set_scroll_len compute from the number of rows.
LineOf(n) == IF n > ShowLines THEN n - ShowLines ELSE 0
PxOf(n) == IF n > 0 THEN (Height - MinHeight) \div n ELSE 0
LenOf(n) == IF LineOf(n) = 0 THEN Height ELSE Max({MinHeight, Height - Truncated(PxOf(n) * LineOf(n))})

\* The scroll bar fits the rows: it was measured after the last change of their
\* number, and the thumb is in its track.
Sized(w) ==
  /\ w \in Fields
  /\ w.line = LineOf(w.items) /\ w.px = PxOf(w.items) /\ w.h = LenOf(w.items)
  /\ w.y \in 0..(Height - w.h)

\* The inductive invariant of a window: the bar fits, the first row is one at
\* which a full page begins, and what depends on the kind of the window.
Settled(w) ==
  /\ Sized(w)
  /\ w.start \in 0..w.line /\ w.end \in 0..MaxItems
  /\ w.kind # "chat" => w.end \in w.start..w.items
  /\ w.kind = "chat" => w.start = StartAt(w)

ScrollInv == Settled(win) /\ dragging \in BOOLEAN

----------------------------------------------------------------------------
(* Arithmetic. *)

\* Max and Min of two numbers.
LEMMA MaxOfTwo ==
  ASSUME NEW a \in Int, NEW b \in Int
  PROVE  Max({a, b}) = IF a >= b THEN a ELSE b
  <1>1. \E x \in {a, b} : \A y \in {a, b} : x >= y
    OBVIOUS
  <1>2. /\ Max({a, b}) \in {a, b}
        /\ \A y \in {a, b} : Max({a, b}) >= y
    BY <1>1 DEF Max
  <1> QED
    BY <1>2

\* The smaller of two numbers.
LEMMA MinOfTwo ==
  ASSUME NEW a \in Int, NEW b \in Int
  PROVE  Min({a, b}) = IF a <= b THEN a ELSE b
  <1>1. \E x \in {a, b} : \A y \in {a, b} : x <= y
    OBVIOUS
  <1>2. /\ Min({a, b}) \in {a, b}
        /\ \A y \in {a, b} : Min({a, b}) <= y
    BY <1>1 DEF Min
  <1> QED
    BY <1>2

\* A product of natural numbers is one, and grows with its factors.
LEMMA Product ==
  ASSUME NEW a \in Nat, NEW b \in Nat
  PROVE  /\ a * b \in Nat
         /\ \A c \in Nat : a <= c => a * b <= c * b
  OBVIOUS

\* Division by a positive number.
LEMMA Division ==
  ASSUME NEW a \in Nat, NEW b \in Nat \ {0}
  PROVE  /\ a \div b \in Nat /\ a \div b <= a
         /\ b * (a \div b) <= a /\ a < b * (a \div b) + b
  OBVIOUS

\* A multiple is divided exactly.
LEMMA ExactDivision ==
  ASSUME NEW a \in Nat \ {0}, NEW b \in Nat
  PROVE  (a * b) \div a = b
  OBVIOUS

----------------------------------------------------------------------------
(* The measures of the scroll bar. *)

\* Track and shortest thumb, in units.
LEMMA Track ==
  /\ Height \in Nat \ {0} /\ MinHeight \in Nat \ {0} /\ MinHeight < Height
  /\ Height - MinHeight = ((ShowLines - 1) * LineHeight) * Unit
  <1>1. ShowLines \in Nat /\ ShowLines >= 2 /\ LineHeight \in Nat /\ LineHeight >= 3 /\ Unit \in Nat /\ Unit >= 1
    BY ScrollAssumption
  <1>2. TrackHeight \in Nat /\ TrackHeight - LineHeight = (ShowLines - 1) * LineHeight /\ (ShowLines - 1) * LineHeight >= 3
    BY <1>1 DEF TrackHeight
  <1>3. (ShowLines - 1) * LineHeight \in Nat
    BY <1>2, <1>1
  <1>4. ((ShowLines - 1) * LineHeight) * Unit > 0 /\ LineHeight * Unit > 0
    BY <1>1, <1>2, <1>3
  <1>5. Height - MinHeight = ((ShowLines - 1) * LineHeight) * Unit
    <2>1. TrackHeight * Unit - LineHeight * Unit = (TrackHeight - LineHeight) * Unit
      BY <1>1, <1>2
    <2> QED
      BY <2>1, <1>2 DEF Height, MinHeight
  <1>6. Height \in Int /\ MinHeight \in Int
    BY <1>1, <1>2 DEF Height, MinHeight
  <1>7. MinHeight > 0
    BY <1>4 DEF MinHeight
  <1> QED
    BY <1>4, <1>5, <1>6, <1>7

\* What is cut off by int() is less than a pixel.
LEMMA Truncation ==
  ASSUME NEW u \in Nat
  PROVE  Truncated(u) \in 0..u /\ (u >= Unit => Truncated(u) >= Unit)
  <1>1. Unit \in Nat /\ Unit >= 1
    BY ScrollAssumption
  <1>2. u \div Unit \in Nat /\ Unit * (u \div Unit) <= u /\ u < Unit * (u \div Unit) + Unit
    BY <1>1, Division
  <1>3. Truncated(u) = Unit * (u \div Unit)
    BY <1>1, <1>2 DEF Truncated
  <1>4. Unit * (u \div Unit) \in Nat
    BY <1>1, <1>2
  <1>5. ASSUME u >= Unit PROVE Unit * (u \div Unit) >= Unit
    <2>1. u \div Unit # 0
      BY <1>1, <1>2, <1>5
    <2>2. u \div Unit >= 1
      BY <2>1, <1>2
    <2> QED
      BY <2>2, <1>1, <1>2, Product
  <1> QED
    BY <1>2, <1>3, <1>4, <1>5

\* As soon as a row is hidden, one row of the bar per hidden row makes up a pixel.
LEMMA HiddenRowShows ==
  ASSUME NEW n \in 0..MaxItems, n > ShowLines
  PROVE  PxOf(n) * LineOf(n) \in Nat /\ PxOf(n) * LineOf(n) >= Unit
  <1> DEFINE q == Unit \div (2 * n)
             a == (ShowLines - 1) * LineHeight
             d == n - ShowLines
  <1>1. /\ ShowLines \in Nat /\ ShowLines >= 2 /\ LineHeight \in Nat /\ LineHeight >= 3 /\ Unit \in Nat /\ Unit >= 1
        /\ n \in Nat /\ n >= 1 /\ n \in 1..MaxItems /\ d \in Nat /\ d >= 1 /\ n = d + ShowLines
    BY ScrollAssumption
  <1>2. Unit % (2 * n) = 0
    BY <1>1, ScrollAssumption
  <1>3. q \in Nat /\ Unit = (2 * n) * q
    <2>1. 2 * n \in Nat \ {0}
      BY <1>1
    <2>2. Unit = (2 * n) * (Unit \div (2 * n)) + (Unit % (2 * n))
      BY <1>1, <2>1
    <2>3. Unit \div (2 * n) \in Nat
      BY <1>1, <2>1, Division
    <2> QED
      BY <2>1, <2>2, <2>3, <1>2
  <1>4. a \in Nat /\ a * d >= n
    <2>1. a \in Nat
      BY <1>1
    <2>2. (ShowLines - 1) * LineHeight >= (ShowLines - 1) * 3
      BY <1>1, Product
    <2>3. a >= ShowLines + 1
      BY <1>1, <2>2
    <2>4. a * d >= (ShowLines + 1) * d
      BY <1>1, <2>1, <2>3, Product
    <2>5. (ShowLines + 1) * d = ShowLines * d + d
      BY <1>1
    <2>6. ShowLines * d >= ShowLines
      BY <1>1
    <2>7. a * d \in Int /\ (ShowLines + 1) * d \in Int /\ ShowLines * d \in Int
      BY <1>1, <2>1
    <2> HIDE DEF a, d
    <2> QED
      BY <1>1, <2>1, <2>4, <2>5, <2>6, <2>7
  <1> HIDE DEF q, a
  <1>5. PxOf(n) = a * (2 * q)
    <2>1. a * Unit = n * (a * (2 * q))
      BY <1>1, <1>3, <1>4
    <2>2. a * (2 * q) \in Nat
      BY <1>3, <1>4
    <2>3. (n * (a * (2 * q))) \div n = a * (2 * q)
      BY <1>1, <2>2, ExactDivision
    <2>4. Height - MinHeight = a * Unit
      BY Track DEF a
    <2> QED
      BY <1>1, <2>1, <2>3, <2>4 DEF PxOf
  <1>6. LineOf(n) = d
    BY <1>1 DEF LineOf
  <1> HIDE DEF d
  <1>7. (a * (2 * q)) * d = (a * d) * (2 * q)
    BY <1>1, <1>3, <1>4
  <1>8. a * d \in Nat /\ 2 * q \in Nat
    BY <1>1, <1>3, <1>4
  <1>9. (a * d) * (2 * q) >= n * (2 * q)
    BY <1>1, <1>4, <1>8, Product
  <1>10. n * (2 * q) = Unit
    BY <1>1, <1>3
  <1>11. (a * d) * (2 * q) \in Nat
    BY <1>8, Product
  <1> QED
    BY <1>5, <1>6, <1>7, <1>9, <1>10, <1>11

\* Every measure is in its range, and the thumb of a window with hidden rows is
\* shorter than the track.
LEMMA Measures ==
  ASSUME NEW n \in 0..MaxItems
  PROVE  /\ LineOf(n) \in 0..n /\ PxOf(n) \in 0..Height /\ LenOf(n) \in MinHeight..Height
         /\ LineOf(n) > 0 => LenOf(n) < Height
  <1>1. /\ ShowLines \in Nat /\ MaxItems \in Nat /\ n \in Nat /\ Unit \in Nat /\ Unit >= 1
        /\ Height \in Nat /\ MinHeight \in Nat /\ MinHeight < Height
    BY ScrollAssumption, Track
  <1>2. LineOf(n) \in 0..n /\ (LineOf(n) > 0 => n > ShowLines) /\ (LineOf(n) # 0 => LineOf(n) > 0)
    BY <1>1 DEF LineOf
  <1>3. PxOf(n) \in 0..Height
    <2>1. CASE n = 0
      BY <1>1, <2>1 DEF PxOf
    <2>2. CASE n # 0
      <3>1. Height - MinHeight \in Nat /\ n \in Nat \ {0}
        BY <1>1, <2>2
      <3>2. PxOf(n) = (Height - MinHeight) \div n
        BY <1>1, <2>2 DEF PxOf
      <3>3. PxOf(n) \in Nat /\ PxOf(n) <= Height - MinHeight
        BY <3>1, <3>2, Division
      <3> QED
        BY <1>1, <3>1, <3>3
    <2> QED
      BY <2>1, <2>2
  <1>4. CASE LineOf(n) = 0
    BY <1>1, <1>2, <1>3, <1>4 DEF LenOf
  <1>5. CASE LineOf(n) # 0
    <2>1. PxOf(n) * LineOf(n) \in Nat /\ PxOf(n) * LineOf(n) >= Unit
      BY <1>2, <1>5, HiddenRowShows
    <2> DEFINE cut == Truncated(PxOf(n) * LineOf(n))
    <2>2. cut \in Nat /\ cut >= Unit
      BY <2>1, Truncation, <1>1
    <2> HIDE DEF cut
    <2>3. LenOf(n) = Max({MinHeight, Height - cut})
      BY <1>5 DEF LenOf, cut
    <2>4. LenOf(n) = IF MinHeight >= Height - cut THEN MinHeight ELSE Height - cut
      BY <1>1, <2>2, <2>3, MaxOfTwo
    <2>5. LenOf(n) \in MinHeight..Height /\ LenOf(n) < Height
      BY <1>1, <2>2, <2>4
    <2> QED
      BY <1>2, <1>3, <2>5
  <1> QED
    BY <1>4, <1>5

----------------------------------------------------------------------------
(* The methods of the window. *)

\* set_scroll_info and set_scroll_len make the bar fit, whatever it was before.
LEMMA MeasuredFits ==
  ASSUME NEW w \in Fields
  PROVE  /\ Sized(Measured(w))
         /\ Measured(w).kind = w.kind /\ Measured(w).items = w.items
         /\ Measured(w).start = w.start /\ Measured(w).end = w.end
  <1>1. /\ w.items \in 0..MaxItems /\ w.items \in Int /\ ShowLines \in Nat /\ MaxItems \in Nat
        /\ Height \in Nat /\ MinHeight \in Nat /\ w.y \in Int
    BY ScrollAssumption, Track DEF Fields
  <1>2. Max({0, w.items - ShowLines}) = LineOf(w.items)
    <2>1. Max({0, w.items - ShowLines}) = IF 0 >= w.items - ShowLines THEN 0 ELSE w.items - ShowLines
      BY <1>1, MaxOfTwo
    <2> QED
      BY <1>1, <2>1 DEF LineOf
  <1>3. LineOf(w.items) \in Int /\ PxOf(w.items) \in Int /\ LenOf(w.items) \in MinHeight..Height
    BY <1>1, Measures
  <1> DEFINE v == [w EXCEPT !.line = LineOf(w.items), !.px = PxOf(w.items)]
             h == LenOf(w.items)
             y == Max({0, Min({w.y, Height - h})})
  <1>4. set_scroll_info(w) = v
    BY <1>2 DEF set_scroll_info, PxOf
  <1>5. v \in Fields /\ v.line = LineOf(w.items) /\ v.px = PxOf(w.items) /\ v.y = w.y
    BY <1>3 DEF Fields
  <1>6. h \in Int /\ h <= Height /\ y \in 0..(Height - h)
    <2>1. h \in Int /\ h <= Height
      BY <1>1, <1>3
    <2> HIDE DEF h
    <2>2. Min({w.y, Height - h}) = IF w.y <= Height - h THEN w.y ELSE Height - h
      BY <1>1, <2>1, MinOfTwo
    <2>3. y = IF 0 >= Min({w.y, Height - h}) THEN 0 ELSE Min({w.y, Height - h})
      <3> DEFINE m == Min({w.y, Height - h})
      <3>1. m \in Int
        BY <1>1, <2>1, <2>2
      <3> HIDE DEF m
      <3>2. Max({0, m}) = IF 0 >= m THEN 0 ELSE m
        BY <3>1, MaxOfTwo
      <3> QED
        BY <3>2 DEF m
    <2> QED
      BY <1>1, <2>1, <2>2, <2>3
  <1>7. Measured(w) = [v EXCEPT !.h = h, !.y = y]
    BY <1>4, <1>5 DEF Measured, set_scroll_len, LenOf
  <1> HIDE DEF h, y
  <1>8. y \in Int
    BY <1>1, <1>6
  <1> QED
    BY <1>3, <1>5, <1>6, <1>7, <1>8 DEF Sized, Fields, h

\* A position of the thumb belongs to a row at which a full page begins.
LEMMA StartInRange ==
  ASSUME NEW w, Sized(w)
  PROVE  StartAt(w) \in 0..w.line
  <1>1. /\ w.line \in Nat /\ w.y \in Nat /\ Height \in Nat /\ w.h \in Int
    BY Measures, Track DEF Sized, Fields
  <1>2. CASE w.line = 0 \/ w.h >= Height
    BY <1>1, <1>2 DEF StartAt
  <1>3. CASE ~(w.line = 0 \/ w.h >= Height)
    <2>1. w.y * w.line \in Nat /\ Height - w.h \in Nat \ {0}
      BY <1>1, <1>3, Product
    <2> DEFINE at == (w.y * w.line) \div (Height - w.h)
    <2>2. at \in Nat
      BY <2>1, Division
    <2>3. StartAt(w) = Min({w.line, at})
      BY <1>3 DEF StartAt
    <2> HIDE DEF at
    <2> QED
      BY <1>1, <2>2, <2>3, MinOfTwo
  <1> QED
    BY <1>2, <1>3

\* set_show_start_index: the first row follows the thumb, the bar is untouched.
LEMMA StartSet ==
  ASSUME NEW w, Sized(w)
  PROVE  LET v == set_show_start_index(w)
         IN /\ Sized(v) /\ v.start \in 0..v.line /\ v.start = StartAt(v)
            /\ v.kind = w.kind /\ v.end = w.end /\ v.items = w.items
  <1>1. StartAt(w) \in 0..w.line /\ w.line \in Int /\ w \in Fields
    BY StartInRange DEF Sized, Fields
  <1>2. StartAt(w) \in Int
    BY <1>1
  <1> DEFINE v == [w EXCEPT !.start = StartAt(w)]
  <1>3. v \in Fields /\ \A f \in {"kind", "items", "line", "px", "h", "y", "end"} : v[f] = w[f]
    BY <1>1, <1>2 DEF Fields
  <1>4. v.start = StartAt(w) /\ StartAt(v) = StartAt(w)
    BY <1>1, <1>3 DEF StartAt, Fields
  <1>5. Sized(v)
    BY <1>3 DEF Sized
  <1> QED
    BY <1>1, <1>3, <1>4, <1>5 DEF set_show_start_index

\* scroll_to_bottom: the last page, with the thumb at the end of the track.
LEMMA Bottom ==
  ASSUME NEW w, Sized(w)
  PROVE  LET v == scroll_to_bottom(w)
         IN /\ Sized(v) /\ v.start \in 0..v.line /\ v.start = StartAt(v)
            /\ v.kind = w.kind /\ v.end = w.end
  <1>1. /\ w \in Fields /\ w.line \in Nat /\ w.h \in Int /\ w.h <= Height /\ Height \in Nat
        /\ w.line > 0 => w.h < Height
    BY Measures, Track DEF Sized, Fields
  <1> DEFINE v == [w EXCEPT !.start = w.line, !.y = Height - w.h]
  <1>2. /\ v \in Fields /\ \A f \in {"kind", "items", "line", "px", "h", "end"} : v[f] = w[f]
        /\ v.start = w.line /\ v.y = Height - w.h
    <2>1. w.line \in Int /\ Height - w.h \in Int
      BY <1>1
    <2> QED
      BY <1>1, <2>1 DEF Fields
  <1>3. StartAt(v) = w.line
    <2>1. CASE w.line = 0
      BY <1>2, <2>1 DEF StartAt
    <2>2. CASE w.line # 0
      <3>1. Height - w.h \in Nat \ {0} /\ ~(v.line = 0 \/ v.h >= Height)
        BY <1>1, <1>2, <2>2
      <3>2. ((Height - w.h) * w.line) \div (Height - w.h) = w.line
        BY <1>1, <3>1, ExactDivision
      <3>3. StartAt(v) = Min({w.line, ((Height - w.h) * w.line) \div (Height - w.h)})
        BY <1>2, <3>1 DEF StartAt
      <3>4. Min({w.line, w.line}) = w.line
        BY <1>1, MinOfTwo
      <3> QED
        BY <3>2, <3>3, <3>4
    <2> QED
      BY <2>1, <2>2
  <1>4. Sized(v)
    BY <1>1, <1>2 DEF Sized
  <1> QED
    BY <1>1, <1>2, <1>3, <1>4 DEF scroll_to_bottom

\* update_show: the range that is shown is a page of rows that exist.
LEMMA ShowSet ==
  ASSUME NEW w, Sized(w), w.start \in 0..w.line
  PROVE  LET v == update_show(w)
         IN /\ Sized(v) /\ v.start = w.start /\ v.start \in 0..v.line
            /\ v.end \in v.start..v.items /\ v.end \in 0..MaxItems /\ StartAt(v) = StartAt(w)
            /\ v.kind = w.kind
  <1>1. /\ w \in Fields /\ w.line \in 0..w.items /\ w.items \in Nat /\ w.items <= MaxItems /\ MaxItems \in Nat
        /\ ShowLines \in Nat
        /\ w.line > 0 => w.line + ShowLines = w.items
    BY Measures, ScrollAssumption DEF Sized, Fields, LineOf
  <1>2. w.start \in Int /\ w.line \in Int
    BY <1>1
  <1> DEFINE e == IF w.line > 0 THEN Min({w.start + ShowLines, w.items}) ELSE w.items
             v == [w EXCEPT !.end = e]
  <1>3. e \in w.start..w.items
    <2>1. Min({w.start + ShowLines, w.items}) = IF w.start + ShowLines <= w.items THEN w.start + ShowLines ELSE w.items
      BY <1>1, <1>2, MinOfTwo
    <2> QED
      BY <1>1, <1>2, <2>1
  <1>4. e \in 0..MaxItems /\ e \in Int
    BY <1>1, <1>2, <1>3
  <1> HIDE DEF e
  <1>5. update_show(w) = v
    <2>1. CASE w.line > 0
      BY <2>1 DEF update_show, e
    <2>2. CASE ~(w.line > 0)
      <3>1. w.start = 0
        BY <1>1, <1>2, <2>2
      <3>2. [w EXCEPT !.start = 0, !.end = w.items] = [w EXCEPT !.end = w.items]
        BY <3>1, <1>1 DEF Fields
      <3> QED
        BY <2>2, <3>2 DEF update_show, e
    <2> QED
      BY <2>1, <2>2
  <1>6. v \in Fields /\ v.end = e /\ \A f \in {"kind", "items", "line", "px", "h", "y", "start"} : v[f] = w[f]
    BY <1>1, <1>4 DEF Fields
  <1> HIDE DEF v
  <1>7. v.items = w.items /\ v.line = w.line /\ v.px = w.px /\ v.h = w.h /\ v.y = w.y
    BY <1>6
  <1>8. Sized(v)
    BY <1>6, <1>7 DEF Sized
  <1>9. StartAt(v) = StartAt(w)
    BY <1>7 DEF StartAt
  <1>10. v.start = w.start /\ v.kind = w.kind
    BY <1>6
  <1> QED
    BY <1>3, <1>4, <1>5, <1>6, <1>7, <1>8, <1>9, <1>10

\* After an event of the mouse: the first row is set from the thumb, and a list
\* looks at its range.
LEMMA EventSettles ==
  ASSUME NEW w, Sized(w), w.end \in 0..MaxItems
  PROVE  Settled(Refreshed(set_show_start_index(w)))
  <1> DEFINE v == set_show_start_index(w)
  <1>1. /\ Sized(v) /\ v.start \in 0..v.line /\ v.start = StartAt(v) /\ v.end \in 0..MaxItems
        /\ v.kind = w.kind
    BY StartSet
  <1> DEFINE u == update_show(v)
  <1>2. /\ Sized(u) /\ u.start = v.start /\ u.start \in 0..u.line /\ u.end \in u.start..u.items
        /\ u.end \in 0..MaxItems /\ u.kind = v.kind
    BY <1>1, ShowSet
  <1>3. Refreshed(v) = IF v.kind = "chat" THEN v ELSE u
    BY DEF Refreshed
  <1> HIDE DEF v, u
  <1>4. Settled(Refreshed(v))
    BY <1>1, <1>2, <1>3 DEF Settled
  <1> QED
    BY <1>4 DEF v

----------------------------------------------------------------------------
(* The invariant. *)

\* A new window shows nothing and its thumb fills the track.
LEMMA ScrollInit == WindowInit => ScrollInv
  <1> SUFFICES ASSUME WindowInit PROVE ScrollInv
    OBVIOUS
  <1>1. Height \in Nat /\ MaxItems \in Nat /\ ShowLines \in Nat
    BY Track, ScrollAssumption
  <1>2. LineOf(0) = 0 /\ PxOf(0) = 0 /\ LenOf(0) = Height
    BY <1>1 DEF LineOf, PxOf, LenOf
  <1>3. Sized(win)
    <2>1. win \in Fields /\ win.items = 0 /\ win.line = 0 /\ win.px = 0 /\ win.h = Height /\ win.y = 0
      BY <1>1 DEF WindowInit, Fields
    <2> QED
      BY <1>1, <1>2, <2>1 DEF Sized
  <1>4. win.start = 0 /\ win.end = 0 /\ win.items = 0 /\ win.line = 0
    BY DEF WindowInit
  <1>5. StartAt(win) = 0
    BY <1>4 DEF StartAt
  <1>6. dragging \in BOOLEAN
    BY DEF WindowInit
  <1> QED
    BY <1>1, <1>3, <1>4, <1>5, <1>6 DEF ScrollInv, Settled

\* A window after its thumb was moved or touched.
Moved(w, y, p, b) == [w EXCEPT !.y = y, !.prev = p, !.scroll = b]

\* Moving the thumb within the track leaves a bar that fits.
LEMMA ThumbMoved ==
  ASSUME NEW w, Sized(w), NEW y \in 0..(Height - w.h), NEW p \in Int, NEW b \in BOOLEAN
  PROVE  Sized(Moved(w, y, p, b)) /\ Moved(w, y, p, b).end = w.end
  <1>1. w \in Fields /\ Height \in Int /\ w.h \in Int
    BY Track DEF Sized, Fields
  <1>2. y \in Int
    BY <1>1
  <1> DEFINE v == [w EXCEPT !.y = y, !.prev = p, !.scroll = b]
  <1>3. v \in Fields /\ v.y = y /\ \A f \in {"items", "line", "px", "h", "end"} : v[f] = w[f]
    BY <1>1, <1>2 DEF Fields
  <1> QED
    BY <1>3 DEF Sized, Moved

\* The thumb's new place is clamped to the track.
LEMMA Clamped ==
  ASSUME NEW w, Sized(w), NEW z \in Int
  PROVE  /\ Max({0, Min({z, Height - w.h})}) \in 0..(Height - w.h)
         /\ z >= 0 => Min({z, Height - w.h}) \in 0..(Height - w.h)
         /\ z <= Height - w.h => Max({0, z}) \in 0..(Height - w.h)
  <1>1. Height \in Int /\ w.h \in Int /\ w.h <= Height
    BY Track, Measures DEF Sized, Fields
  <1> DEFINE top == Height - w.h
  <1>2. top \in Nat
    BY <1>1
  <1> HIDE DEF top
  <1>3. Min({z, top}) = IF z <= top THEN z ELSE top
    BY <1>2, MinOfTwo
  <1>4. Max({0, Min({z, top})}) = IF 0 >= Min({z, top}) THEN 0 ELSE Min({z, top})
    BY <1>2, <1>3, MaxOfTwo
  <1>5. Max({0, z}) = IF 0 >= z THEN 0 ELSE z
    BY <1>2, MaxOfTwo
  <1> QED
    BY <1>2, <1>3, <1>4, <1>5 DEF top

\* A press on the bar or a row.
LEMMA MouseDownKeeps ==
  ASSUME ScrollInv, NEW where, NEW p \in Points, MouseDown(where, p)
  PROVE  ScrollInv'
  <1>1. /\ Sized(win) /\ win \in Fields /\ win.end \in 0..MaxItems /\ p \in Int /\ Unit \in Int /\ win.h \in Int
        /\ win.y \in 0..(Height - win.h) /\ win.prev \in Int
    BY ScrollAssumption DEF ScrollInv, Settled, Sized, Fields
  <1> DEFINE onBar == where = "bar" /\ p \in 0..(TrackHeight - 1)
             inWindow == where = "window" /\ p \in 0..(TrackHeight - 1)
             to == Max({0, Min({p * Unit - win.h \div 2, Height - win.h})})
             w == IF onBar /\ ~OnThumb(win, p) THEN [win EXCEPT !.y = to] ELSE win
             u == [w EXCEPT !.prev = IF onBar THEN p ELSE @, !.scroll = onBar \/ inWindow]
             y == IF onBar /\ ~OnThumb(win, p) THEN to ELSE win.y
             q == IF onBar THEN p ELSE win.prev
             b == onBar \/ inWindow
  <1>2. to \in 0..(Height - win.h)
    <2>1. p * Unit - win.h \div 2 \in Int
      BY <1>1
    <2> QED
      BY <1>1, <2>1, Clamped
  <1>3. dragging' = onBar /\ win' = Refreshed(set_show_start_index(u))
    BY DEF MouseDown
  <1>4. onBar \in BOOLEAN /\ b \in BOOLEAN /\ q \in Int /\ y \in 0..(Height - win.h)
    BY <1>1, <1>2
  <1>5. u = Moved(win, y, q, b)
    <2> HIDE DEF onBar, inWindow, to
    <2>1. CASE onBar /\ ~OnThumb(win, p)
      BY <1>1, <2>1 DEF Fields, Moved
    <2>2. CASE ~(onBar /\ ~OnThumb(win, p))
      BY <1>1, <2>2 DEF Fields, Moved
    <2> QED
      BY <2>1, <2>2
  <1> HIDE DEF u, y, q, b, onBar
  <1>6. Sized(u) /\ u.end = win.end
    BY <1>1, <1>4, <1>5, ThumbMoved
  <1>7. Settled(win')
    BY <1>1, <1>3, <1>6, EventSettles
  <1> QED
    BY <1>3, <1>4, <1>7 DEF ScrollInv

\* The bar is dragged.
LEMMA MouseMotionKeeps ==
  ASSUME ScrollInv, NEW p \in Points, MouseMotion(p)
  PROVE  ScrollInv'
  <1>1. /\ Sized(win) /\ win \in Fields /\ win.end \in 0..MaxItems /\ p \in Int /\ Unit \in Int /\ win.h \in Int
        /\ win.y \in 0..(Height - win.h) /\ win.prev \in Int /\ win.scroll \in BOOLEAN /\ Height \in Int /\ win.h <= Height
        /\ win.y \in Int
    BY ScrollAssumption, Track, Measures DEF ScrollInv, Settled, Sized, Fields
  <1>2. TrackHeight \in Int
    BY ScrollAssumption DEF TrackHeight
  <1>3. Sized(Dragged(win, p)) /\ Dragged(win, p).end = win.end
    <2>1. CASE p <= 0
      <3>1. Dragged(win, p) = Moved(win, 0, 0, win.scroll)
        BY <1>1, <2>1 DEF Dragged, Fields, Moved
      <3>2. 0 \in 0..(Height - win.h)
        BY <1>1
      <3> QED
        BY <1>1, <3>1, <3>2, ThumbMoved
    <2>2. CASE ~(p <= 0) /\ p >= TrackHeight
      <3>1. Dragged(win, p) = Moved(win, Height - win.h, TrackHeight, win.scroll)
        BY <1>1, <2>2 DEF Dragged, Fields, Moved
      <3>2. Height - win.h \in 0..(Height - win.h)
        BY <1>1
      <3> QED
        BY <1>1, <1>2, <3>1, <3>2, ThumbMoved
    <2>3. CASE ~(p <= 0) /\ ~(p >= TrackHeight)
      <3> DEFINE z == win.y + (p - win.prev) * Unit
                 y == Max({0, Min({z, Height - win.h})})
      <3>1. Dragged(win, p) = Moved(win, y, p, win.scroll)
        BY <1>1, <2>3 DEF Dragged, Fields, Moved
      <3>2. z \in Int
        BY <1>1
      <3> HIDE DEF z
      <3>3. y \in 0..(Height - win.h)
        BY <1>1, <3>2, Clamped
      <3> HIDE DEF y
      <3> QED
        BY <1>1, <3>1, <3>3, ThumbMoved
    <2> QED
      BY <2>1, <2>2, <2>3
  <1> DEFINE w == IF dragging THEN Dragged(win, p) ELSE win
  <1>4. Sized(w) /\ w.end \in 0..MaxItems
    BY <1>1, <1>3
  <1>5. win' = Refreshed(set_show_start_index(w)) /\ dragging' = dragging
    BY DEF MouseMotion
  <1> HIDE DEF w
  <1>6. Settled(win')
    BY <1>4, <1>5, EventSettles
  <1> QED
    BY <1>5, <1>6 DEF ScrollInv

\* The wheel turns.
LEMMA MouseWheelKeeps ==
  ASSUME ScrollInv, NEW down \in BOOLEAN, MouseWheel(down)
  PROVE  ScrollInv'
  <1>1. /\ Sized(win) /\ win \in Fields /\ win.end \in 0..MaxItems /\ Height \in Int /\ win.h \in Int
        /\ win.y \in 0..(Height - win.h) /\ win.prev \in Int /\ win.scroll \in BOOLEAN /\ win.px \in Nat /\ win.y \in Nat
        /\ win.y <= Height - win.h
    BY ScrollAssumption, Track, Measures DEF ScrollInv, Settled, Sized, Fields
  <1> DEFINE y == IF down THEN Min({win.y + win.px, Height - win.h}) ELSE Max({0, win.y - win.px})
             w == Moved(win, y, win.prev, win.scroll)
  <1>2. y \in 0..(Height - win.h)
    <2>1. win.y + win.px \in Int /\ win.y + win.px >= 0 /\ win.y - win.px \in Int /\ win.y - win.px <= Height - win.h
      BY <1>1
    <2>2. /\ Min({win.y + win.px, Height - win.h}) \in 0..(Height - win.h)
          /\ Max({0, win.y - win.px}) \in 0..(Height - win.h)
      BY <1>1, <2>1, Clamped
    <2> QED
      BY <2>2
  <1> HIDE DEF y
  <1>3. win' = Refreshed(set_show_start_index([win EXCEPT !.y = y])) /\ dragging' = dragging
    BY DEF MouseWheel, y
  <1>4. w = [win EXCEPT !.y = y]
    BY <1>1 DEF Fields, Moved
  <1>5. Sized(w) /\ w.end = win.end
    BY <1>1, <1>2, ThumbMoved
  <1> HIDE DEF w
  <1>6. Settled(win')
    BY <1>1, <1>3, <1>4, <1>5, EventSettles
  <1> QED
    BY <1>3, <1>6 DEF ScrollInv

\* The bar is let go.
LEMMA MouseUpKeeps ==
  ASSUME ScrollInv, MouseUp
  PROVE  ScrollInv'
  <1>1. Sized(win) /\ win.start \in 0..win.line
    BY DEF ScrollInv, Settled
  <1>2. dragging' = FALSE /\ win' = IF win.kind = "chat" THEN win ELSE update_show(win)
    BY DEF MouseUp, Refreshed
  <1>3. CASE win.kind = "chat"
    BY <1>2, <1>3 DEF ScrollInv, Settled
  <1>4. CASE win.kind # "chat"
    <2> DEFINE v == update_show(win)
    <2>1. /\ Sized(v) /\ v.start \in 0..v.line /\ v.kind = win.kind
          /\ v.end \in v.start..v.items /\ v.end \in 0..MaxItems
      BY <1>1, ShowSet
    <2>2. win' = v
      BY <1>2, <1>4
    <2> HIDE DEF v
    <2>3. Settled(win')
      BY <1>4, <2>1, <2>2 DEF Settled
    <2> QED
      BY <1>2, <2>3 DEF ScrollInv
  <1> QED
    BY <1>3, <1>4

\* A frame is drawn.
LEMMA DrawKeeps ==
  ASSUME ScrollInv, draw
  PROVE  ScrollInv'
  <1>1. Sized(win) /\ win.start \in 0..win.line /\ (win.kind = "chat" => win.start = StartAt(win))
    BY DEF ScrollInv, Settled
  <1> DEFINE v == update_show(win)
  <1>2. /\ Sized(v) /\ v.start \in 0..v.line /\ v.kind = win.kind /\ v.start = win.start /\ StartAt(v) = StartAt(win)
        /\ v.end \in v.start..v.items /\ v.end \in 0..MaxItems
    BY <1>1, ShowSet
  <1>3. win' = v /\ dragging' = dragging
    BY DEF draw
  <1> HIDE DEF v
  <1>4. Settled(win')
    BY <1>1, <1>2, <1>3 DEF Settled
  <1> QED
    BY <1>3, <1>4 DEF ScrollInv

\* A window with another number of rows, before it is measured again.
WithItems(w, n) == [w EXCEPT !.items = n]

\* The number of rows changes, and the bar with it.
LEMMA ItemsChanged ==
  ASSUME NEW w, Settled(w), NEW n \in 0..MaxItems
  PROVE  LET v == Measured(WithItems(w, n))
         IN Sized(v) /\ v.kind = w.kind /\ v.items = n /\ v.start = w.start /\ v.end = w.end
  <1>1. /\ WithItems(w, n) \in Fields /\ WithItems(w, n).kind = w.kind /\ WithItems(w, n).items = n
        /\ WithItems(w, n).start = w.start /\ WithItems(w, n).end = w.end
    BY DEF Settled, Sized, Fields, WithItems
  <1> QED
    BY <1>1, MeasuredFits

\* A message under a drag keeps the thumb, any other one shows the last page.
LEMMA MessageKeeps ==
  ASSUME ScrollInv, NEW n \in 1..2, add_new_message(n)
  PROVE  ScrollInv'
  <1>1. win.items \in 0..MaxItems /\ MaxItems \in Nat /\ n \in Nat /\ Settled(win)
    BY ScrollAssumption DEF ScrollInv, Settled, Sized, Fields
  <1> DEFINE m == Min({win.items + n, MaxItems})
             w == Measured(WithItems(win, m))
  <1>2. m \in 0..MaxItems
    <2>1. m = IF win.items + n <= MaxItems THEN win.items + n ELSE MaxItems
      BY <1>1, MinOfTwo
    <2> QED
      BY <1>1, <2>1
  <1>3. /\ win.kind = "chat" /\ dragging' = dragging
        /\ win' = IF dragging THEN set_show_start_index(w) ELSE scroll_to_bottom(w)
    BY DEF add_new_message, WithItems
  <1> HIDE DEF m
  <1>4. Sized(w) /\ w.kind = "chat" /\ w.end = win.end
    BY <1>1, <1>2, <1>3, ItemsChanged
  <1> HIDE DEF w
  <1>5. /\ Sized(win') /\ win'.start \in 0..(win'.line) /\ win'.start = StartAt(win')
        /\ win'.kind = "chat" /\ win'.end = win.end
    <2>1. CASE dragging
      <3>1. win' = set_show_start_index(w)
        BY <1>3, <2>1
      <3> QED
        BY <1>4, <3>1, StartSet
    <2>2. CASE ~dragging
      <3>1. win' = scroll_to_bottom(w)
        BY <1>3, <2>2
      <3> QED
        BY <1>4, <3>1, Bottom
    <2> QED
      BY <2>1, <2>2
  <1>6. Settled(win')
    BY <1>1, <1>5 DEF Settled
  <1> QED
    BY <1>3, <1>6 DEF ScrollInv

\* A new row leaves the first row where it was.
LEMMA RowKeeps ==
  ASSUME ScrollInv, add_row
  PROVE  ScrollInv'
  <1>1. /\ win.items \in 0..MaxItems /\ MaxItems \in Nat /\ Settled(win) /\ ShowLines \in Nat
        /\ win.items < MaxItems /\ win.kind # "chat"
        /\ win.line = LineOf(win.items) /\ win.start \in 0..win.line
    BY ScrollAssumption DEF ScrollInv, Settled, Sized, Fields, add_row
  <1> DEFINE m == win.items + 1
             w == Measured(WithItems(win, m))
             v == update_show(w)
  <1>2. m \in 0..MaxItems /\ LineOf(win.items) <= LineOf(m) /\ LineOf(m) \in Nat /\ LineOf(win.items) \in Nat
    BY <1>1 DEF LineOf
  <1>3. win' = v /\ dragging' = dragging
    BY DEF add_row, WithItems
  <1> HIDE DEF m
  <1>4. Sized(w) /\ w.kind = win.kind /\ w.start = win.start /\ w.items = m
    BY <1>1, <1>2, ItemsChanged
  <1> HIDE DEF w
  <1>5. w.line = LineOf(m)
    BY <1>4 DEF Sized
  <1>6. w.start \in 0..w.line
    BY <1>1, <1>2, <1>4, <1>5
  <1>7. /\ Sized(v) /\ v.start \in 0..v.line /\ v.kind = w.kind
        /\ v.end \in v.start..v.items /\ v.end \in 0..MaxItems
    BY <1>4, <1>6, ShowSet
  <1> HIDE DEF v
  <1>8. Settled(win')
    BY <1>1, <1>3, <1>4, <1>7 DEF Settled
  <1> QED
    BY <1>3, <1>8 DEF ScrollInv

\* A row that goes sets the first row again before the range.
LEMMA DeleteKeeps ==
  ASSUME ScrollInv, NEW n \in 0..1, delete_user(n)
  PROVE  ScrollInv'
  <1>1. /\ win.items \in 0..MaxItems /\ MaxItems \in Nat /\ Settled(win)
        /\ n <= win.items /\ win.kind # "chat"
    BY ScrollAssumption DEF ScrollInv, Settled, Sized, Fields, delete_user
  <1> DEFINE m == win.items - n
             w == Measured(WithItems(win, m))
             u == set_show_start_index(w)
             v == update_show(u)
  <1>2. m \in 0..MaxItems
    BY <1>1
  <1>3. win' = v /\ dragging' = dragging
    BY DEF delete_user, WithItems
  <1> HIDE DEF m
  <1>4. Sized(w) /\ w.kind = win.kind
    BY <1>1, <1>2, ItemsChanged
  <1> HIDE DEF w
  <1>5. Sized(u) /\ u.start \in 0..u.line /\ u.kind = w.kind
    BY <1>4, StartSet
  <1> HIDE DEF u
  <1>6. /\ Sized(v) /\ v.start \in 0..v.line /\ v.kind = u.kind
        /\ v.end \in v.start..v.items /\ v.end \in 0..MaxItems
    BY <1>5, ShowSet
  <1> HIDE DEF v
  <1>7. Settled(win')
    BY <1>1, <1>3, <1>4, <1>5, <1>6 DEF Settled
  <1> QED
    BY <1>3, <1>7 DEF ScrollInv

\* The list is emptied.
LEMMA ClearKeeps ==
  ASSUME ScrollInv, clear
  PROVE  ScrollInv'
  <1>1. win \in Fields /\ Height \in Nat /\ MaxItems \in Nat /\ ShowLines \in Nat /\ dragging \in BOOLEAN
    BY ScrollAssumption, Track DEF ScrollInv, Settled, Sized
  <1>2. LineOf(0) = 0 /\ PxOf(0) = 0 /\ LenOf(0) = Height
    BY <1>1 DEF LineOf, PxOf, LenOf
  <1>3. Max({0, 0 - ShowLines}) = 0
    BY <1>1, MaxOfTwo
  <1> DEFINE w == [win EXCEPT !.items = 0, !.start = 0, !.end = 0, !.y = 0, !.h = Height]
  <1>4. w \in Fields /\ w.items = 0 /\ w.start = 0 /\ w.end = 0 /\ w.y = 0 /\ w.h = Height /\ w.kind = win.kind
    <2>1. Height \in Int /\ 0 \in 0..MaxItems /\ 0 \in Int
      BY <1>1
    <2> DEFINE u == [win EXCEPT !.items = 0, !.start = 0, !.end = 0]
    <2>2. u \in Fields /\ u.items = 0 /\ u.start = 0 /\ u.end = 0 /\ u.kind = win.kind
      BY <1>1, <2>1 DEF Fields
    <2>3. w = [u EXCEPT !.y = 0, !.h = Height]
      OBVIOUS
    <2> HIDE DEF u, w
    <2> QED
      BY <2>1, <2>2, <2>3 DEF Fields
  <1>5. win' = set_scroll_info(w) /\ dragging' = dragging
    BY DEF clear
  <1> HIDE DEF w
  <1>6. win' = [w EXCEPT !.line = 0, !.px = 0]
    <2>1. Max({0, w.items - ShowLines}) = 0 /\ ~(w.items > 0)
      BY <1>3, <1>4
    <2> QED
      BY <1>5, <2>1 DEF set_scroll_info
  <1>7. /\ win' \in Fields /\ win'.items = 0 /\ win'.start = 0 /\ win'.end = 0 /\ win'.y = 0 /\ win'.h = Height
        /\ win'.line = 0 /\ win'.px = 0
    BY <1>4, <1>6 DEF Fields
  <1>8. StartAt(win') = 0
    BY <1>7 DEF StartAt
  <1>9. Sized(win')
    BY <1>1, <1>2, <1>7 DEF Sized
  <1>10. Settled(win')
    BY <1>1, <1>7, <1>8, <1>9 DEF Settled
  <1> QED
    BY <1>1, <1>5, <1>10 DEF ScrollInv

\* Every step keeps a window settled.
LEMMA ScrollStep ==
  ASSUME ScrollInv, [WindowNext]_windowVars
  PROVE  ScrollInv'
  <1>1. ASSUME NEW where \in {"bar", "window", "outside"}, NEW p \in Points, MouseDown(where, p)
        PROVE  ScrollInv'
    BY <1>1, MouseDownKeeps
  <1>2. ASSUME NEW p \in Points, MouseMotion(p) PROVE ScrollInv'
    BY <1>2, MouseMotionKeeps
  <1>3. CASE MouseUp
    BY <1>3, MouseUpKeeps
  <1>4. ASSUME NEW down \in BOOLEAN, MouseWheel(down) PROVE ScrollInv'
    BY <1>4, MouseWheelKeeps
  <1>5. ASSUME NEW n \in 1..2, add_new_message(n) PROVE ScrollInv'
    BY <1>5, MessageKeeps
  <1>6. CASE add_row
    BY <1>6, RowKeeps
  <1>7. ASSUME NEW n \in 0..1, delete_user(n) PROVE ScrollInv'
    BY <1>7, DeleteKeeps
  <1>8. CASE clear
    BY <1>8, ClearKeeps
  <1>9. CASE draw
    BY <1>9, DrawKeeps
  <1>10. CASE UNCHANGED windowVars
    BY <1>10 DEF windowVars, ScrollInv, Settled, Sized, StartAt
  <1> QED
    BY <1>1, <1>2, <1>3, <1>4, <1>5, <1>6, <1>7, <1>8, <1>9, <1>10 DEF WindowNext

\* A settled window shows a page of rows that exist.
LEMMA SettledShows == ScrollInv => PageShown /\ StartFollowsThumb
  <1> SUFFICES ASSUME ScrollInv PROVE PageShown /\ StartFollowsThumb
    OBVIOUS
  <1>1. /\ win \in Fields /\ win.items \in Nat /\ win.items <= MaxItems /\ MaxItems \in Nat /\ ShowLines \in Nat
        /\ win.line = LineOf(win.items) /\ win.line \in 0..win.items /\ win.px \in 0..Height
        /\ win.h \in MinHeight..Height /\ win.y \in 0..(Height - win.h)
        /\ win.start \in 0..win.line /\ win.end \in 0..MaxItems
    BY ScrollAssumption, Measures DEF ScrollInv, Settled, Sized, Fields
  <1>2. win.line \in 0..MaxItems /\ win.start \in 0..MaxItems /\ win.start \in Int /\ win.line \in Int
    BY <1>1
  <1>3. WindowTyped
    BY <1>1, <1>2 DEF WindowTyped, Fields
  <1>4. FullPage
    BY <1>1, <1>2 DEF FullPage, LineOf
  <1>5. ShownExists
    BY <1>1, <1>2 DEF ShownExists, ScrollInv, Settled
  <1> QED
    BY <1>3, <1>4, <1>5 DEF PageShown, StartFollowsThumb, ScrollInv, Settled

----------------------------------------------------------------------------
(* Theorems. *)

\* Every window always is settled.
THEOREM WindowSettled == WindowSpec => []ScrollInv
  BY ScrollInit, ScrollStep, PTL DEF WindowSpec

\* For any number of rows, row heights and events: the thumb stays in its track and
\* the rows that are shown are a full page of rows that exist (scroll_window_base,
\* chat_window, room_list, user_list).
THEOREM PagesAreFull == WindowSpec => []PageShown
  BY WindowSettled, SettledShows, PTL

\* The chat always shows the page its thumb points to, also when messages arrive or
\* are dropped under a drag (add_new_message, set_show_start_index).
THEOREM ThumbIsFollowed == WindowSpec => []StartFollowsThumb
  BY WindowSettled, SettledShows, PTL
=============================================================================
