--------------------------- MODULE ClientScreens ---------------------------
(***************************************************************************)
(* The screens of the client before and between games: login, lobby with   *)
(* its menus and modal windows, ranking, the change of screens behind a    *)
(* fade (states/base_state, login_state, lobby_state, ranking_state), and  *)
(* as much of the server as answers them.                                  *)
(*                                                                         *)
(* A window of the lobby is a field that is None or an object; the model   *)
(* keeps the set of the open ones.  Of the three lists a new lobby asks    *)
(* for, the room list is modelled; chat, sound settings and drawing are    *)
(* not.  A frame handles at most one input event.                          *)
(*                                                                         *)
(* Nothing makes the player wait: a request may be sent again, and a       *)
(* screen left, while answers are under way.  Three history variables,     *)
(* which no guard reads, record what is then excused: missed, asked and    *)
(* clobbered.                                                              *)
(***************************************************************************)
EXTENDS Naturals, Sequences, FiniteSets, SequencesExt

CONSTANTS
  Rooms,        \* the rooms of the server
  Private,      \* those with a password
  Users,        \* other players
  MaxRequests,  \* bound: requests under way
  MaxPackets,   \* bound: packets under way when the server answers or speaks unasked
  MaxWindows,   \* bound: windows open when the server speaks unasked
  None

Screens == {"Login", "Lobby", "Ranking", "Single", "Multi"}

ASSUME ScreensAssumption ==
  /\ IsFiniteSet(Rooms) /\ Private \subseteq Rooms
  /\ None \notin Rooms \cup Users \cup Screens \cup {"in", "out", "account", "all", "room"}
  /\ None \notin {1, 2}

VARIABLES
  screen,       \* the state object of the main loop
  next_state,   \* the screen that was queued, or None
  fade_mode,    \* None, "in" or "out"
  reactable,
  windows,      \* the open windows of the current screen
  create_error, \* CreateRoomWindow.error_popup is open
  join_room_key, friend_requester_id,
  room_list,    \* RoomList.rooms
  rankings,     \* RankingState.rankings: how many entries
  crashed,      \* an exception left the main loop
  c2s, s2c,     \* requests and packets under way
  missed,       \* history: the way into the room was announced to a screen that does not read it
  asked,        \* history: how the list of the screen to come was asked for, see AskedFor
  clobbered,    \* history: a public room was clicked while the password window of another is open
  place         \* server: "login", "lobby", "pending", "room", or "none" before the connection

fade == <<screen, next_state, fade_mode>>
password == <<join_room_key, clobbered>>
modal == <<reactable, windows, create_error, password, friend_requester_id>>
lists == <<room_list, rankings>>
net == <<c2s, s2c, place>>
past == <<missed, asked>>
vars == <<fade, modal, lists, crashed, net, past>>

----------------------------------------------------------------------------
(* Changing screens. *)

\* Input reaches a screen only outside a fade.
Reacts == ~crashed /\ fade_mode = None

\* PacketBuilder and send_packet; packing None raises struct.error.  What the server
\* does depends on the type alone: the five requests for a room, to create, to join
\* and to be matched, are "ENTER".
Send(type, arg) ==
  IF arg = None THEN crashed' = TRUE /\ UNCHANGED c2s
  ELSE c2s' = Append(c2s, type) /\ UNCHANGED crashed

MaySend == Len(c2s) < MaxRequests

\* The button of a window that sends its request, or the one that does not.
SendOrNot(type, arg) == \/ MaySend /\ Send(type, arg)
                        \/ UNCHANGED <<c2s, crashed>>

\* A list is asked for "once"; "again" while an earlier request for it or a part
\* of the answer is under way; "unheard" when the server has the session in a room.
AskedFor(request, info) ==
  IF missed THEN "unheard"
  ELSE IF \/ request \in Range(c2s)
          \/ \E p \in Range(s2c) : p.type = info
       THEN "again" ELSE "once"

\* queue_state(S(...)): the first one counts; the constructors of the lobby
\* and of the ranking send their requests at once.
QueueState(s) ==
  /\ IF next_state = None THEN next_state' = s /\ fade_mode' = "out" ELSE UNCHANGED <<next_state, fade_mode>>
  /\ CASE s = "Lobby" -> Send("ROOM_LIST", "all") /\ asked' = AskedFor("ROOM_LIST", "ROOM_INFO")
       [] s = "Ranking" -> Send("RANKING", "all") /\ asked' = AskedFor("RANKING", "RANKING_INFO")
       [] OTHER -> UNCHANGED <<c2s, crashed, asked>>
  /\ UNCHANGED screen

\* Mutant: the lists of the last visit are kept.
ChangeScreenKept ==
  /\ fade_mode = "out" /\ ~crashed
  /\ screen' = next_state /\ next_state' = None /\ fade_mode' = "in"
  /\ UNCHANGED <<modal, lists, crashed, net, past>>

\* consume_state at the end of the fade-out: the queued object, fresh from its
\* constructor, takes over and fades in.
ChangeScreen ==
  /\ fade_mode = "out" /\ ~crashed
  /\ screen' = next_state /\ next_state' = None /\ fade_mode' = "in"
  /\ reactable' = TRUE /\ windows' = {} /\ create_error' = FALSE
  /\ join_room_key' = None /\ clobbered' = FALSE
  /\ friend_requester_id' = None
  /\ room_list' = <<>> /\ rankings' = 0
  /\ UNCHANGED <<crashed, net, past>>

\* update_fade at the end of the fade-in.
FadedIn ==
  /\ fade_mode = "in" /\ ~crashed
  /\ fade_mode' = None
  /\ UNCHANGED <<screen, next_state, modal, lists, crashed, net, past>>

----------------------------------------------------------------------------
(* Login. *)

\* LoginState.connect, at start-up and after every "retry".
Connect(left) ==
  \/ place' = "login" /\ windows' = left /\ reactable' = TRUE
  \/ place' = "none" /\ windows' = left \cup {"fail_connect"} /\ reactable' = FALSE

Retry ==
  /\ Reacts /\ screen = "Login" /\ ~reactable /\ "fail_connect" \in windows
  /\ Connect(windows \ {"fail_connect"})
  /\ UNCHANGED <<fade, create_error, password, friend_requester_id, lists, crashed, c2s, s2c, past>>

PressLogin ==
  /\ Reacts /\ screen = "Login" /\ reactable /\ MaySend
  /\ Send("LOGIN", "account")
  /\ UNCHANGED <<fade, modal, lists, s2c, place, past>>

ConfirmLoginError ==
  /\ Reacts /\ screen = "Login" /\ ~reactable
  /\ "fail_connect" \notin windows /\ "fail_login" \in windows
  /\ windows' = windows \ {"fail_login"} /\ reactable' = TRUE
  /\ UNCHANGED <<fade, create_error, password, friend_requester_id, lists, crashed, net, past>>

----------------------------------------------------------------------------
(* The lobby while it is reactable. *)

InLobby == Reacts /\ screen = "Lobby" /\ reactable

\* The menus that open a window; one that is open already is replaced.
PressMenu ==
  /\ InLobby
  /\ \E w \in {"quick_start", "room_create"} :
       /\ windows' = windows \cup {w}
       /\ create_error' = (w # "room_create" /\ create_error)
  /\ reactable' = FALSE
  /\ UNCHANGED <<fade, password, friend_requester_id, lists, crashed, net, past>>

PressRanking ==
  /\ InLobby /\ MaySend
  /\ QueueState("Ranking")
  /\ UNCHANGED <<modal, lists, s2c, place, missed>>

PressRefresh ==
  /\ InLobby /\ MaySend
  /\ room_list' = <<>> /\ Send("ROOM_LIST", "all") /\ asked' = AskedFor("ROOM_LIST", "ROOM_INFO")
  /\ UNCHANGED <<fade, modal, rankings, s2c, place, missed>>

\* A room of the list: a private one asks for its password, a public one is joined.
ClickRoom ==
  /\ InLobby
  /\ \E i \in DOMAIN room_list :
       IF room_list[i] \in Private
       THEN /\ join_room_key' = room_list[i] /\ clobbered' = FALSE
            /\ windows' = windows \cup {"input_pw"} /\ reactable' = FALSE
            /\ UNCHANGED <<c2s, crashed>>
       ELSE /\ MaySend /\ Send("ENTER", room_list[i])
            /\ join_room_key' = None /\ clobbered' = ("input_pw" \in windows)
            /\ UNCHANGED <<windows, reactable>>
  /\ UNCHANGED <<fade, create_error, friend_requester_id, lists, s2c, place, past>>

----------------------------------------------------------------------------
(* The lobby while it is not: the event goes to the first open window. *)

Order == <<"error", "quick_start", "fast_matching", "room_create", "input_pw", "info", "friend_request">>

InWindow(w) ==
  /\ Reacts /\ screen = "Lobby" /\ ~reactable /\ w \in windows
  /\ \A i, j \in DOMAIN Order : (Order[j] = w /\ i < j) => Order[i] \notin windows

\* A window that closes makes the lobby reactable, whatever else is open.
CloseWindow(w) == windows' = windows \ {w} /\ reactable' = TRUE

\* error_popup, info_popup: one button.
ConfirmNotice(w) ==
  /\ InWindow(w) /\ CloseWindow(w)
  /\ UNCHANGED <<fade, create_error, password, friend_requester_id, lists, crashed, net, past>>

\* Single: a room for one is created.  Multi: the matching window follows.
ChooseQuickStart ==
  /\ InWindow("quick_start")
  /\ \/ MaySend /\ Send("ENTER", 1) /\ CloseWindow("quick_start")
     \/ CloseWindow("quick_start") /\ UNCHANGED <<c2s, crashed>>
     \/ /\ windows' = (windows \ {"quick_start"}) \cup {"fast_matching"}
        /\ UNCHANGED <<reactable, c2s, crashed>>
  /\ UNCHANGED <<fade, create_error, password, friend_requester_id, lists, s2c, place, past>>

\* Mutant: the lobby stays closed.
ChooseMatchingBare ==
  /\ InWindow("fast_matching") /\ windows' = windows \ {"fast_matching"} /\ UNCHANGED reactable
  /\ SendOrNot("ENTER", 2)
  /\ UNCHANGED <<fade, create_error, password, friend_requester_id, lists, s2c, place, past>>

\* Find sends only when an option is chosen; both buttons close the window.
ChooseMatching ==
  /\ InWindow("fast_matching") /\ CloseWindow("fast_matching")
  /\ SendOrNot("ENTER", 2)
  /\ UNCHANGED <<fade, create_error, password, friend_requester_id, lists, s2c, place, past>>

\* A title or a password that is too short opens the window's own popup, which
\* takes every event until it is confirmed.
CreateRoom ==
  /\ InWindow("room_create")
  /\ \/ create_error /\ create_error' = FALSE /\ UNCHANGED <<windows, reactable, c2s, crashed>>
     \/ ~create_error /\ create_error' = TRUE /\ UNCHANGED <<windows, reactable, c2s, crashed>>
     \/ /\ ~create_error /\ UNCHANGED create_error /\ CloseWindow("room_create")
        /\ SendOrNot("ENTER", 2)
  /\ UNCHANGED <<fade, password, friend_requester_id, lists, s2c, place, past>>

EnterPassword ==
  /\ InWindow("input_pw") /\ CloseWindow("input_pw")
  /\ SendOrNot("ENTER", join_room_key)
  /\ join_room_key' = None /\ UNCHANGED clobbered
  /\ UNCHANGED <<fade, create_error, friend_requester_id, lists, s2c, place, past>>

\* Accept or close.
AnswerFriend ==
  /\ InWindow("friend_request") /\ CloseWindow("friend_request")
  /\ SendOrNot("ACCEPT", friend_requester_id)
  /\ friend_requester_id' = None
  /\ UNCHANGED <<fade, create_error, password, lists, s2c, place, past>>

----------------------------------------------------------------------------
(* Ranking and the play screens, as far as they lead back to the lobby. *)

PressBack ==
  /\ Reacts /\ screen = "Ranking" /\ MaySend
  /\ QueueState("Lobby")
  /\ UNCHANGED <<modal, lists, s2c, place, missed>>

PressLeave ==
  /\ Reacts /\ screen \in {"Single", "Multi"} /\ MaySend
  /\ Send("LEAVE", "room")
  /\ UNCHANGED <<fade, modal, lists, s2c, place, past>>

----------------------------------------------------------------------------
(* Packets: drain_packets stops while a screen is queued. *)

OpenPopup(w) == windows' = windows \cup {w} /\ reactable' = FALSE

\* Mutant: the login packet is ignored.
LoginPacketDropped(p) ==
  /\ IF p.type = "ERROR" THEN OpenPopup("fail_login") ELSE UNCHANGED <<windows, reactable>>
  /\ UNCHANGED <<fade, c2s, crashed, asked, create_error, password, friend_requester_id, lists>>

LoginPacket(p) ==
  /\ CASE p.type = "ERROR" -> OpenPopup("fail_login") /\ UNCHANGED <<fade, c2s, crashed, asked>>
       [] p.type = "LOGIN" -> QueueState("Lobby") /\ UNCHANGED <<windows, reactable>>
       [] OTHER -> UNCHANGED <<fade, windows, reactable, c2s, crashed, asked>>
  /\ UNCHANGED <<create_error, password, friend_requester_id, lists>>

LobbyPacket(p) ==
  /\ CASE p.type = "ERROR" -> OpenPopup("error") /\ UNCHANGED <<fade, friend_requester_id, lists, c2s, crashed, asked>>
       [] p.type = "INFO" -> OpenPopup("info") /\ UNCHANGED <<fade, friend_requester_id, lists, c2s, crashed, asked>>
       [] p.type = "REQUEST_FRIEND" ->
            /\ OpenPopup("friend_request") /\ friend_requester_id' = p.arg
            /\ UNCHANGED <<fade, lists, c2s, crashed, asked>>
       [] p.type = "ROOM_INFO" ->
            /\ room_list' = Append(room_list, p.arg)
            /\ UNCHANGED <<fade, windows, reactable, friend_requester_id, rankings, c2s, crashed, asked>>
       [] p.type = "ADD_ROOM" ->
            /\ QueueState(IF p.arg = 1 THEN "Single" ELSE "Multi")
            /\ UNCHANGED <<windows, reactable, friend_requester_id, lists>>
       [] OTHER -> UNCHANGED <<fade, windows, reactable, friend_requester_id, lists, c2s, crashed, asked>>
  /\ UNCHANGED <<create_error, password>>

\* The way into a room is not read here.
RankingPacket(p) ==
  /\ rankings' = IF p.type = "RANKING_INFO" THEN rankings + 1 ELSE rankings
  /\ asked' = IF p.type = "ADD_ROOM" THEN "unheard" ELSE asked
  /\ UNCHANGED <<fade, modal, room_list, c2s, crashed>>

\* SinglePlayState, MultiPlayState: the player's own removal.
PlayPacket(p) ==
  /\ IF p.type = "DELETE_USER" THEN QueueState("Lobby") ELSE UNCHANGED <<fade, c2s, crashed, asked>>
  /\ UNCHANGED <<modal, lists>>

HandlePacket ==
  /\ s2c # <<>> /\ next_state = None /\ ~crashed
  /\ s2c' = Tail(s2c)
  /\ LET p == Head(s2c)
     IN /\ CASE screen = "Login" -> LoginPacket(p)
             [] screen = "Lobby" -> LobbyPacket(p)
             [] screen = "Ranking" -> RankingPacket(p)
             [] OTHER -> PlayPacket(p)
        /\ missed' = CASE p.type = "ADD_ROOM" -> screen # "Lobby"
                       [] p.type = "DELETE_USER" -> FALSE
                       [] OTHER -> missed
  /\ UNCHANGED place

----------------------------------------------------------------------------
(* The server: what LobbyRoom promises, one request at a time. *)

Packet(type, arg) == [type |-> type, arg |-> arg]
Answer(packets) == s2c' = s2c \o packets

\* The rooms in the order in which the list reports them.
RoomList == [i \in 1..Cardinality(Rooms) |-> SetToSeq(Rooms)[i]]

\* ProcessPacket of the lobby, by type.  A room request makes the entry PENDING;
\* another one is dropped or refused until it is decided.  A login that was sent
\* twice is ignored, or refused when the database thread had it already.
LobbyServes(r) ==
  CASE r = "ROOM_LIST" -> Answer([i \in DOMAIN RoomList |-> Packet("ROOM_INFO", RoomList[i])]) /\ UNCHANGED place
    [] r = "RANKING" -> Answer(<<Packet("RANKING_INFO", "r")>>) /\ UNCHANGED place
    [] r = "ENTER" ->
         \/ place = "lobby" /\ place' = "pending" /\ UNCHANGED s2c
         \/ UNCHANGED place /\ Answer(<<Packet("ERROR", "code")>>)
         \/ place = "pending" /\ UNCHANGED <<place, s2c>>
    [] r = "LOGIN" -> UNCHANGED place /\ (UNCHANGED s2c \/ Answer(<<Packet("ERROR", "code")>>))
    [] OTHER -> UNCHANGED <<s2c, place>>

\* RoutePacket: by the mode of the session; a room ignores what it does not know.
Serve ==
  /\ c2s # <<>> /\ Len(s2c) < MaxPackets
  /\ c2s' = Tail(c2s)
  /\ LET r == Head(c2s)
     IN CASE place = "login" /\ r = "LOGIN" ->
               \/ Answer(<<Packet("LOGIN", "id")>>) /\ place' = "lobby"
               \/ Answer(<<Packet("ERROR", "code")>>) /\ UNCHANGED place
          [] place \in {"lobby", "pending"} -> LobbyServes(r)
          [] place = "room" /\ r = "LEAVE" -> place' = "leaving" /\ UNCHANGED s2c
          [] OTHER -> UNCHANGED <<s2c, place>>
  /\ UNCHANGED <<fade, modal, lists, crashed, past>>

\* ROOM_TRANSITION_RESULT: the session is in its room and is told, or refused.
Decide ==
  /\ place = "pending"
  /\ \/ place' = "room" /\ \E n \in {1, 2} : Answer(<<Packet("ADD_ROOM", n)>>)
     \/ place' = "lobby" /\ Answer(<<Packet("ERROR", "code")>>)
  /\ UNCHANGED <<fade, modal, lists, crashed, c2s, past>>

\* ENTER_LOBBY: the session is in the lobby before its removal is announced.
EnterLobby ==
  /\ place = "leaving"
  /\ place' = "lobby" /\ Answer(<<Packet("DELETE_USER", "id")>>)
  /\ UNCHANGED <<fade, modal, lists, crashed, c2s, past>>

\* Unasked: a notice, a friend request, a kick.
ServerSpeaks ==
  /\ Len(s2c) < MaxPackets /\ Cardinality(windows) < MaxWindows
  /\ \/ /\ place = "lobby" /\ UNCHANGED place
        /\ \E u \in Users : Answer(<<Packet("REQUEST_FRIEND", u)>>)
     \/ place = "lobby" /\ UNCHANGED place /\ Answer(<<Packet("INFO", "notice")>>)
     \/ place = "room" /\ place' = "leaving" /\ Answer(<<Packet("INFO", "kicked")>>)
  /\ UNCHANGED <<fade, modal, lists, crashed, c2s, past>>

----------------------------------------------------------------------------
Init ==
  /\ screen = "Login" /\ next_state = None /\ fade_mode = None
  /\ \/ place = "login" /\ windows = {} /\ reactable = TRUE
     \/ place = "none" /\ windows = {"fail_connect"} /\ reactable = FALSE
  /\ create_error = FALSE /\ join_room_key = None /\ friend_requester_id = None
  /\ room_list = <<>> /\ rankings = 0 /\ crashed = FALSE
  /\ missed = FALSE /\ asked = "once" /\ clobbered = FALSE
  /\ c2s = <<>> /\ s2c = <<>>

Window ==
  \/ \E w \in {"error", "info"} : ConfirmNotice(w)
  \/ ChooseQuickStart \/ ChooseMatching \/ CreateRoom
  \/ EnterPassword \/ AnswerFriend

Next ==
  \/ ChangeScreen \/ FadedIn \/ Retry \/ PressLogin \/ ConfirmLoginError
  \/ PressMenu \/ PressRanking \/ PressRefresh \/ ClickRoom
  \/ Window \/ PressBack \/ PressLeave \/ HandlePacket
  \/ Serve \/ Decide \/ EnterLobby \/ ServerSpeaks

Spec == Init /\ [][Next]_vars

\* The main loop draws frames, the server serves its queues.  A player who keeps
\* changing screens does not keep the packets from being read: run drains the
\* queue before every frame, so at least once in the life of every screen.
FairSpec ==
  /\ Spec /\ WF_vars(ChangeScreen) /\ WF_vars(FadedIn) /\ SF_vars(HandlePacket)
  /\ WF_vars(Serve) /\ WF_vars(Decide) /\ WF_vars(EnterLobby)

----------------------------------------------------------------------------
(* Properties. *)

Names == {Order[i] : i \in DOMAIN Order} \cup {"fail_connect", "fail_login"}

\* The fields of the screens have the types their constructors give them.
TypeOK ==
  /\ screen \in Screens /\ next_state \in Screens \cup {None} /\ fade_mode \in {None, "in", "out"}
  /\ reactable \in BOOLEAN /\ windows \subseteq Names /\ create_error \in BOOLEAN
  /\ join_room_key \in Rooms \cup {None} /\ friend_requester_id \in Users \cup {None}
  /\ \A i \in DOMAIN room_list : room_list[i] \in Rooms
  /\ rankings \in Nat /\ crashed \in BOOLEAN
  /\ missed \in BOOLEAN /\ asked \in {"once", "again", "unheard"} /\ clobbered \in BOOLEAN
  /\ place \in {"none", "login", "lobby", "pending", "room", "leaving"}

\* A screen that does not react to its own controls has a window that does, so
\* no order of popups, confirmations and packets locks the player out.
NeverStuck == ~reactable => windows # {}

\* While the friend popup is open it knows whom it is about: a notice, a second
\* request or another window in front of it never makes "accept" pack None.
RequesterKnown == "friend_request" \in windows => friend_requester_id # None

\* The password window knows its room, and the main loop is not ended by a missing
\* one, but for a public room clicked behind that window (lobby_state.py:251-260).
RoomKnown ==
  (crashed \/ ("input_pw" \in windows /\ join_room_key = None)) => clobbered

\* Everything that was sent is handled and decided.
AllHandled == c2s = <<>> /\ s2c = <<>> /\ place # "pending" /\ next_state = None /\ ~crashed

\* When all is settled, the player sees the screen of the place in which the server
\* keeps the session, whatever was pressed meanwhile; only one whose way into the
\* room was announced to another screen than the lobby is left outside.
ScreenFollowsServer ==
  AllHandled =>
    CASE place \in {"none", "login"} -> screen = "Login"
      [] place = "lobby" -> screen \in {"Lobby", "Ranking"}
      [] place = "room" -> screen \in {"Single", "Multi"} \/ missed
      [] OTHER -> TRUE

\* The newest answer stands at the end of the room list, whole and in order, and
\* nothing before it when the list was asked for once: the request of a new screen
\* is never lost, and answers add up only when the player asked again too early.
RoomsListed ==
  LET excess == Len(room_list) - Cardinality(Rooms)
  IN /\ excess >= 0 /\ \A i \in DOMAIN RoomList : room_list[excess + i] = RoomList[i]
     /\ asked = "once" => excess = 0

ListsExact ==
  AllHandled /\ asked # "unheard" =>
    /\ screen = "Lobby" => RoomsListed
    /\ screen = "Ranking" => rankings >= 1 /\ (asked = "once" => rankings = 1)

\* The windows of the lobby stay usable under any order of popups, confirmations
\* and packets: one of them takes the events, the friend popup has its friend and
\* the password window its room.
WindowsUsable == NeverStuck /\ RequesterKnown /\ RoomKnown

\* When everything sent is handled, the screen is that of the session's place and
\* its list holds the answer to what it asked (handle_packet, change of next_state).
ClientFollowsServer == TypeOK /\ ScreenFollowsServer /\ ListsExact

\* A session that the server put in a room, or back in the lobby, gets to the
\* screen of it behind the fades and the packets in front.
PlaceIsShown ==
  /\ place = "room" ~> (screen \in {"Single", "Multi"} \/ place # "room" \/ crashed \/ missed)
  /\ place = "lobby" ~> (screen \in {"Lobby", "Ranking"} \/ place # "lobby" \/ crashed)
=============================================================================
