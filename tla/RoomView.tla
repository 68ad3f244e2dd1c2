------------------------------ MODULE RoomView ------------------------------
(***************************************************************************)
(* A multi-player room and the picture that one of its clients keeps of it: *)
(* seats, host, ready and kick buttons, the running game and its winner    *)
(* (Server/Rooms/MultiRoom.cpp against multi_play_state.py and the seat     *)
(* half of tetris_session.py).                                              *)
(*                                                                         *)
(* Me is the observed client; its packets travel in two FIFO channels.  The *)
(* other players act on the room directly.  A board is the number of pieces *)
(* fixed on it since it was emptied, and on the client MaxPieces + 1 stands  *)
(* for any more than that: SingleGame has the boards themselves.            *)
(* Left out: match records, layout, drawing and sound.                      *)
(***************************************************************************)
EXTENDS Integers, Sequences, FiniteSets, FiniteSetsExt

CONSTANTS
  Me,           \* the observed client's player
  Others,       \* the other players
  SeatCount,    \* max_player_count_
  Builders,     \* bound: the players who fix pieces,
  MaxPieces,    \* and how many of them on one board in one game
  MaxPackets,   \* bound: the server acts only while fewer packets are under way
  MaxRequests   \* bound: requests of Me under way

None == "none"
ASSUME MeIsSomebody == Me \notin Others /\ None \notin Others \cup {Me}
ASSUME SeatsEnough == SeatCount \in Nat /\ SeatCount >= 2
ASSUME BoundsNatural == {MaxPieces, MaxPackets, MaxRequests} \subseteq Nat

VARIABLES
  room_state,   \* server: "EMPTY" (no room), "WAIT" or "PLAY"
  seat,         \* server: the player of every seat, or None
  player_state, \* server: RoomPlayerState of every seat
  fixed,        \* server: pieces on every seat's board
  host_id,      \* server
  mode,         \* server: ModeState of Me's session
  s2c, c2s,     \* the channels of Me
  screen,       \* client: "lobby" or "room"
  players,      \* client: the TetrisSession of every seat; Me has the first
  host_index,   \* client: seat of the host, or -1
  popups,       \* client: the popups of the room screen
  reactable,    \* client: no popup takes the events
  crashed,      \* client: an AttributeError left the main loop
  unserved      \* ghost: the last game of Me's room ended without a GAME_END to anybody

server == <<room_state, seat, player_state, fixed, host_id, mode>>
client == <<screen, players, host_index, popups, reactable, crashed>>
vars == <<server, s2c, c2s, client, unserved>>

Seats == 1..SeatCount
People == Others \cup {Me}
Occupied == {i \in Seats : seat[i] # None}
Seated == {seat[i] : i \in Seats} \ {None}
SeatOf(p) == CHOOSE i \in Seats : seat[i] = p
Playing == {i \in Occupied : player_state[i] = "PLAY"}
FirstOf(S) == CHOOSE i \in S : \A j \in S : i <= j
\* The numbers of S from the least to the greatest.
Ascending(S) == [k \in 1..Cardinality(S) |-> CHOOSE n \in S : Cardinality({m \in S : m <= n}) = k]
Toward(pkts) == IF Me \in Seated THEN s2c \o pkts ELSE s2c
Quiet == Len(s2c) < MaxPackets

----------------------------------------------------------------------------
(* The server's room. *)

\* AddHostSession and SendCreateRoom: the creator is the host and is only told of the room.
CreateRoom(p) ==
  /\ Quiet /\ room_state = "EMPTY"
  /\ p = Me => mode = "LOBBY" /\ screen = "lobby" /\ s2c = <<>>
  /\ room_state' = "WAIT" /\ host_id' = p
  /\ seat' = [i \in Seats |-> IF i = 1 THEN p ELSE None]
  /\ player_state' = [i \in Seats |-> "WAIT"] /\ fixed' = [i \in Seats |-> 0]
  /\ mode' = IF p = Me THEN "ROOM" ELSE mode
  /\ s2c' = IF p = Me THEN Append(s2c, [type |-> "ADD_ROOM"]) ELSE s2c
  /\ unserved' = FALSE
  /\ UNCHANGED <<c2s, client>>

\* Mutant: the newcomer is not told who was there before.
WelcomeAlone == << [type |-> "ADD_ROOM"], [type |-> "UPDATE_HOST", id |-> host_id] >>

\* The packets a newcomer gets: the room, everybody else, and the host.
Welcome == << [type |-> "ADD_ROOM"] >>
           \o [k \in 1..Cardinality(Occupied) |-> [type |-> "ADD_USER", id |-> seat[Ascending(Occupied)[k]]]]
           \o << [type |-> "UPDATE_HOST", id |-> host_id] >>

\* AddPlayer: the first free seat; refused while a game runs or the room is full.
AddPlayer(p) ==
  /\ Quiet /\ room_state = "WAIT" /\ p \notin Seated
  /\ p = Me => mode = "LOBBY" /\ screen = "lobby" /\ s2c = <<>>
  /\ \E i \in {j \in Seats : seat[j] = None /\ \A k \in 1..(j - 1) : seat[k] # None} :
       /\ seat' = [seat EXCEPT ![i] = p]
       /\ player_state' = [player_state EXCEPT ![i] = "WAIT"] /\ fixed' = [fixed EXCEPT ![i] = 0]
  /\ mode' = IF p = Me THEN "ROOM" ELSE mode
  /\ s2c' = IF p = Me THEN s2c \o Welcome ELSE Toward(<< [type |-> "ADD_USER", id |-> p] >>)
  /\ unserved' = (p # Me /\ unserved)
  /\ UNCHANGED <<room_state, host_id, c2s, client>>

\* FindNewHost: the first seat that is left; a ready player becomes a waiting host.
NewHost(p) == LET rest == {i \in Seats : seat[i] \notin {None, p}}
              IN  IF host_id # p THEN 0 ELSE IF rest = {} THEN 0 ELSE FirstOf(rest)

\* The state in which ClearPlayer leaves a seat.
LeftState == "WAIT"

\* CompletePlayerRemoval: the leaver is pending and gets none of the broadcasts; the
\* room of the last one goes away.
CompletePlayerRemoval(p) ==
  LET i == SeatOf(p)
      h == NewHost(p)
      news == << [type |-> "DELETE_USER", id |-> p] >>
              \o IF h # 0 THEN << [type |-> "UPDATE_HOST", id |-> seat[h]] >> ELSE <<>>
  IN  /\ seat' = [seat EXCEPT ![i] = None]
      /\ player_state' = [j \in Seats |-> IF j = i THEN LeftState
                                          ELSE IF j = h /\ room_state = "WAIT" THEN "WAIT"
                                          ELSE player_state[j]]
      /\ fixed' = [fixed EXCEPT ![i] = 0]
      /\ host_id' = IF h # 0 THEN seat[h] ELSE host_id
      /\ room_state' = IF Seated = {p} THEN "EMPTY" ELSE room_state
      /\ s2c' = IF p = Me THEN s2c ELSE Toward(news)
      /\ UNCHANGED mode

\* Another player leaves or loses the connection.
OtherLeaves(p) ==
  /\ Quiet /\ p \in Seated
  /\ CompletePlayerRemoval(p)
  /\ UNCHANGED <<c2s, client, unserved>>

\* TogglePlayerReady: the host has none; in a game nothing changes and "not ready" is told.
TogglePlayerReady(p) ==
  /\ player_state' = IF host_id = p THEN player_state
                     ELSE [player_state EXCEPT ![SeatOf(p)] = IF @ = "READY" THEN "WAIT"
                                                              ELSE IF @ = "WAIT" THEN "READY" ELSE @]
  /\ s2c' = IF host_id = p THEN s2c
            ELSE Toward(<< [type |-> "READY", id |-> p, is_ready |-> player_state[SeatOf(p)] = "WAIT"] >>)

OtherReady(p) ==
  /\ Quiet /\ p \in Seated
  /\ TogglePlayerReady(p)
  /\ UNCHANGED <<room_state, seat, fixed, host_id, mode, c2s, client, unserved>>

AllReady == \A i \in Seats : seat[i] \in {None, host_id} \/ player_state[i] = "READY"

\* StartGame: by the host, when all others are ready and there are any; everybody plays.
StartGame(p) ==
  IF p # host_id \/ room_state = "PLAY" THEN UNCHANGED <<server, s2c>>
  ELSE IF AllReady /\ Cardinality(Seated) > 1
  THEN /\ room_state' = "PLAY"
       /\ player_state' = [i \in Seats |-> IF seat[i] # None THEN "PLAY" ELSE player_state[i]]
       /\ fixed' = [i \in Seats |-> 0]
       /\ s2c' = Toward(<< [type |-> "MULTI_START"] >>)
       /\ UNCHANGED <<seat, host_id, mode>>
  ELSE /\ s2c' = IF p = Me THEN Append(s2c, [type |-> "ERROR"]) ELSE s2c
       /\ UNCHANGED server

OtherStarts(p) ==
  /\ Quiet /\ p \in Seated
  /\ StartGame(p)
  /\ UNCHANGED <<c2s, client, unserved>>

\* KickPlayer, by the host; a kicked Me is sent an S2C_INFO.
KickPlayer(p, target) ==
  IF p = host_id /\ target # p /\ target \in Seated
  THEN IF target = Me
       THEN /\ \E i \in {SeatOf(Me)} :
                 /\ seat' = [seat EXCEPT ![i] = None]
                 /\ player_state' = [player_state EXCEPT ![i] = "WAIT"] /\ fixed' = [fixed EXCEPT ![i] = 0]
            /\ s2c' = Append(s2c, [type |-> "INFO"])
            /\ UNCHANGED <<room_state, host_id, mode>>
       ELSE CompletePlayerRemoval(target)
  ELSE UNCHANGED <<server, s2c>>

OtherKicks(p, target) ==
  /\ Quiet /\ p \in Seated /\ p = host_id /\ target \in Seated \ {p}
  /\ KickPlayer(p, target)
  /\ UNCHANGED <<c2s, client, unserved>>

\* The lobby's ENTER_LOBBY task: the leaver hears of its own removal.
EnterLobby ==
  /\ mode = "ROOM" /\ Me \notin Seated
  /\ mode' = "LOBBY"
  /\ s2c' = Append(s2c, [type |-> "DELETE_USER", id |-> Me])
  /\ UNCHANGED <<room_state, seat, player_state, fixed, host_id, c2s, client, unserved>>

----------------------------------------------------------------------------
(* The tick of a game.  GAME_OVER becomes a state only when the packets of  *)
(* the tick are appended, so the winner is looked for one tick later.       *)

\* ResolveWinner: the only seat in PLAY, or the first one when all are over; 0 for none.
ResolveWinner ==
  CASE Cardinality(Playing) = 1 -> FirstOf(Playing)
    [] Playing = {} -> FirstOf(Occupied)
    [] OTHER -> 0

\* AppendTickPackets: only the seats in PLAY are served, each with its fix, its game
\* over and the end of the game; number 3 * i + k stands for the k-th of seat i.
TickPackets(fixes, outs, winner) ==
  LET ends == IF winner # 0 THEN Playing ELSE {}
      slots == Ascending({3 * i : i \in fixes} \cup {3 * i + 1 : i \in outs} \cup {3 * i + 2 : i \in ends})
  IN  [n \in DOMAIN slots |->
         LET k == slots[n] % 3
         IN  [type |-> << "FIX", "GAMEOVER", "GAMEEND" >>[k + 1],
              id |-> IF k = 2 THEN seat[winner] ELSE seat[slots[n] \div 3]]]

ProcessGameTick ==
  /\ Quiet /\ room_state = "PLAY"
  /\ \E fixes \in SUBSET {i \in Playing : seat[i] \in Builders /\ fixed[i] < MaxPieces}, outs \in SUBSET Playing :
       /\ LET w == ResolveWinner
          IN  /\ s2c' = Toward(TickPackets(fixes, outs, w))
              /\ IF w # 0
                 THEN /\ room_state' = "WAIT" /\ unserved' = (Playing = {})   \* ClearGame
                      /\ player_state' = [i \in Seats |-> "WAIT"] /\ fixed' = [i \in Seats |-> 0]
                 ELSE /\ player_state' = [i \in Seats |-> IF i \in outs THEN "GAME_OVER" ELSE player_state[i]]
                      /\ fixed' = [i \in Seats |-> IF i \in fixes THEN fixed[i] + 1 ELSE fixed[i]]
                      /\ UNCHANGED <<room_state, unserved>>
  /\ UNCHANGED <<seat, host_id, mode, c2s, client>>

----------------------------------------------------------------------------
(* Requests of Me, handled by the room in their order; what comes from a    *)
(* player without a seat is dropped.                                        *)

HandleRequest ==
  /\ c2s # <<>> /\ Quiet
  /\ c2s' = Tail(c2s)
  /\ LET r == Head(c2s)
     IN  IF Me \notin Seated THEN UNCHANGED <<server, s2c>>
         ELSE CASE r.type = "REMOVE_PLAYER" -> CompletePlayerRemoval(Me)
                [] r.type = "READY" -> /\ TogglePlayerReady(Me)
                                       /\ UNCHANGED <<room_state, seat, fixed, host_id, mode>>
                [] r.type = "START" -> StartGame(Me)
                [] r.type = "KICK" -> KickPlayer(Me, r.id)
  /\ UNCHANGED <<client, unserved>>

----------------------------------------------------------------------------
(* The client's room screen. *)

EmptySeat == [id |-> None, is_host |-> FALSE, btn_ready |-> "up", btn_start |-> FALSE,
              btn_kick |-> FALSE, state |-> "EMPTY", fixed |-> 0]
Index(id) == {i \in Seats : players[i].id = id}
SelfIsHost == host_index # -1 /\ players[host_index].id = Me
\* A negative index counts from the end of the list.
HostSeat(h) == IF h = -1 THEN SeatCount ELSE h

\* The room screen: Me in the first seat and nobody else.
OpenRoom ==
  /\ screen' = "room" /\ host_index' = -1 /\ popups' = {} /\ reactable' = TRUE
  /\ players' = [i \in Seats |-> IF i = 1 THEN [EmptySeat EXCEPT !.id = Me, !.state = "WAIT"] ELSE EmptySeat]

\* init_session: a user takes a seat.
InitSession(s, id) == [s EXCEPT !.id = id, !.state = "WAIT", !.fixed = 0, !.btn_kick = @ \/ SelfIsHost]

\* add_user: the first free seat; a known user is skipped.
AddUser(id) ==
  LET n == FirstOf(Index(None))
  IN  /\ players' = IF Index(id) # {} \/ Index(None) = {} THEN players
                    ELSE [players EXCEPT ![n] = InitSession(players[n], id)]
      /\ UNCHANGED <<screen, host_index, popups, reactable, crashed>>

\* set_is_host: Me trades the ready button for a start button.
AsHost(s) == IF s.id = Me THEN [s EXCEPT !.is_host = TRUE, !.btn_ready = "none", !.btn_start = TRUE]
             ELSE [s EXCEPT !.is_host = TRUE]

\* Mutant: the kick buttons are left out.
UpdateHostOnly(id) ==
  LET h == IF Index(id) = {} THEN host_index ELSE FirstOf(Index(id))
      hosted == IF Index(id) = {} THEN players ELSE [players EXCEPT ![h] = AsHost(@)]
  IN  /\ host_index' = h
      /\ players' = hosted
      /\ crashed' = (hosted[HostSeat(h)].id = None)
      /\ UNCHANGED <<screen, popups, reactable>>

\* S2C_UPDATE_HOST: the host is looked up, and gets kick buttons if it is Me; the
\* last host's seat is used for an unknown one.
UpdateHost(id) ==
  LET h == IF Index(id) = {} THEN host_index ELSE FirstOf(Index(id))
      hosted == IF Index(id) = {} THEN players ELSE [players EXCEPT ![h] = AsHost(@)]
  IN  /\ host_index' = h
      /\ players' = IF hosted[HostSeat(h)].id = Me
                    THEN [i \in Seats |-> [hosted[i] EXCEPT !.btn_kick = @ \/ (hosted[i].id # None /\ i # h)]]
                    ELSE hosted
      /\ crashed' = (hosted[HostSeat(h)].id = None)
      /\ UNCHANGED <<screen, popups, reactable>>

\* TetrisSession.clear: the buttons stay as they are.
ClearSeat(s) == [s EXCEPT !.id = None, !.state = "EMPTY", !.fixed = 0, !.is_host = FALSE]

\* S2C_DELETE_USER: Me goes back to the lobby and the room screen is dropped;
\* anybody else's seat is cleared.
DeleteUser(id) ==
  IF id = Me
  THEN /\ screen' = "lobby" /\ players' = [i \in Seats |-> EmptySeat]
       /\ host_index' = -1 /\ popups' = {} /\ reactable' = TRUE
       /\ UNCHANGED crashed
  ELSE /\ players' = [i \in Seats |-> IF players[i].id = id THEN ClearSeat(players[i]) ELSE players[i]]
       /\ UNCHANGED <<screen, host_index, popups, reactable, crashed>>

\* Mutant: the boards are left as they are.
ResetRoomStates ==
  [i \in Seats |-> IF players[i].id = None THEN players[i]
                   ELSE [players[i] EXCEPT !.state = "WAIT", !.btn_ready = IF @ = "none" THEN @ ELSE "up"]]

\* reset_room: every seat's board is emptied and its ready button comes up.
ResetRoom ==
  [i \in Seats |-> IF players[i].id = None THEN players[i]
                   ELSE [players[i] EXCEPT !.state = "WAIT", !.fixed = 0,
                                           !.btn_ready = IF @ = "none" THEN @ ELSE "up"]]

Popup(which) == popups' = popups \cup {which} /\ reactable' = FALSE

\* The seats of user id changed by f.
SeatChange(id, f(_)) ==
  /\ players' = [i \in Seats |-> IF players[i].id = id THEN f(players[i]) ELSE players[i]]
  /\ UNCHANGED <<screen, host_index, popups, reactable, crashed>>

\* MultiPlayState.handle_packet; S2C_INFO is none of its packets.
RoomPacket(p) ==
  CASE p.type = "ADD_USER" -> AddUser(p.id)
    [] p.type = "UPDATE_HOST" -> UpdateHost(p.id)
    [] p.type = "DELETE_USER" -> DeleteUser(p.id)
    [] p.type = "READY" -> SeatChange(p.id, LAMBDA s : IF s.btn_ready = "none" THEN s
                             ELSE [s EXCEPT !.btn_ready = IF p.is_ready THEN "down" ELSE "up"])
    [] p.type = "FIX" -> SeatChange(p.id, LAMBDA s : [s EXCEPT !.fixed = Min({@ + 1, MaxPieces + 1})])
    [] p.type = "GAMEOVER" -> SeatChange(p.id, LAMBDA s : [s EXCEPT !.state = "GAMEOVER"])
    [] p.type = "MULTI_START" ->
         /\ players' = [i \in Seats |-> IF players[i].id = None THEN players[i] ELSE [players[i] EXCEPT !.state = "PLAY"]]
         /\ UNCHANGED <<screen, host_index, popups, reactable, crashed>>
    [] p.type = "GAMEEND" -> players' = ResetRoom /\ Popup("winner") /\ UNCHANGED <<screen, host_index, crashed>>
    [] p.type = "ERROR" -> Popup("error") /\ UNCHANGED <<screen, players, host_index, crashed>>
    [] OTHER -> UNCHANGED client

\* One packet, by the screen that is shown; the lobby shows an S2C_INFO.
HandlePacket ==
  /\ s2c # <<>> /\ ~crashed
  /\ s2c' = Tail(s2c)
  /\ LET p == Head(s2c)
     IN  IF screen = "room" THEN RoomPacket(p)
         ELSE IF p.type = "ADD_ROOM" THEN OpenRoom /\ UNCHANGED crashed ELSE UNCHANGED client
  /\ UNCHANGED <<server, c2s, unserved>>

\* handle_event: "확인" on the popup in front.
ConfirmPopup ==
  /\ screen = "room" /\ ~reactable /\ popups # {} /\ ~crashed
  /\ popups' = popups \ {IF "error" \in popups THEN "error" ELSE "winner"}
  /\ reactable' = TRUE
  /\ UNCHANGED <<server, s2c, c2s, screen, players, host_index, crashed, unserved>>

Ask(r) == c2s' = Append(c2s, r) /\ Len(c2s) < MaxRequests /\ screen = "room" /\ ~crashed

\* The buttons of a seat react while its state is not PLAY, a popup or not.
PressReady ==
  /\ players[1].state # "PLAY" /\ players[1].btn_ready # "none"
  /\ Ask([type |-> "READY"])
  /\ players' = [players EXCEPT ![1].btn_ready = "down"]
  /\ UNCHANGED <<server, s2c, screen, host_index, popups, reactable, crashed, unserved>>

PressStart ==
  /\ players[1].state # "PLAY" /\ players[1].btn_start
  /\ Ask([type |-> "START"])
  /\ UNCHANGED <<server, s2c, client, unserved>>

PressKick ==
  /\ \E i \in Seats : /\ players[i].id # None /\ players[i].state # "PLAY" /\ players[i].btn_kick
                      /\ Ask([type |-> "KICK", id |-> players[i].id])
  /\ UNCHANGED <<server, s2c, client, unserved>>

PressExit ==
  /\ Ask([type |-> "REMOVE_PLAYER"])
  /\ UNCHANGED <<server, s2c, client, unserved>>

----------------------------------------------------------------------------
Init ==
  /\ room_state = "EMPTY" /\ seat = [i \in Seats |-> None] /\ player_state = [i \in Seats |-> "WAIT"]
  /\ fixed = [i \in Seats |-> 0] /\ host_id = None /\ mode = "LOBBY"
  /\ s2c = <<>> /\ c2s = <<>>
  /\ screen = "lobby" /\ players = [i \in Seats |-> EmptySeat] /\ host_index = -1
  /\ popups = {} /\ reactable = TRUE /\ crashed = FALSE /\ unserved = FALSE

Next ==
  \/ \E p \in People : CreateRoom(p) \/ AddPlayer(p)
  \/ \E p \in Others : OtherLeaves(p) \/ OtherReady(p) \/ OtherStarts(p)
  \/ \E p \in Others, t \in People : OtherKicks(p, t)
  \/ EnterLobby \/ ProcessGameTick \/ HandleRequest
  \/ HandlePacket \/ ConfirmPopup \/ PressReady \/ PressStart \/ PressKick \/ PressExit

Spec == Init /\ [][Next]_vars

----------------------------------------------------------------------------
(* Properties. *)

\* Every variable of the room and of its picture has the type the code gives it.
TypeOK ==
  /\ room_state \in {"EMPTY", "WAIT", "PLAY"} /\ seat \in [Seats -> People \cup {None}]
  /\ player_state \in [Seats -> {"WAIT", "READY", "PLAY", "GAME_OVER"}]
  /\ fixed \in [Seats -> 0..MaxPieces] /\ host_id \in People \cup {None}
  /\ mode \in {"LOBBY", "ROOM"} /\ Len(c2s) <= MaxRequests
  /\ screen \in {"lobby", "room"} /\ host_index \in {-1} \cup Seats
  /\ popups \subseteq {"error", "winner"} /\ {reactable, crashed, unserved} \subseteq BOOLEAN
  /\ \A i \in Seats : /\ players[i].id \in People \cup {None} /\ players[i].fixed \in 0..(MaxPieces + 1)
                      /\ players[i].btn_ready \in {"none", "up", "down"}
                      /\ players[i].state \in {"EMPTY", "WAIT", "PLAY", "GAMEOVER"}

\* The client has handled all that the server sent to a seated Me.
Settled == Me \in Seated /\ s2c = <<>> /\ ~crashed

\* The seats of the client hold the players of the room, each of them once:
\* add_user and clear follow the joins and removals, in whatever order they came.
SeatsMirror ==
  Settled => /\ screen = "room" /\ {players[i].id : i \in Seats} \ {None} = Seated
             /\ \A i, j \in Seats : players[i].id = players[j].id => i = j \/ players[i].id = None

\* The handler of UPDATE_HOST always finds the host among its seats: a host that is
\* not there makes it read the session of an empty seat.
NoCrash == ~crashed

\* Whoever the client shows as the host is the room's host, and a Me that hosts
\* by succession can start the game and kick every other player; no other Me can.
HostMirror ==
  Settled => /\ \A i \in Seats : players[i].is_host => players[i].id = host_id
             /\ host_id = Me \/ \E i \in Seats : players[i].is_host
             /\ players[1].is_host <=> players[1].btn_start
             /\ \A i \in Seats \ {1} : players[i].id # None =>
                                          (players[i].btn_kick <=> players[1].is_host)

\* In a running game the client's boards and the players still in it are the
\* room's: a game starts on empty boards on both sides, unless the game before it
\* ended with nobody left to serve.
BoardsMirror ==
  (Settled /\ room_state = "PLAY" /\ ~unserved) =>
     \A i \in Seats : players[i].id # None =>
        /\ players[i].fixed = fixed[SeatOf(players[i].id)]
        /\ (players[i].state = "PLAY") <=> (player_state[SeatOf(players[i].id)] = "PLAY")

\* Between games the own ready button is down exactly when the room counts Me as ready
\* (a game that ended with nobody left to serve leaves it as it was pressed).
ReadyMirror ==
  (Settled /\ ~unserved /\ c2s = <<>> /\ room_state = "WAIT" /\ host_id # Me) =>
     (players[1].btn_ready = "down") <=> (player_state[SeatOf(Me)] = "READY")

\* A room screen that gives its events to a popup has one to give them to.
NeverStuck == (screen = "room" /\ ~reactable) => popups # {}

\* Once a seated client has handled what it was sent, its seats, its host with the
\* buttons that go with it, and its ready mark are those of the server's room.
RoomMirror == TypeOK /\ SeatsMirror /\ HostMirror /\ ReadyMirror

\* The room screen goes on: no order of joins, removals and host changes makes a
\* packet read an empty seat, and no popup that is gone holds the events.
ClientAlive == NoCrash /\ NeverStuck
=============================================================================
