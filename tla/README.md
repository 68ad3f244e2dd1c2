# Verification of the Tetris game: server, client and sign-up service

This directory holds TLA+ specifications of the multiplayer Tetris game of this
repository (the C++ server in `src/Server`, the Python client in `src/client`,
the Flask sign-up service in `src/Signup_server`), the TLC configurations that
check them on small instances, and proofs that TLAPS checks for every size of the
system. The code is the reference: every definition that models code is listed in
`PROJECT.json` under `map` with the lines it stands for.

## 1. The system

### 1.1 Components, state and operations

| component | source | state | operations |
| --- | --- | --- | --- |
| session slots | `Network/Session`, `Core/TetrisServer` | `life_state_`, `session_key_`, `mode_state_`, `room_key_`, `io_pending_count_`, `is_processing_tasks_` | accept and initialise, send, receive, begin, complete and finalise a disconnection, switch between lobby and room |
| I/O threads | `Threads/IO`, `Network/SendBuffer`, `Network/ExOverlapped` | completion port, receive buffer, pool of send buffers | completion of accept, receive and send; splitting the stream into packets |
| session task queue | `Common/ConcurrentTaskQueue`, `Network/session_tasks.h` | tasks and a separate count | enqueue, claim, dequeue, restore, discard |
| lobby | `Threads/Lobby`, `Managers/LobbyThreadManager`, `Lobby/LobbySession` | one entry per slot (EMPTY, PENDING, ACTIVE), list of active sessions, lobby tasks | add session, enter lobby, room transition and its result, quick match, chat, friends, ranking |
| room life cycle | `Managers/GameThreadManager`, `Rooms/TetrisRoom` | room table, active rooms, life-cycle tasks, room tasks | create, join, leave, kick, disconnect, delete |
| rooms in play | `Rooms/MultiRoom`, `SingleRoom`, `TetrisRoomPackets`, `Game/Player` | players, ready flags, host, start timer, attack lines | ready, start, tick, game over, winner, result |
| phases | `Threads/Game`, `Threads/Lobby`, `Threads/Timer` | phase number, remaining threads, remaining rooms | start a phase every 20 ms, run it, wait for it |
| board | `Game/Tetris`, `Game/TetrisTimers`, `Game/Tetromino` | grid, falling block, hold, lock and fall timers | move, rotate, drop, lock, clear, attack, spawn |
| database threads | `Threads/Database`, `Database/` | two queues, connection, pending result | enqueue, run, retry, post a failure, apply a result |
| player registry, ranking | `Managers/ActivePlayerManager`, `Managers/RankingManager` | account to session, top list | log in, log out, update a score |
| lists | `Common/ActiveList`, `Common/IndexRegistry` | index lists with free slots | add, remove, acquire, release |
| packets | `Server/Packets`, `client/tetris/net/packet_*` | two tables of layouts, written by hand on both sides | declare, build, cast, decode |
| client network | `client/tetris/net`, `main/game_loop.py` | socket, receive thread, `recv_buffer`, bounded queue | receive, merge, cut, decode, put, drain, send |
| client screens | `client/tetris/states`, `ui/*_window.py`, `ui/popupbox.py` | screen and successor, fades, open windows, `reactable`, lists, selected room and friend | login, menus, windows, popups, ranking, packets |
| client game | `client/tetris/game`, `states/*_play_state.py` | seats, host, buttons, mirrored boards, end-of-game animation | packets of a room and of a game, buttons, animation |
| client controller | `game/tetris_controller.py` | pressed, first-move and delay flags, timers | key events, frames |
| client presentation | `client/tetris/ui`, `resources`, `animation` | rows, thumb and page of scrolling windows; text fields; images | scroll, add and remove rows, draw |
| sign-up service | `Signup_server` | accounts, cookie with a code, form and flags of the page | check id and nickname, send a code, verify it, register |
| load generator | `Stress` | simulated clients, latencies | connect, play, measure |

### 1.2 Interactions

An I/O thread turns received bytes into tasks of the session's queue. A lobby
thread (session in the lobby) or the game thread that runs the session's room
takes the session's *processing right*, claims the queued tasks and runs them
through `TetrisServer::ProcessSessionTask`. Moves between lobby and room are
messages: the lobby posts a life-cycle task or a room task, the game side
answers with a lobby task (`ROOM_TRANSITION_RESULT`, `ENTER_LOBBY`). A
disconnection is a task as well: the consumer closes the socket, the last I/O
completion (or the consumer itself when there is none) posts a `DISCONNECT`
lobby task, and `TetrisServer::FinalizeDisconnect` cleans up and frees the slot.
The timer thread starts a lobby phase and a game phase every 20 ms. Database
threads take requests from a queue of their own and answer with session tasks.

The client has two threads. The receive thread cuts the byte stream into packets
and puts them on a queue of limited size; the main thread handles events, drains the
queue into the current screen and draws, once per frame. Screens replace each
other with a fade, during which packets stay queued for the successor. What
the client shows of a room or a board is rebuilt from packets alone. The sign-up
service is a web application of its own; its requests carry their state in a
signed cookie, and it shares the table of accounts with the login of the server.

### 1.3 What is hard here

* A slot is reused by later connections, while completions, tasks, notices and
  room entries still carry the key of an earlier one.
* `io_pending_count_` and `life_state_` are two atomics that together decide
  when a slot may be reused; three threads touch them without a common lock.
* The task queue and its count are separate objects: a claim that does not match
  the queue makes `Dequeue` spin or strands a task.
* Lobby threads, game threads and the finalisation compete for one processing
  right, and a session moves between them while tasks for it are queued.
* A lobby task may be overtaken by another one, because several lobby threads
  empty the same queue.
* A room's deletion is a message that names an index, while tasks for the room
  and disconnections of its players are still on their way.
* A send buffer pool at its limit falls back on allocation.
* The layouts of the packets exist twice, in two languages.
* The client's picture of rooms and boards is a replica that is never
  re-synchronised: one packet lost, doubled or handled on the wrong screen
  stays wrong.
* Popups, windows and packets change one `reactable` flag in any order.
* The sign-up page applies answers in the order they arrive, to a form that may
  have changed, and the checks for a taken name precede the insertion.

`PROJECT.json` lists each hazard at the line where it bites, with the property
that would catch it.

### 1.4 What makes each component correct

* Session and I/O: a free slot has no I/O; the count is exact; one user of the
  receive buffer, one owner of a send buffer; one consumer of a session; no task
  is lost, invented or handed to another connection; a disconnection is
  finalised once and always completes.
* Lobby and rooms: a session is a player of at most one room; a room's count and
  host agree with its slots; a deleted room has no player; every join request is
  answered; an active session is always reachable by a consumer.
* Rooms in play: a game ends with one winner among those who were still alive;
  the ready count equals the ready players; the host leaves an heir.
* Phases: a room is run once per phase by one thread, and no phase starts while
  the previous one runs.
* Board: a block never overlaps a filled cell; cleared lines keep the order of
  the rest; attack lines are conserved.
* Client: packets are handled once, whole, in order, on a screen that knows them;
  seats, host, ready marks and boards agree with the server's once everything
  sent is handled; the player can always act; a held key moves, a released one
  does not.
* Sign-up: ids, nicknames and addresses are unique; an account belongs to someone
  who could read its mailbox.
* Database: every accepted request is answered or reported as failed.

## 2. Plan

| order | module | content | state |
| --- | --- | --- | --- |
| 1 | `SessionIO` | one session slot under all its threads | checked, proved |
| 2 | `LobbyRoom` | sessions, lobby entries and rooms with their message exchange; composes the slot's life cycle with the room's | checked, proved |
| 3 | `PacketLayout`, `PacketStream`, `PacketFifo` | both tables of packets; the client's byte stream and queue; the FIFO it implements | checked, proved |
| 4 | `SingleGame` | board and tick of the server with the client's copy | checked, proved |
| 5 | `RoomView` | a room in play on the server with one client's picture of it | checked, proved |
| 6 | `ClientScreens` | screens, windows and popups against the places of a session | checked, proved |
| 7 | `Controller` | keys, delays and frames | checked, proved |
| 8 | `Signup` | page, service, cookie and table | checked, proved |
| 9 | `ScrollWindow` | scrolling windows | checked, proved |
| 10 | `GamePhase` | timer, phase contexts, distribution of rooms over threads | left |
| 11 | `DBQueue` | request queue, retry and failure | left |
| 12 | `Players` | login, registry, friends, ranking | left |
| 13 | `ActiveList` | index lists; refines a set | left |

Section 12 says what is proved for all values of the constants: every safety invariant
and every action property that a run checks, the refinement, and nothing of liveness.

### 2.1 Runs

| run | module, bounds | states | time |
| --- | --- | --- | --- |
| `session_io` | `SessionIO`: 2 I/O threads, 2 workers, 1 pooled and 1 allocated buffer, 2 connections in turn, 2 tasks | 1,295,799 | 1 min |
| `session_live` | the same with one connection and no allocated buffer, fair | 32,960 | 15 s |
| `session_reuse` | violation, finding 1 | - | seconds |
| `lobby_room` | `LobbyRoom`: 2 slots, 2 connections in all, 1 room of 2 seats, 2 lobby threads, 1 game thread, 1 request queued for a room | 1,045,462 | 2 min |
| `lobby_live` | the same with one lobby thread, fair | 107,041 | 2 min |
| `stream` | `PacketStream`: each packet of either side alone, short packets in threes, fragments of 1 to 9 bytes, queue of 2 | 26,147 | 15 s |
| `single_game` | `SingleGame`: 4 columns, 2 visible and 5 hidden rows, all seven shapes, 2 garbage lines and 2 inputs in a tick | 404,860 | 2 min |
| `room_view` | `RoomView`: 3 seats, 3 players, 1 packet and 1 request under way | 3,443,609 | 2.5 min |
| `screens` | `ClientScreens`: an open and a locked room, 1 friend, 3 windows at once | 63,814 | 15 s |
| `controller` | `Controller`: one arrow, rotate and drop, delays 5 and 2, frames of 1 and 2 | 163,236 | 20 s |
| `signup` | `Signup`: 2 users with a mailbox each, 1 id, 1 nickname, 2 requests under way, 2 codes | 1,164,037 | 1 min |
| `scroll` | `ScrollWindow`: 3 rows of 5 pixels shown, up to 8 rows, 12 heights of the mouse, all three kinds of window | 234,855 | 35 s |

States are distinct ones, up to symmetry where a run uses it.

## 3. `SessionIO`: one session slot

The module models one element of `TetrisServer::sessions_` with the threads that
touch it. Slots do not share state in this part of the server, so one slot is
the whole story for the properties below.

### 3.1 Correspondence

| TLA+ | code |
| --- | --- |
| `life`, `sid`, `pending` | `life_state_`, `session_key_.session_id`, `io_pending_count_` |
| `recvOut`, `recvKey` | receives registered on `recv_over_`, the key stored in it |
| `bufState`, `bufKey`, `bufIO` | `SendBuffer::buffer_state`, its `session_key`, and whether its send is still with the system |
| `tasks`, `taskCount`, `right` | `task_queue_`, `task_count_`, `is_processing_tasks_` |
| `notices` | `LobbyTaskType::DISCONNECT` tasks, by key |
| `iopc`, `iokey`, `iobuf` | program point and locals of each I/O thread |
| `wpc`, `wkey`, `wbuf`, `wleft` | program point and locals of each lobby or game thread while it works on the session |
| `used`, `misfire` | history only: the ids handed out, and whether the exchange of `CompleteIO` acted on a changed slot |

A step is what happens under one lock or in one atomic access. `CompleteIO` is
therefore three steps (test, decrement, exchange), `BeginDisconnect` two (change
of state, test of the count) and a receive completion up to five. Enqueueing is
one step although the code increments the count before it pushes: `Dequeue`
spins until the push is visible, and the producer holds the session lock.
Session ids are random 64-bit numbers in the code and never repeat in the model.
A packet is a model of its effect on the queue: any packet, a
`C2S_REMOVE_PLAYER` (which ends the claim), or a request to disconnect.
The session is never in a room here; that part of the finalisation belongs to
`LobbyRoom`. The system's side of asynchronous I/O (a registered request is
handed back once, in any order) is modelled from how `IOThread` and `Session`
use it.

### 3.2 Runs

| run | question | result |
| --- | --- | --- |
| `session_io` | are the nine invariants preserved by two I/O threads and two workers, one pooled and one allocated buffer, two connections in turn and two queued tasks? | hold, about 1.3 million states up to symmetry |
| `session_live` | does a requested disconnection always free the slot? | holds under fairness, or `CompleteIO` misfires |
| `session_reuse` | is a slot free of I/O when it is reused? | violated: see finding 1 |

Invariants of `session_io`: `ReuseAfterIO`, `PendingExact`, `RecvExclusive`,
`OneNotice` (these four until a misfire), `BufferExclusive`, `SingleConsumer`,
`TasksAccounted`, `TasksOfConnection` (always) and `TypeOK`.

The misfire is a history variable, not a restriction: the runs explore every
behaviour, including those after a misfire, and the four invariants are claimed
only before one. Together with the violation run this says exactly which race
breaks the protocol and that no other one does.

### 3.3 Bounds

Two I/O threads suffice for a completion to race another one, two workers for a
consumer to race a sender or a finaliser, and two ids for a delayed thread to
meet the next connection. One pooled buffer makes the pool run dry and one
allocated buffer covers the fallback. `MaxTasks` = 2 lets a claim have a rest
that is restored or discarded; a producer at the bound waits. I/O threads,
workers and ids are interchangeable, so the safety runs use symmetry; the
liveness run does not. The theorems lift all of these bounds.

### 3.4 Fairness

`Fairness` states that a handler that has begun continues (the threads never
block on a client), that the completion port hands out every completed request
(it is a FIFO; a receive completes once the socket is closed, otherwise no
completion of it is assumed), and that a lobby or game thread visits the session
and the waiting `DISCONNECT` task again and again. The last two are strong: each
tick repeats the visit, so a right that is taken at one visit is found free at
a later one.

### 3.5 Finding 1 and an observation

1. `Session::CompleteIO` decrements `io_pending_count_` and only then exchanges
   `life_state_`. Between the two, a send can be registered on the still active
   session and `BeginDisconnect` can run; the late exchange then makes the slot
   reusable with a send outstanding, which `src/README.md:68` excludes.
2. (Observation, `Session.cpp:179`.) The exchange compares only the state, not the key: a thread delayed at that
   point can move the *next* connection to `DISCONNECTING` and post the notice
   under the old key, which `FinalizeDisconnect` drops. The slot is then never
   freed. `misfire` marks this case, too.

## 4. `LobbyRoom`: sessions between lobby and rooms

The module models all session slots, the lobby, the table of rooms and the
messages between them. The I/O of a session is reduced to one step
(`CompleteSessionIO`: the last request of a closed socket ends some time after
`BeginDisconnect`, and one `DISCONNECT` task is posted); `SessionIO` justifies
it up to finding 1 and observation 2.

### 4.1 Correspondence

| TLA+ | code |
| --- | --- |
| `sess[s]` | `life_state_`, `session_key_`, `mode_state_`, `room_index_`, `is_processing_tasks_` of a `Session` |
| `entry`, `active` | `LobbyThreadManager::lobby_sessions_`; `active_session_keys_` with `session_index_registry_` |
| `lobbyTasks`, `claim`, `stage` | the lobby's `lifecycle_tasks_`, the part of it claimed by the present phase, and the half of the phase |
| `lpc`, `ltask` | program point and task of each lobby thread |
| `roomAt` | `TetrisServer::rooms_` with its index registry and list of active rooms |
| `rooms[r]` | one `TetrisRoom`: `room_state_`, `room_players_`, `current_player_count_`, `host_id_`, `room_tasks_`, and the point its tick has reached |
| `lifeTasks`, `gpc`, `gkey`, `groom` | `GameThreadManager::lifecycle_tasks_`, program point and locals of each game thread in `ProcessTask` |
| `overtaken` | history only: connections whose `ENTER_LOBBY` was dropped |

The operators have the names of the functions they stand for where there is one
(`AddSession`, `EnterLobby`, `BeginFinalize` .. `FreeSlot` for
`FinalizeDisconnect`, `CreateRoom`, `ProcessJoin`, `ProcessKick`, ...).

What is one step:

* A lobby phase first empties the claimed tasks and visits sessions only when
  every thread is through with them, so tasks and visits never overlap; two tasks
  of one phase do. Taking a task and running it are separate steps, and
  `ROOM_TRANSITION_RESULT`, `ENTER_LOBBY` and `DISCONNECT` are split where they
  leave a lock or release the right.
* The tick of a room is run by one thread (`processing_state_`), hence the seats,
  host and state of a room have one writer; what other threads do to it is
  appending to its queue. A join (seat, mode, answer) is one step because nobody
  else can see the parts: the joining session's right is held and its entry is
  PENDING.
* A creation is published, answered and initialised in three steps, because the
  lobby may act on the answer before the room is ready.
* `pending_room_task_` is modelled as the task staying at the head of the queue
  with `left` = 1: the code runs it alone before it claims again.

What is abstracted: players are identified by their session key, also where the
code uses the account id (`host_id_`, target of a kick); passwords and ready flags
are nondeterministic, `READY` tasks change nothing here and are left out; a game
is a `PlayTick` that goes on, ends, or overflows a player's send buffer.
`Joinable` allows every room `FindMatch` could have offered from its earlier
look at the table. A phase without tasks is not a step.

### 4.2 Runs

`lobby_room` asks whether every session has one consumer (`OneHolder`), whether
seats, count and host of a room agree (`RoomsConsistent`, the conjunction of the
types, `SeatsAgree` and `HostSeated`), whether a transition is answered once (`OneTransition`), whether an active session is in the
hands of a consumer or finaliser (`Reachable`, `DisconnectPending`), whether
anything of a connection is left in the lobby when its slot is used again
(`LobbyForgets`) and whether `DELETE_ROOM`, which names only an index, deletes the
room that asked for it (`DeletesOwnRoom`). All hold. `lobby_live` shows that
disconnections and deletions of rooms complete (`DisconnectCompletes`,
`RoomDeleted`) and that each creation and each join of a named room is answered
(`RequestAnswered`).

As with the misfire above, `overtaken` restricts nothing: `Reachable` shows that
observation 3 is the only way to strand a session, within the bounds of the run and, by
the theorem `SessionsAreCaredFor` (section 12), beyond them.

### 4.3 Bounds

`MaxConnections` connections in all, of two slots or of one slot twice; `RoomKeys`
rooms ever created; `MaxRequests`: a client's request is not queued for a room that
already has that many tasks (the messages of the protocol itself are not bounded).
With `MaxRequests` = 0 there is no kick, start or give-up, which `lobby_live` does
not ask about. Two sessions give a room an heir, a kick and a join that
races the deletion; two lobby threads let tasks overtake each other; two
connections of one slot exercise its reuse, and stale tasks for a deleted room meet
its index. The model stops when all connections are used up, which the server does
not, so deadlock is not checked. Slots, threads, rooms and indices are
interchangeable; only the safety run uses symmetry.

### 4.4 Fairness

Every thread that has begun a task continues, rooms in the table are ticked,
visits end, and the I/O of a closed socket completes. Clients are not fair: no
request ever has to be sent. `StartLobbyPhase` is strongly fair because phases
without tasks, which the timer starts as well, are merged into the idle state,
so that the visits in between would otherwise disable it for ever.

The liveness properties exempt one case, `StaleRequest`: a `START`, `KICK` or
`GIVE_UP` of a player who has left is at the head of a room's queue and needs the
right of a session that the lobby visits in every phase. `TryStartTaskProcessing`
is a try-lock without queueing, so nothing in the code excludes that the room
finds it taken each time; every later task of that room waits behind it.

### 4.5 Observations

3. A player who enters a room and leaves it before the next lobby phase has a
   `ROOM_TRANSITION_RESULT` and an `ENTER_LOBBY` task in the same phase. Two lobby
   threads may run them in the opposite order; `TryPrepare` then finds the entry
   still occupied and the `ENTER_LOBBY` task is dropped
   (`LobbyThreadManager.cpp:497`). The session stays in ROOM mode without a seat,
   an entry or a place on the active list, and even its disconnection is never
   run.
4. A kick or an overflow that removes a player who is already DISCONNECTING posts
   a second `DISCONNECT` task. `TetrisServer::FinalizeDisconnect` releases the
   right before it frees the slot (`TetrisServer.cpp:333`), so a second lobby thread can pass its checks
   and go on after the slot has been freed or given to the next connection.

## 5. `PacketLayout`, `PacketStream`, `PacketFifo`: packets and the client's connection

`PacketLayout` lists every packet as the two programs declare it: type number and
kinds of fields. The client's side is the `struct` formats of `packet_structs.py` with
their registry and the builder's formats; the server's side is the packed structs
of `Packets/*.h` and the structs to which it casts a request. Nothing in the code
compares the two; the model does, because a packet is written with one table and
read with the other.

`PacketStream` models `network.py`, `packet_manager.py` and `drain_packets` of
`game_loop.py`. A byte is a pair of packet and position, so that a size read
anywhere but at a packet's start is not a size.

| TLA+ | code |
| --- | --- |
| `running`, `sock_open`, `thread` | `NetworkWorker.running`, the socket, and the point of the receive thread |
| `sent`, `stream`, `arrived` | what the server wrote, packet by packet and byte by byte, and how much of it `recv` has returned (external) |
| `recv_buffer`, `offset`, `data` | `PacketManager.recv_buffer`; `process_packet`'s locals |
| `queue`, `changing` | `PacketManager.queue`; `state.next_state is not None` |
| `Recv`, `RecvEnds`, `EndProcess`, `CutPacket`, `CutFails`, `Put` | the iterations of `recv_loop` and of `process_packet` |
| `DrainPacket`, `ChangeScreen`, `SendPacket` | the main thread |
| `ServerSend`, `ServerCloses` | the peer (external) |

The receive thread and the main thread share only the queue, so a step of the
thread ends where it reads the socket or touches the queue.

`stream` checks `StreamSound`, the conjunction of the type invariant and three parts: the
buffer from the offset on is exactly what was received and not cut
(`BufferAligned`), no packet of the protocol ends the thread (`ThreadLives`), and the
server reads a request's fields where the client wrote them
(`RequestUnderstood`). It also checks that packets sent over a connection that stays up
are handled (`AllHandled`), and that the whole pipeline **refines** `PacketFifo`
(`Implements`): `sent` and `handled` of the detailed specification are those of the
abstract one, and each step either sends one packet, hands the next one whole to
a screen, or changes neither.

Bounds: a packet alone in every fragmentation of one to nine bytes shows that its
layout is right and its parts are joined; three short packets give
fragments that end in a size, span packets or hold two of them, and overfill the
queue of two. A longer stream repeats these cases; the proofs of section 12 have no
bound. Fairness: both threads are scheduled, TCP delivers, a fade ends.

Observation: `S2C_TEST`, which the server sends in answer to the load generator's
packets, has no entry in the client's registry (`packet_types.py:2`); a client that
receives it loses its receive thread without noticing. `Foreign` exempts it.

## 6. `SingleGame`: the board on both sides

The module runs the server's tick (`Tetris.cpp`, `SingleRoom.cpp`) against the
client's copy (`tetris_board.py`, `tetris_session.py`, `single_play_state.py`,
`tetromino.py`). `GameTick` is the tick: inputs in the code's order, fixing, clearing,
garbage with the lift of the block, the test for the end, the spawn. `board_`,
`current_` and `next_` are the server's; `grid`, `current_tetromino`,
`next_tetromino_shape`, `state` and `anim_target_line` the client's. Both tables of
shapes are there. `HandlePacket` is `handle_packet` of the screen and the session, and
`AnimateGameover` is one step of the animation, negative list indices included.

`single_game` checks `CopyAgrees`: when all packets are handled grid, piece and preview
equal the server's (`Mirror`), the landing shadow is where a drop ends
(`LandingAgrees`) and a waiting board is empty (`WaitsOnEmptyBoard`); `BoardSound`: the
block is always on free cells (`PieceIsFree`) and no full row stays (`RowsSettled`); and
that the animation ends (`AnimationEnds`).

Bounds: the timers of `TetrisTimers` decide which inputs and lines take part in a
tick, so here any small set of them may; the seven-bag is a choice from `Bags`,
constant in a game, so that each shape meets itself and two shapes meet each other.
Four columns hold the widest shape; five hidden rows are those of the code, and two
visible ones let boards fill, clear two lines at once and overflow. The server is at
most one tick ahead. The loops over the visible rows and over the garbage lines are
recursive functions of the number of turns (`after` in `ClearLine` and
`AddGarbageLines`), each turn an operator of its own (`LineCleared`, `GarbageAdded`).
`GameAssumption` names what the theorems use: at least five hidden rows
(`HIDDEN_HEIGHT`), and a spawn place four columns wide on the board. `Patient`: the player presses START only while the button is
drawn. Fairness: the main loop draws frames and handles packets.

Observations. The start button, which is drawn only in `WAIT`, takes clicks during the
animation, too (`tetris_session.py:195`): the game that then begins
(`single_play_state.py:87`) is shown on a board that still holds the old one, because
only the end of the animation resets it. `Patient` excludes these clicks, so the
run says nothing about such a game. When no row is
empty, `animate_gameover` walks past the top through negative indices and ends in an
`IndexError` (`tetris_board.py:112`); `crashed` models it and `AnimationEnds` says
that this happens only on a board without an empty row.

## 7. `RoomView`: a room in play and a client's picture of it

The server half is `MultiRoom.cpp` with the seats, host, ready flags, start, kick,
the tick with its winner, and `TetrisRoomPackets.cpp`; the client half is
`multi_play_state.py` with the seat part of `tetris_session.py`. One client is
observed through its two channels; the other players act on the room directly. A
board is the number of pieces on it, since `SingleGame` has the boards.

| TLA+ | code |
| --- | --- |
| `room_state`, `seat`, `player_state`, `host_id` | `room_state_`, `room_players_` with their states, `host_id_` |
| `CreateRoom`, `AddPlayer`, `CompletePlayerRemoval`, `TogglePlayerReady`, `StartGame`, `KickPlayer`, `ProcessGameTick` | the functions of these names |
| `EnterLobby` | the lobby's task, which tells a leaver of its own removal |
| `players`, `host_index`, `popups`, `reactable` | `MultiPlayState` and one `TetrisSession` per seat, buttons included |
| `AddUser`, `UpdateHost`, `DeleteUser`, ... | the branches of `handle_packet` |
| `unserved` | history only: the last game ended with nobody in `PLAY` |

`room_view`: once the client has handled everything, its seats, host and ready marks
are the server's (`RoomMirror`, that is `SeatsMirror`, `HostMirror` and `ReadyMirror`) and
so are its boards (`BoardsMirror`); no packet makes it read a seat that is empty and no
popup locks it (`ClientAlive`, that is `NoCrash` and `NeverStuck`).

Bounds: three seats with three players let two others change the room between a
request of the observed player and its effect, and make an heir that is neither. One
request and one packet under way (the packets of one server step count as
one, since the server acts only when fewer are under way) already let every
request meet a room that has changed.

Observations. A game in which the last players fall in the same tick ends when
nobody is in `PLAY`, and `AppendTickPackets` serves only players in `PLAY`
(`TetrisRoomPackets.cpp:127`): GAME_END reaches nobody, and the clients' boards and
buttons stay as they were until the next start. `unserved` marks this case, which
is the only exception to the mirror properties. In it the winner is the first
occupied seat (`MultiRoom.cpp:403`), which may be a player who fell long before.
The creator of a room is sent no `S2C_UPDATE_HOST` (`MultiRoom.cpp:177`), which alone makes
a client the host (`multi_play_state.py:200`): it has neither a start button nor kick
buttons. A kicked player gets its notice (`info_types.py:5`) while the room screen,
which does not handle `S2C_INFO`, is still shown.

## 8. `ClientScreens`: screens, windows and the place of a session

Login, lobby with its windows, ranking and the way into and out of a room, against a
server that answers as `LobbyRoom` promises (`place` is the session's mode; a room
request makes it pending, the decision and the return are steps of their own).
`windows` and `reactable` are the window fields of `LobbyState`; `InWindow` is the
order in which it offers an event to its open windows; `QueueState`, `ChangeScreen` and
`FadedIn` are `next_state` with the fades. `Send` packs the argument:
`None` where a number belongs is an exception (`crashed`).

`screens`: `WindowsUsable`, a screen that does not react has a window that does
(`NeverStuck`) and the friend popup knows its requester (`RequesterKnown`);
`ClientFollowsServer`, when nothing is under way the screen is that of the session's
place (`ScreenFollowsServer`) and lists hold one answer (`ListsExact`); a place that
lasts is shown (`PlaceIsShown`). Fairness: frames,
packets and the server's queues go on; the player owes nothing.

Bounds: one public and one private room, one friend, three windows open at once
(each pair of windows with a popup over it), one request of the player under way.
`Patient`: the player waits for answers before leaving for the ranking. Without
it an answer to a room request that arrives on the ranking screen is ignored
(`ranking_state.py:106`), and the player sees a lobby while in a room.

Observation: a popup that closes makes the lobby reactable although the password
window is still open (`lobby_state.py:307`); a second click on a public room then
clears the selected room, and confirming the password packs `None`
(`lobby_state.py:364`). `crashed` models it.

## 9. `Controller`: keys and frames

Flags and timers of `tetris_controller.py`, with the rule of `tetris_session.py:191`
that events and frames reach it only in `PLAY`. `KeyDown`, `KeyUp` and `Frame` are
`handle_event` and `update`; time is counted in parts of the repeat delay. `held`,
`fresh`, `since`, `repeats` and `missed` are history: what the keyboard did.

`controller`: flags belong to held keys (`PressedIsHeld`); a fresh press moves in its
frame (`FreshKeyMoves`); repeats keep the two delays (`RepeatsSpaced`) and go on
while the key is held (`HeldKeyRepeats`, fair frames). Keys do not interact except
through the drop, so one arrow with rotate and drop shows all cases; a first
delay that is no multiple of the frame or of the repeat makes the remainders differ.

Observation: a key that goes up after a game has ended is not reported
to the controller, which believes it held when the next game starts
(`tetris_session.py:191`). `missed` is the set of these keys; the properties are
claimed for all others.

## 10. `Signup`: page, service and table

Two browsers with forms, flags and a cookie (`signup.js`); requests that travel,
are served in one step each (`app.py`), and are answered in any order; the table with its
unique columns (`models.py`). `api_register` is two steps, its queries and its commit,
since Flask serves requests in parallel; a commit of a taken value fails. `Receive` sets the
cookie as it was when the request was *served*, which is how a late answer
overwrites a newer one. A user types only codes that reached a mailbox of theirs: guessing
one of a million codes is left out.

`signup`: `Unique` and `OnlyOwners` hold. Bounds: two users compete for one id and
one nickname, each with a mailbox and each able to type either address; two
requests under way interleave checks, commits and cookies; two codes let one replace
the other. The form starts with id and nickname checked, and a standing check is
not asked for again. `SignupProofs` lifts all bounds.

Observations: `api_register` does not repeat the test of the nickname's form
(`app.py:200`); a check's answer is applied to the form as it is when it arrives
(`signup.js:46`, `signup.js:134`), so that a flag may vouch for a value that was
never checked. Neither breaks the two properties, because the service decides again.

## 11. `ScrollWindow`: scrolling windows

`scroll_window_base.py` with `chat_window.py`, `room_list.py` and `user_list.py`. The
record `win` holds a window's fields; the operators have the methods' names. Lengths
are exact fractions of a pixel (`Unit` is a multiple of all divisors that occur); the
truncations by `int()` are kept, rounding of floats is not modelled.

`scroll`, while rows come and go under a drag: `PageShown`, the thumb stays in its track
(`WindowTyped`), a window that can be scrolled shows a full page (`FullPage`) and what is
shown exists (`ShownExists`); and the chat shows the page its thumb points to
(`StartFollowsThumb`). Eight
rows for a page of three reach the minimal length of the thumb and its
truncation; the mouse is beyond both ends, on and beside the thumb.

## 12. Proofs

`SessionIOProofs` proves properties of `SessionIO` for
any sets of threads and buffers (finite where they are counted), any ids and
any `MaxTasks` > 0: the assumptions are the four `ASSUME`s of `SessionIO`, which
TLC evaluates in every run.

* `SlotInv` is the inductive invariant for the slot: `TypeOK`, `SingleConsumer`,
  `TasksAccounted`, `TasksOfConnection` and three strengthenings. `KeysHandedOut`
  says that every key anywhere has been handed out before, so that the id of a
  new connection meets nothing old. `HolderState` says what a worker knows of
  the slot while it holds the right; without it nothing excludes a task
  enqueued after the finaliser emptied the queue. `NoticesSound` gives each
  connection at most one finaliser. It holds with or without a misfire.
  Theorems: `TypeCorrect`, `OneConsumer`, `TaskCountExact`, `NoForeignTask`.
* `BufferOwnership` follows from `BufferExclusive` being inductive given types.
* `IOInv` adds `AcceptAlone`, `IOSettled`, `PendingExact`, `RecvExclusive` and
  `ReuseAfterIO`. The count is related to the cardinalities of the sets of
  outstanding sends and running handlers by the theorems about finite sets.
  Each action is a lemma; a misfire is stable (`MisfireKept`), so only steps
  without one need an argument. Theorems: `SafeReuse`, `CountExact`,
  `OneReceive`.
* `OneFinalization`: until a misfire each `DISCONNECTING` connection has
  exactly one finalisation, and any other none.

`ClientIOProofs` is about what the client takes in, its keyboard and its connection.
Of `Controller` it proves `MovesComeFromKeys` (`PressedIsHeld`) and `EveryPressMoves`
(`FreshKeyMoves`) for any arrows, delays and frame lengths. The invariant
`KeysTracked` adds to `PressedIsHeld` that the first-move flag, too, is set only for a
held or missed key, that a key past its first delay has had its first move, and that a
fresh key has not; without these a press could meet a flag left by an earlier one.
`ControllerTypes` is type correctness, in particular that a timer never reaches the
first delay. `RepeatsKeepTheirDistance` is `RepeatsSpaced`, for frames that have a longest
length (`LongStep` means nothing otherwise): `TimersTracked` relates an arrow's timer to the
time since it was last sent, one frame ahead of it until the first delay is over and
not ahead after it, and both flags to the number of moves since the press.

Of `PacketStream` it proves `ConnectionIsSound` (`StreamSound`) and `PacketsAreFifo`
(`Implements`, the refinement of `PacketFifo`) for every set of traffics that consists of the
protocol's packets, any fragments, any `BUF_SIZE` and any `MAX_QUEUE_SIZE`
(`StreamAssumption`). The first part is about the tables: no type number is declared
twice (`TypeTellsPacket`), every packet the server sends is in the client's registry field by
field (`ServerIsRegistered`, hence `ServerDecodes`), every request is cast to the struct it was
built as (`CastOfRequest`), and no packet is shorter than its header (`SizeIsNatural`). The
invariant (`StreamInvariant`) has these parts on top of types. `Aligned`: there are byte
positions at which the packets end (`Laid`), and what has been received and is not in the
buffer from the offset on ends at the position of the last packet that was queued. The
positions are what makes it inductive: a cut moves the boundary by exactly the length of the
packet whose size was read, and the size is read in the right place because of the boundary
before (`NextHeader`). `BufferHolds`: the bytes of the buffer are those of the stream. `InOrder`:
handled and queued packets are the first ones sent. `AtWork`: the packet that is being put is
the one that stands at the offset.

`SignupProofs` proves `AccountsHaveOwners` (`OnlyOwners`) and `AccountsAreUnique`
(`Unique`) for any browsers, names, mailboxes, codes and requests under way, from
`SignupAssumption`. The invariant `Guarded` says that every cookie, in a browser, in a
request or in an answer under way, is honest: its code went to its address or
nowhere, and it is verified only for a mailbox its browser can read. `OnlyOwners`
alone is not inductive because a registration trusts its cookie. `SignupTypes` is type
correctness.

`LobbyRoomProofs` and `LobbyEndProofs` are about `LobbyRoom` with any finite sets of
slots, lobby threads, game threads and room keys, any number of seats, connections and
queued requests, and any set of table indices; the assumptions are the four `ASSUME`s of
the module.

* `ServerTyped` is `TypeOK` from the invariant `Typed`. The types alone are not
  inductive: a room's `count` is bounded only because it is the number of its taken seats,
  which are seats of different connections (`PlayersOK`); its tick counts seats and
  claimed tasks that must exist (`LifeOK`); a thread that is not idle has a task; and a
  room that is being made has exactly one maker, who sits on its first seat
  (`MakersOK`), or the two steps that publish a room would not find the room they left.
* `RightHasOneHolder` is `OneHolder`. Its inductive form `HoldOK` replaces three counts
  by one set of holders: the right is set iff somebody holds the session, and two
  holders of it are the same. Every action is one of three kinds, nobody's right moves,
  one is taken that was free, or one is given back by its holder, and the lemmas
  `HoldSame`, `HoldTaken`, `HoldReleased` do these once for all.
* `LobbyKeepsNothing` is `LobbyForgets`. What makes it hard is `FinalizeDisconnect`, which
  releases the right before it frees the slot and reads the slot's key again
  (observation 4), while results of room transitions clear and remove the same entry in
  two steps. The invariant `Owned` says: an entry and an active key belong to the
  occupant, or a thread is removing the key (`EntryOwned`, `ActiveOwned`); a session that
  a thread is taking back stays in the lobby (`EnterOwned`); the `ADD_SESSION`
  of a connection exists once and meets a session that has not begun anything
  (`Once`, `AddOwned`); and whoever finalizes a slot finds the connection it came for,
  an empty slot, or a newcomer whose `ADD_SESSION` lies behind the claim of the
  present phase and so cannot run before the finalizer has finished (`FinalizeOwned`,
  `Fresh`). The last case is where the barrier between the phases is needed. The proof
  goes by the part a step touches: `AwayStep` and `OutsideStep` for steps that leave the lobby's
  records alone, `OtherSlots` for a thread that works on one slot.
* `SeatsAreKnown` is `RoomsConsistent` and `RoomsDeleteThemselves` is `DeletesOwnRoom`. Both
  follow from the invariant `Placed`, inductive on top of the three before. Whoever sits is
  a known session that names the index of its room (`SeatsHere`): a session that forgot
  its room first would keep the seat for good. A room is at its index until
  it has posted its deletion, and nothing is ever at the index but the room that was put
  there (`TableHere`); since a `DELETE_ROOM` task names only the index, the proof needs
  that it is posted once per index and that the room there is the one in `DELETE_POST`
  (`DeleteHere`), or a second task would delete the next room. The host of a room that
  takes tasks sits in it (`HostHere`), which `RemovePlayer` keeps by moving the right
  before the seat is lost. Last, a session that the lobby is to take back sits nowhere
  and its `ENTER_LOBBY` task is under way once (`EnterHere`): this is what separates
  the lobby's sessions from the seated ones while one tick frees the seat and a later
  one hands over the session. The work is in the tick of a room, which composes up to
  six handlers in one step; each handler has a lemma on the tick's record, and the step
  publishes what the chain of lemmas gives.
* `DisconnectionsGoOn` is `DisconnectPending`: a session that is `DISCONNECTING` is not
  forgotten. The invariant `Ended` has three parts on top of `Placed`. `Pursued` says the
  property for every connection by its key: its `DISCONNECT` task is queued or at hand, or
  the room in which it sits has a `REMOVE_PLAYER` for it, which will post `DISCONNECT`
  again. `LeaversSit` says that a session disconnected in `ROOM` mode sits in a room, which
  is what makes that request reach somebody; `NoticesHeld` says at which steps a thread
  can hold a `DISCONNECT` task, so that none is lost when the task is put back because
  the right is taken, or when the room takes it over. The lemmas say of each step what it
  keeps, the requests in the rooms' queues (`AsksKept`) and the task of a thread
  (`NoticeKept`); only the steps of a disconnection and of a leave need more.
* `TransitionsAreAnswered` is `OneTransition`. Five places can hold the transition of a
  connection (`Ways`: a `CREATE` queued, a game thread making the room, a `JOIN` queued for a
  room, an answer, the end of `ENTER_LOBBY`). The invariant `Answered` says that a connection
  is at most at one of them (`Exclusive`) and once (`Single`); that an entry is `PENDING`
  only while its connection is at one; and that a connection that is at one, and has not
  ended, has a `PENDING` entry (`EntryFits`). The last part is what keeps a second transition
  from starting: requests need an `ACTIVE` entry. It holds although entries are cleared by
  three other tasks, because these clear only entries of connections that have ended
  (`Owned`). Each place has lemmas for what joins and leaves it (`WayTakes`, `WayLoses`,
  `WayRests`), and a step either moves nothing (`AnsweredRests`), moves one connection from
  one place to another (`WaysMoved`), or begins or ends its transition.
* `SessionsAreCaredFor` is `Reachable`, and stands on all of the above. The invariant `Watch`
  says of every connection who looks after it. `Seen` is `Cared` with the places of the
  transitions told apart. An entry has its key on the active list (`Listed`), except that a
  `PENDING` one need not have it between the halves of `ENTER_LOBBY`. While a thread is between
  clearing an entry and removing the key from the list, the connection has no entry, unless
  it is just being taken back (`Forgets`): otherwise the second half of
  `ROOM_TRANSITION_RESULT` would take an entry's key from the list and nobody would visit
  it again. The two steps that drop an `ENTER_LOBBY` which has overtaken the answer before it
  (observation 3: the entry is still there, or the key still on the list) are the only
  ones after which nobody may see an active session; the code marks nothing there, the history
  variable `overtaken` does. An answer that accepts belongs to a
  session that is in its room (`AcceptedIn`), so the entry it clears is one that nobody
  needs, and the steps that put a session on a seat (`PlaceWatch`) or take it off one
  (`LeftWatch`) hand it over in the same step. The lemmas say what a step must keep of
  a connection for it to stay watched (`KeyKept`), so that each step is about one connection.

`RoomViewProofs` is about `RoomView` with any other players, at least two seats, and
any bounds on pieces and on packets and requests under way (`MeIsSomebody`,
`SeatsEnough`, `BoundsNatural`). `RoomIsMirrored` is `RoomMirror`, `BoardsAreMirrored` is
`BoardsMirror` and `ClientStaysAlive` is `ClientAlive`. None of them is inductive: the
mirror properties speak of a client that has handled everything, and so say nothing
while a packet is under way, which is when things can go wrong. The invariant
(`Inductive`) has these parts on top of types:

* `Tells`. A *picture* is what a client's seats can say of a room: who is in it, the host,
  pieces and who is playing, but not on which seat. There is a picture before and after
  every packet under way: the first is what the client shows (`Shows`), each packet makes
  the next of the one before (`After`) and finds what it needs there (`Fits`: a free seat
  for a newcomer, a present heir when nobody is host), and the last is the server's
  room (`Mirrors`). A step of the server lengthens the tale at its end (`GoesOn`), a
  packet that is handled takes its beginning away (`Handles`): so each handler is
  compared with `After` alone, and each step of the server with the packets it sends.
  The last picture may fall short of the room in one place: the creator of a room is
  its host and is not told.
* `RoomOK` says of the room what these packets presuppose: one seat per player, a host
  who sits, and states of the seats that fit the room's.
* `Begins`: what a seated player is sent starts with its admission and does not
  remove it. Without it the room list's screen could meet packets of the room.
* `Marked`: of the packets under way that set the ready mark, the last one says
  what the room says. The mark is apart from the picture because it answers a
  request: it is claimed only while no request to toggle it is under way.
* `NeverStuck` is inductive on its own.

Most of the work is in the steps that send many packets at once. A join sends
the newcomer one packet per seat, a tick up to three per seat; the proof counts through
them in ascending order (`AscendingIs`) and gives the picture after each (`Guests`,
`Ticked`).

`ClientScreensProofs` proves `WindowsStayUsable` (`WindowsUsable`) for any rooms,
friends and bounds of the module, on `ScreensTyped`: `NeverStuck` and `RequesterKnown`
are inductive together once every packet of the server is known to carry an argument of
its type and a screen to be queued exactly during a fade-out. `ScreenIsOfThePlace`
(`ClientFollowsServer`) holds for a patient player (section 8 shows what an impatient one
sees; `Patient` is the hypothesis of the theorem). What is under way decides it:
`Staged` lists the nine stages of a session, from `AtLogin` to `ThereAndBack`, a session
that was kicked before its screen had even left the lobby. A stage relates the
place, the screen the client is going to, the requests and the packets under way; among
packets that change nothing (`Noise`) there is the one, or the two in their order, that
change the screen, or the rest of a room list that continues exactly the one shown (`Rest`).
The lemmas about sequences (`AndFirst`, `ListFirst`, `MoreNoise`, ...) say what becomes of
such a queue when its first packet is taken or one is added.

Of `ScrollWindow` it proves `PagesAreFull` (`PageShown`) and `ThumbIsFollowed`
(`StartFollowsThumb`) for any number and height of rows, length of the track, and events
at any points of the mouse. The invariant `Settled` says that the bar was
measured for the present number of rows; the rest is arithmetic of truncated
divisions and of the clamped thumb. It needs a page of at least two rows of at least three
pixels, which every window of the client has; the assumption says so.

`SingleGameProofs` is about `SingleGame` on boards of every size from `GameAssumption`,
with any pieces dealt, any inputs and any number of garbage lines in a tick.

* `BoardIsSound` is `BoardSound`. What holds between two ticks (`ServerInv`: a running game
  has a settled board and a piece on free cells of it) does not hold inside one: inputs go
  on after a FIX, with the fixed piece, and garbage can come between the FIX and the
  spawn. A tick in progress is in one of three conditions, and every input and every line
  leads from one to another. `Free`: the piece falls, the board is settled. `Put`: the piece
  is fixed, the visible rows are not full, an overflow has been reported, and the top row is
  empty. `Stopped`: a garbage line ended the game. The empty top row is what makes `Put`
  inductive: a line that lifts the board must not carry the only occupied hidden row off the
  top before anyone has seen it. A fixed piece leaves the top row alone because it rests on
  something (`LandedFills`): on a settled board that is a visible row or the floor, and a
  piece is at most four rows high, hence the five hidden rows. A lifted piece is on free
  cells since the line moves the board as it moves the piece (`GarbageKeeps`). The loops
  are run by counting (`LoopRuns`, `CountUp`), an induction over natural numbers that uses
  one set and no operator parameter. The table of shapes is used through `Shaped` alone.
* `CopyIsTheBoard` is `CopyAgrees`, for a patient player (`Patient`, as in the run; section 6
  says what an impatient one sees). The property speaks of a client that has handled
  everything; in between, its board is none that the server has between two ticks. The
  invariant `CopyInv` tells the packets under way as a tale of *pictures* of the client:
  each packet turns a picture into the next (`Follows`), the first is what the client shows
  (`Shows`), the last is the room's game (`Tells`). The lemmas `MoveTells`, `FixTells`,
  `ClearTells`, `LineTells` and `OverTells` compare each task of the tick with the handler
  that receives it, and `PacketShows` each handler with `Follows`; the grid of colours
  and the board of filled columns are related by `Agree`. After a game over the
  picture keeps only that a missing piece is missing, since lines, moves and a second game
  over can still follow. Three more parts: a game that is over says so in its last packet,
  so that a client that is empty again is not filled by late lines unseen (`EndsGame`,
  `Waits`); and a START meets a client that waits with nothing under way (`StartSent`),
  which is why the copy and the server's new board begin alike.
* `CopyAgrees` contains the type invariant of the module and the ghost: `MakeLanding`
  tests from the row below, `Landed` from the piece's own row, and they agree because
  that row is free (`GhostAgrees`).

Only model-checked: all liveness, which is out of the prover's reach: `DisconnectCompletes`,
`RequestAnswered`, `RoomDeleted`, `AllHandled`, `AnimationEnds`, `PlaceIsShown` and
`HeldKeyRepeats`.

## 13. Abstractions shared by the modules

Logging, wording and drawing are left out. Sockets, completion port, TCP, mail
and operating-system locks are external and modelled by what the code relies on.
Allocation does not fail. The client handles one event per frame in the models; the
code takes all that are waiting, in the same order.

## 14. Not modelled

* Phases and timer, database threads, player registry, ranking and index lists of the
  server: in the plan of section 2. Their hazards are listed in `PROJECT.json` where
  they are known.
* Text fields (`inputbox.py`): one user edits one string; what is entered is an
  arbitrary choice in `ClientScreens`.
* Drawing, sound, images and animations of combos: presentation without state that
  other parts rely on.
* The exchange of attack lines between boards and the saving of match records in
  `MultiRoom`, an overflow of a send buffer in the middle of its tick, and the
  randomness of blocks and holes.
* Chat texts, and the lists of users and friends, in `ClientScreens`; `ScrollWindow` has
  their rows.
* SQL text and the bcrypt check: external services. Start-up and shut-down of the
  process (`main.cpp`) are sequential.
* The load generator: a test tool whose clients follow the protocol.
