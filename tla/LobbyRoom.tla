------------------------------- MODULE LobbyRoom -------------------------------
(***************************************************************************)
(* Sessions between the lobby and the rooms: the lobby's entries and task  *)
(* queue, the rooms with their seats and task queues, and the messages     *)
(* with which the two sides hand a session over and finalize a             *)
(* disconnection.                                                          *)
(*                                                                         *)
(* Lobby threads empty the lobby's queue concurrently, meet at a barrier   *)
(* and then visit the active sessions.  Game threads run the life-cycle    *)
(* tasks; the tick of a room is run by one thread at a time (its           *)
(* processing_state_), so its program point is part of the room.  Whoever  *)
(* has a session's processing right may run any request of its client.     *)
(* The I/O of a session is in SessionIO: here DISCONNECT_PENDING becomes   *)
(* DISCONNECTING at some later time, with one DISCONNECT task.             *)
(*                                                                         *)
(* An operator that stands directly before another one and extends its     *)
(* name (RightFreeIgnored, RightFree) is a mutant of it, used to show that *)
(* a property depends on it.                                               *)
(***************************************************************************)
EXTENDS Integers, Sequences, FiniteSets

CONSTANTS
    Slots,          \* indices of TetrisServer::sessions_
    MaxConnections, \* bound: connections in all, of one slot or of several
    RoomIndices,    \* indices of TetrisServer::rooms_
    RoomKeys,       \* the keys GenerateRoomKey will return (a bound)
    NoRoom,         \* no room in rooms_[i]
    NoIndex,        \* room_index -1
    NoKey,          \* an empty SessionKey, and host_id_ -1
    Seats,          \* player slots of a multi-player room: 1..n
    MaxRequests,    \* bound: tasks in a room's queue beyond which no client request is queued
    LobbyThreads,
    GameThreads

Ids == 0..MaxConnections
Key == Slots \X Ids

ASSUME FiniteAssumption ==
    IsFiniteSet(Slots) /\ IsFiniteSet(LobbyThreads) /\ IsFiniteSet(GameThreads) /\ IsFiniteSet(RoomKeys)
ASSUME SeatsAssumption == IsFiniteSet(Seats) /\ 1 \in Seats /\ Seats = 1..Cardinality(Seats)
ASSUME BoundsAssumption == MaxConnections \in Nat /\ MaxRequests \in Nat
ASSUME NamesAssumption == NoRoom \notin RoomKeys /\ NoIndex \notin RoomIndices /\ NoKey \notin Key

VARIABLES
    sess,           \* per slot: life_state_, session_id, mode_state_, room_index_, is_processing_tasks_
    conn,           \* per slot: the last id handed out
    entry,          \* lobby_sessions_: state_ and session_id_ of each LobbySession
    active,         \* active_session_keys_ and session_index_registry_
    lobbyTasks,     \* LobbyThreadManager::lifecycle_tasks_
    claim,          \* tasks of the present lobby phase that no thread has taken yet
    stage,          \* "tasks" or "sessions": the two halves of a lobby phase
    lpc,            \* where each lobby thread is,
    ltask,          \*   and the task or the session it works on
    roomAt,         \* TetrisServer::rooms_, the registry and the active list: index to key
    rooms,          \* the rooms, by key
    lifeTasks,      \* GameThreadManager::lifecycle_tasks_
    gpc,            \* where each game thread is in ProcessTask,
    gkey,           \*   the session key of its task,
    groom,          \*   and the room it made
    overtaken       \* history: keys whose ENTER_LOBBY task ran before the lobby had forgotten them

sessVars == <<sess, conn>>
lobbyVars == <<entry, active>>
phaseVars == <<claim, stage>>
threadVars == <<lpc, ltask>>
gameVars == <<lifeTasks, gpc, gkey, groom>>
vars == <<sessVars, lobbyVars, lobbyTasks, phaseVars, threadVars, roomAt, rooms, gameVars, overtaken>>

LobbyTaskType == {"ADD_SESSION", "ROOM_TRANSITION_RESULT", "ENTER_LOBBY", "DISCONNECT", "VISIT"}
LobbyTask == [type : LobbyTaskType, key : Key, room : RoomIndices \cup {NoIndex},
              ok : BOOLEAN, match : BOOLEAN]
RoomTask == [type : {"JOIN", "REMOVE_PLAYER", "KICK", "START", "GIVE_UP"}, key : Key,
             target : Key \cup {NoKey}, match : BOOLEAN]
LifecycleTask == [type : {"CREATE"}, key : Key] \cup [type : {"DELETE_ROOM"}, index : RoomIndices]

LTask(type, k) == [type |-> type, key |-> k, room |-> NoIndex, ok |-> FALSE, match |-> FALSE]
RTask(type, k) == [type |-> type, key |-> k, target |-> NoKey, match |-> FALSE]
NoTask == [type |-> "NONE"]

\* A ROOM_TRANSITION_RESULT task.
TransitionResult(k, ok, match) ==
    [LTask("ROOM_TRANSITION_RESULT", k) EXCEPT !.ok = ok, !.match = match]

EmptySession == [life |-> "NONE", id |-> 0, mode |-> "NONE", room |-> NoIndex, right |-> FALSE]
EmptyEntry == [state |-> "EMPTY", id |-> 0]
EmptySeat == [state |-> "EMPTY", key |-> NoKey]

\* TetrisRoom::TetrisRoom: a room is processing_state_ PROCESSING ("init") until its maker
\* has finished.  A key that is not in use yet is "unused".
NewRoom == [state |-> "EMPTY", index |-> NoIndex, max |-> 0,
            seats |-> [n \in Seats |-> EmptySeat], count |-> 0, host |-> NoKey,
            tasks |-> <<>>, left |-> 0, pc |-> "unused", pass |-> 1, seat |-> 0, held |-> NoKey]

Init ==
    /\ sess = [s \in Slots |-> EmptySession]
    /\ conn = [s \in Slots |-> 0]
    /\ entry = [s \in Slots |-> EmptyEntry]
    /\ active = {}
    /\ lobbyTasks = <<>>
    /\ claim = 0 /\ stage = "sessions"
    /\ lpc = [t \in LobbyThreads |-> "idle"]
    /\ ltask = [t \in LobbyThreads |-> NoTask]
    /\ roomAt = [i \in RoomIndices |-> NoRoom]
    /\ rooms = [r \in RoomKeys |-> NewRoom]
    /\ lifeTasks = <<>>
    /\ gpc = [g \in GameThreads |-> "idle"]
    /\ gkey = [g \in GameThreads |-> NoKey]
    /\ groom = [g \in GameThreads |-> NoRoom]
    /\ overtaken = {}

-----------------------------------------------------------------------------
(* Sessions, entries and rooms as the handlers see them. *)

\* FindSession: the slot is occupied by connection k.
Found(k) == sess[k[1]].life # "NONE" /\ sess[k[1]].id = k[2]
IsActive(k) == Found(k) /\ sess[k[1]].life = "ACTIVE"
\* TryStartTaskProcessing succeeds.
RightFreeIgnored(k) == TRUE
RightFree(k) == ~sess[k[1]].right
EntryMatches(k) == entry[k[1]].state # "EMPTY" /\ entry[k[1]].id = k[2]
Occupant(s) == <<s, sess[s].id>>

\* What a lobby thread requires of a session before it runs a request of it.
InLobby(k) ==
    /\ IsActive(k)
    /\ sess[k[1]].mode \in {"LOGIN", "LOBBY"}
    /\ EntryMatches(k) /\ entry[k[1]].state = "ACTIVE"

\* IsPlayerInRoom
InRoom(k, i) == sess[k[1]].mode = "ROOM" /\ sess[k[1]].room = i

Seated(r, k) == {n \in Seats : rooms[r].seats[n].state # "EMPTY" /\ rooms[r].seats[n].key = k}
SeatActive(r, k) == \E n \in Seated(r, k) : rooms[r].seats[n].state = "ACTIVE"
MinSeat(S) == CHOOSE n \in S : \A m \in S : n <= m

\* AddRoomTask accepts only while the room is WAIT or PLAY.
AcceptsTasks(r) == rooms[r].state \in {"WAIT", "PLAY"}
AddRoomTask(R, r, task) == [R EXCEPT ![r].tasks = Append(@, task)]

\* FindNewHost: the first active player whose session exists; nobody is left in a room that
\* is about to be deleted, and its host_id_ stays.
NewHost(seats, count, host) ==
    LET heirs == {n \in Seats : seats[n].state = "ACTIVE" /\ Found(seats[n].key)}
    IN  IF heirs # {} THEN seats[MinSeat(heirs)].key
        ELSE IF count = 0 THEN host ELSE NoKey

\* CompletePlayerRemoval, the room's side: nothing if k is not seated; the last player's
\* removal begins the deletion of the room.
RemovedFromKeepsLast(room, k) ==
    LET seats == [n \in Seats |-> IF room.seats[n].key = k /\ room.count > 1 THEN EmptySeat ELSE room.seats[n]]
    IN  IF \A n \in Seats : room.seats[n].key # k THEN room
        ELSE [room EXCEPT !.seats = seats, !.count = @ - 1,
                          !.state = IF room.count = 1 THEN "WAITING_DELETE" ELSE @,
                          !.host = IF @ = k THEN NewHost(seats, room.count - 1, @) ELSE @]
RemovedFrom(room, k) ==
    LET seats == [n \in Seats |-> IF room.seats[n].key = k THEN EmptySeat ELSE room.seats[n]]
    IN  IF seats = room.seats THEN room
        ELSE [room EXCEPT !.seats = seats,
                          !.count = @ - 1,
                          !.state = IF room.count = 1 THEN "WAITING_DELETE" ELSE @,
                          !.host = IF @ = k THEN NewHost(seats, room.count - 1, @) ELSE @]

\* CompleteRoomDisconnect: a session that is being disconnected leaves ROOM mode, and a
\* DISCONNECT task is posted again if its I/O has ended.
Disconnecting(k) == Found(k) /\ sess[k[1]].life \in {"DISCONNECT_PENDING", "DISCONNECTING"}
LeavesRoomLate(k) == Found(k) /\ sess[k[1]].life = "DISCONNECTING" /\ sess[k[1]].mode = "ROOM"
LeavesRoom(k) == Disconnecting(k) /\ sess[k[1]].mode = "ROOM"
AfterRoomDisconnect(S, k) ==
    IF LeavesRoom(k) THEN [S EXCEPT ![k[1]] = [@ EXCEPT !.mode = "NONE", !.room = NoIndex]] ELSE S
RoomDisconnectNoticeLost(k) == <<>>
RoomDisconnectNotice(k) ==
    IF LeavesRoom(k) /\ sess[k[1]].life = "DISCONNECTING" THEN <<LTask("DISCONNECT", k)>> ELSE <<>>

-----------------------------------------------------------------------------
(* Network: a connection takes a free slot; the I/O of a closed one ends. *)

\* The keys that have been handed out.
HandedOut == {k \in Slots \X (1..MaxConnections) : k[2] <= conn[k[1]]}

\* AcquireSession and InitSession, with the ADD_SESSION task.
AcquireSession(s) ==
    /\ sess[s].life = "NONE"
    /\ Cardinality(HandedOut) < MaxConnections
    /\ conn' = [conn EXCEPT ![s] = @ + 1]
    /\ sess' = [sess EXCEPT ![s] = [@ EXCEPT !.life = "ACTIVE", !.id = conn[s] + 1,
                                             !.mode = "LOGIN", !.room = NoIndex]]
    /\ lobbyTasks' = Append(lobbyTasks, LTask("ADD_SESSION", <<s, conn[s] + 1>>))
    /\ UNCHANGED <<lobbyVars, phaseVars, threadVars, roomAt, rooms, gameVars, overtaken>>

\* CompleteSessionIO of the last request of a closed session (SessionIO).
CompleteSessionIO(s) ==
    /\ sess[s].life = "DISCONNECT_PENDING"
    /\ sess' = [sess EXCEPT ![s].life = "DISCONNECTING"]
    /\ lobbyTasks' = Append(lobbyTasks, LTask("DISCONNECT", Occupant(s)))
    /\ UNCHANGED <<conn, lobbyVars, phaseVars, threadVars, roomAt, rooms, gameVars, overtaken>>

-----------------------------------------------------------------------------
(* Lobby threads: the phases. *)

LobbyIdle == \A t \in LobbyThreads : lpc[t] = "idle"

\* ClaimTaskCount
Claimed == Len(lobbyTasks)

\* StartLobbyPhase: when every thread is AVAILABLE the tasks present are claimed.
StartLobbyPhase ==
    /\ stage = "sessions" /\ LobbyIdle
    /\ lobbyTasks # <<>>
    /\ stage' = "tasks"
    /\ claim' = Claimed
    /\ UNCHANGED <<sessVars, lobbyVars, lobbyTasks, threadVars, roomAt, rooms, gameVars, overtaken>>

DequeueLobbyTask(t) ==
    /\ stage = "tasks" /\ claim > 0 /\ lpc[t] = "idle"
    /\ claim' = claim - 1
    /\ lobbyTasks' = Tail(lobbyTasks)
    /\ lpc' = [lpc EXCEPT ![t] = "task"]
    /\ ltask' = [ltask EXCEPT ![t] = Head(lobbyTasks)]
    /\ UNCHANGED <<sessVars, lobbyVars, stage, roomAt, rooms, gameVars, overtaken>>

\* The barrier: sessions are visited when every task of the phase has been completed.
EndLobbyTasks ==
    /\ stage = "tasks" /\ claim = 0 /\ LobbyIdle
    /\ stage' = "sessions"
    /\ UNCHANGED <<sessVars, lobbyVars, lobbyTasks, claim, threadVars, roomAt, rooms, gameVars, overtaken>>

\* A task whose session is in other hands is queued again.
RequeuedLost(task) == lobbyTasks
Requeued(task) == Append(lobbyTasks, task)

\* A lobby thread goes on with its task, or is done with it.
GotoLobby(t, point) ==
    /\ lpc' = [lpc EXCEPT ![t] = point]
    /\ UNCHANGED ltask

DoneLobby(t) ==
    /\ lpc' = [lpc EXCEPT ![t] = "idle"]
    /\ ltask' = [ltask EXCEPT ![t] = NoTask]

-----------------------------------------------------------------------------
(* Lobby threads: LobbyThreadManager::ProcessTask. *)

\* ADD_SESSION: a new session gets an entry and is visited from now on.
AddSession(t) ==
    LET k == ltask[t].key IN
    /\ lpc[t] = "task" /\ ltask[t].type = "ADD_SESSION"
    /\ \/ /\ IsActive(k) /\ sess[k[1]].mode \in {"LOGIN", "LOBBY"}
          /\ entry[k[1]].state = "EMPTY"
          /\ entry' = [entry EXCEPT ![k[1]] = [state |-> "ACTIVE", id |-> k[2]]]
          /\ active' = active \cup {k}
       \/ /\ ~(IsActive(k) /\ sess[k[1]].mode \in {"LOGIN", "LOBBY"} /\ entry[k[1]].state = "EMPTY")
          /\ UNCHANGED lobbyVars
    /\ DoneLobby(t)
    /\ UNCHANGED <<sessVars, lobbyTasks, phaseVars, roomAt, rooms, gameVars, overtaken>>

\* LobbySession::Clear
ClearEntryActive(k) ==
    IF EntryMatches(k) /\ entry[k[1]].state = "ACTIVE" THEN [entry EXCEPT ![k[1]] = EmptyEntry] ELSE entry
ClearEntry(k) ==
    IF EntryMatches(k) THEN [entry EXCEPT ![k[1]] = EmptyEntry] ELSE entry

\* A ROOM_TRANSITION_RESULT that succeeded, or whose session is gone: the entry is cleared
\* first and the session is removed from the active list afterwards.
ForgetSession(t) ==
    LET k == ltask[t].key IN
    /\ lpc[t] = "task" /\ ltask[t].type = "ROOM_TRANSITION_RESULT"
    /\ ltask[t].ok \/ ~Found(k)
    /\ entry' = ClearEntry(k)
    /\ IF EntryMatches(k) THEN GotoLobby(t, "forget") ELSE DoneLobby(t)
    /\ UNCHANGED <<sessVars, active, lobbyTasks, phaseVars, roomAt, rooms, gameVars, overtaken>>

RemoveActiveSession(t) ==
    /\ lpc[t] = "forget"
    /\ active' = active \ {ltask[t].key}
    /\ DoneLobby(t)
    /\ UNCHANGED <<sessVars, entry, lobbyTasks, phaseVars, roomAt, rooms, gameVars, overtaken>>

\* The answer ROOM_NOT_FOUND to a join, INVALID_REQUEST or SERVER_ERROR to a creation.
JoinRefusedSilently(k, match) == lobbyTasks
JoinRefused(k, match) == Append(lobbyTasks, TransitionResult(k, FALSE, match))
CreateRefused(k) == Append(lobbyTasks, TransitionResult(k, FALSE, FALSE))

\* TryJoinRoom for a room that is in the table, once BeginRoomTransition has made the entry
\* PENDING: a JOIN task for the room, or at once the answer ROOM_NOT_FOUND.
JoinTask(r, k, match) ==
    \/ /\ AcceptsTasks(r)
       /\ rooms' = AddRoomTask(rooms, r, [RTask("JOIN", k) EXCEPT !.match = match])
       /\ UNCHANGED lobbyTasks
    \/ /\ ~AcceptsTasks(r)
       /\ lobbyTasks' = JoinRefused(k, match)
       /\ UNCHANGED rooms

InTable(r) == \E i \in RoomIndices : roomAt[i] = r

\* The rooms FindMatch may offer: public, for several players, WAIT and not full when it
\* looked.  By the time of TryJoinRoom such a room may be full, in a game or being deleted.
Joinable(r) == InTable(r) /\ rooms[r].max > 1 /\ rooms[r].state # "EMPTY"

\* A ROOM_TRANSITION_RESULT that failed: the entry becomes ACTIVE again, and a fast match
\* looks for another room.
ReturnToLobby(t) ==
    LET k == ltask[t].key IN
    /\ lpc[t] = "task" /\ ltask[t].type = "ROOM_TRANSITION_RESULT"
    /\ ~ltask[t].ok /\ Found(k)
    /\ \/ /\ EntryMatches(k) /\ entry[k[1]].state = "PENDING"
          /\ \/ /\ entry' = [entry EXCEPT ![k[1]].state = "ACTIVE"]
                /\ UNCHANGED <<lobbyTasks, rooms>>
             \/ /\ ltask[t].match /\ IsActive(k) /\ sess[k[1]].mode = "LOBBY"
                /\ \E r \in RoomKeys : Joinable(r) /\ JoinTask(r, k, TRUE)
                /\ UNCHANGED entry
       \/ /\ ~(EntryMatches(k) /\ entry[k[1]].state = "PENDING")
          /\ UNCHANGED <<entry, lobbyTasks, rooms>>
    /\ DoneLobby(t)
    /\ UNCHANGED <<sessVars, active, phaseVars, roomAt, gameVars, overtaken>>

\* ENTER_LOBBY: under the session's right the entry is prepared and the mode set to LOBBY.
\* If the right is taken the task is queued again; if the entry is not EMPTY it is dropped.
EnterLobby(t) ==
    LET k == ltask[t].key
        Ready == InRoom(k, ltask[t].room) /\ entry[k[1]].state = "EMPTY"
    IN
    /\ lpc[t] = "task" /\ ltask[t].type = "ENTER_LOBBY"
    /\ \/ /\ ~IsActive(k)
          /\ DoneLobby(t)
          /\ UNCHANGED <<sess, entry, lobbyTasks, overtaken>>
       \/ /\ IsActive(k) /\ ~RightFree(k)
          /\ lobbyTasks' = Requeued(ltask[t])
          /\ DoneLobby(t)
          /\ UNCHANGED <<sess, entry, overtaken>>
       \/ /\ IsActive(k) /\ RightFree(k) /\ Ready
          /\ entry' = [entry EXCEPT ![k[1]] = [state |-> "PENDING", id |-> k[2]]]
          /\ sess' = [sess EXCEPT ![k[1]] = [@ EXCEPT !.right = TRUE, !.mode = "LOBBY", !.room = NoIndex]]
          /\ GotoLobby(t, "enter")
          /\ UNCHANGED <<lobbyTasks, overtaken>>
       \/ /\ IsActive(k) /\ RightFree(k) /\ ~Ready
          /\ overtaken' = overtaken \cup {k}
          /\ DoneLobby(t)
          /\ UNCHANGED <<sess, entry, lobbyTasks>>
    /\ UNCHANGED <<conn, active, phaseVars, roomAt, rooms, gameVars>>

\* The entry becomes ACTIVE and is added to the active list; if the list still has the
\* session the entry is cleared instead.
ActivateEntry(t) ==
    LET k == ltask[t].key
        Prepared == EntryMatches(k) /\ entry[k[1]].state = "PENDING"
    IN
    /\ lpc[t] = "enter"
    /\ \/ /\ Prepared /\ k \notin active
          /\ entry' = [entry EXCEPT ![k[1]].state = "ACTIVE"]
          /\ active' = active \cup {k}
          /\ UNCHANGED overtaken
       \/ /\ Prepared /\ k \in active
          /\ entry' = ClearEntry(k)
          /\ overtaken' = overtaken \cup {k}
          /\ UNCHANGED active
       \/ ~Prepared /\ UNCHANGED <<entry, active, overtaken>>
    /\ sess' = [sess EXCEPT ![k[1]].right = FALSE]
    /\ DoneLobby(t)
    /\ UNCHANGED <<conn, lobbyTasks, phaseVars, roomAt, rooms, gameVars>>

-----------------------------------------------------------------------------
(* Lobby threads: DISCONNECT, TetrisServer::FinalizeDisconnect. *)

BeginFinalize(t) ==
    LET k == ltask[t].key IN
    /\ lpc[t] = "task" /\ ltask[t].type = "DISCONNECT"
    /\ \/ /\ ~(Found(k) /\ sess[k[1]].life = "DISCONNECTING")
          /\ DoneLobby(t)
          /\ UNCHANGED <<sess, lobbyTasks>>
       \/ /\ Found(k) /\ sess[k[1]].life = "DISCONNECTING" /\ ~RightFree(k)
          /\ lobbyTasks' = Requeued(ltask[t])
          /\ DoneLobby(t)
          /\ UNCHANGED sess
       \/ /\ Found(k) /\ sess[k[1]].life = "DISCONNECTING" /\ RightFree(k)
          /\ sess' = [sess EXCEPT ![k[1]].right = TRUE]
          /\ GotoLobby(t, "finalize")
          /\ UNCHANGED lobbyTasks
    /\ UNCHANGED <<conn, lobbyVars, phaseVars, roomAt, rooms, gameVars, overtaken>>

\* The session is in a room: the room is asked to remove the player, and the room's removal
\* posts DISCONNECT again.  A room that refuses is asked again later; if there is none the
\* session simply leaves ROOM mode.
FinalizeInRoom(t) ==
    LET s == ltask[t].key[1]
        k == Occupant(s)
    IN
    /\ lpc[t] = "finalize" /\ sess[s].mode = "ROOM"
    /\ \/ /\ roomAt[sess[s].room] # NoRoom /\ AcceptsTasks(roomAt[sess[s].room])
          /\ rooms' = AddRoomTask(rooms, roomAt[sess[s].room], RTask("REMOVE_PLAYER", k))
          /\ sess' = [sess EXCEPT ![s].right = FALSE]
          /\ UNCHANGED lobbyTasks
       \/ /\ roomAt[sess[s].room] # NoRoom /\ ~AcceptsTasks(roomAt[sess[s].room])
          /\ lobbyTasks' = Requeued(ltask[t])
          /\ sess' = [sess EXCEPT ![s].right = FALSE]
          /\ UNCHANGED rooms
       \/ /\ roomAt[sess[s].room] = NoRoom
          /\ lobbyTasks' = lobbyTasks \o RoomDisconnectNotice(k)
          /\ sess' = AfterRoomDisconnect([sess EXCEPT ![s].right = FALSE], k)
          /\ UNCHANGED rooms
    /\ DoneLobby(t)
    /\ UNCHANGED <<conn, lobbyVars, phaseVars, roomAt, gameVars, overtaken>>

\* Outside a room the entry is cleared, the tasks are discarded and the right is released.
\* The key is read again: current_session_key.
FinalizeOutsideRoom(t) ==
    LET s == ltask[t].key[1]
        k == Occupant(s)
    IN
    /\ lpc[t] = "finalize" /\ sess[s].mode # "ROOM"
    /\ entry' = ClearEntry(k)
    /\ active' = IF EntryMatches(k) THEN active \ {k} ELSE active
    /\ sess' = [sess EXCEPT ![s].right = FALSE]
    /\ lpc' = [lpc EXCEPT ![t] = "free"]
    /\ ltask' = [ltask EXCEPT ![t].key = k]
    /\ UNCHANGED <<conn, lobbyTasks, phaseVars, roomAt, rooms, gameVars, overtaken>>

\* Session::FinalizeDisconnect
FreeSlot(t) ==
    LET s == ltask[t].key[1] IN
    /\ lpc[t] = "free"
    /\ sess' = IF sess[s].life = "DISCONNECTING" /\ sess[s].id = ltask[t].key[2]
               THEN [sess EXCEPT ![s] = [EmptySession EXCEPT !.right = sess[s].right]]
               ELSE sess
    /\ DoneLobby(t)
    /\ UNCHANGED <<conn, lobbyVars, lobbyTasks, phaseVars, roomAt, rooms, gameVars, overtaken>>

-----------------------------------------------------------------------------
(* Lobby threads: a session is visited and its requests run. *)

\* LobbyThread::Run takes the right of an active session whose entry is ACTIVE.
VisitSession(t, s) ==
    LET k == Occupant(s) IN
    /\ stage = "sessions" /\ lpc[t] = "idle"
    /\ k \in active /\ InLobby(k) /\ RightFree(k)
    /\ sess' = [sess EXCEPT ![s].right = TRUE]
    /\ lpc' = [lpc EXCEPT ![t] = "visit"]
    /\ ltask' = [ltask EXCEPT ![t] = LTask("VISIT", k)]
    /\ UNCHANGED <<conn, lobbyVars, lobbyTasks, phaseVars, roomAt, rooms, gameVars, overtaken>>

\* The next request is taken only while the session is in the lobby.
Visiting(t) == lpc[t] = "visit" /\ InLobby(ltask[t].key)

\* C2S_LOGIN with its result: ApplyLoginResult.
Login(t) ==
    LET k == ltask[t].key IN
    /\ Visiting(t) /\ sess[k[1]].mode = "LOGIN"
    /\ sess' = [sess EXCEPT ![k[1]].mode = "LOBBY"]
    /\ UNCHANGED <<conn, lobbyVars, lobbyTasks, phaseVars, threadVars, roomAt, rooms, gameVars, overtaken>>

\* BeginRoomTransition
Transition(t) == Visiting(t) /\ sess[ltask[t].key[1]].mode = "LOBBY"
PendingEntry(k) == [entry EXCEPT ![k[1]].state = "PENDING"]

\* C2S_ADD_PUBLIC_ROOM, C2S_ADD_PRIVATE_ROOM
RequestCreate(t) ==
    LET k == ltask[t].key IN
    /\ Transition(t)
    /\ entry' = PendingEntry(k)
    /\ lifeTasks' = Append(lifeTasks, [type |-> "CREATE", key |-> k])
    /\ UNCHANGED <<sessVars, active, lobbyTasks, phaseVars, threadVars, roomAt, rooms, gpc, gkey, groom, overtaken>>

\* C2S_JOIN_PUBLIC_ROOM, C2S_JOIN_PRIVATE_ROOM, C2S_FAST_MATCHING: TryJoinRoom.
RequestJoin(t, r, match) ==
    LET k == ltask[t].key IN
    /\ Transition(t)
    /\ IF match THEN Joinable(r) ELSE InTable(r) /\ rooms[r].max > 1
    /\ entry' = PendingEntry(k)
    /\ JoinTask(r, k, match)
    /\ UNCHANGED <<sessVars, active, phaseVars, threadVars, roomAt, gameVars, overtaken>>

\* A DISCONNECT task or C2S_DISCONNECT: BeginDisconnect.  Its I/O ends later, in
\* CompleteSessionIO.
BeginDisconnect(S, s) == [S EXCEPT ![s].life = "DISCONNECT_PENDING"]

DisconnectInLobby(t) ==
    /\ Visiting(t)
    /\ sess' = BeginDisconnect(sess, ltask[t].key[1])
    /\ UNCHANGED <<conn, lobbyVars, lobbyTasks, phaseVars, threadVars, roomAt, rooms, gameVars, overtaken>>

EndVisit(t) ==
    /\ lpc[t] = "visit"
    /\ sess' = [sess EXCEPT ![ltask[t].key[1]].right = FALSE]
    /\ DoneLobby(t)
    /\ UNCHANGED <<conn, lobbyVars, lobbyTasks, phaseVars, roomAt, rooms, gameVars, overtaken>>

-----------------------------------------------------------------------------
(* Game threads: GameThreadManager::ProcessTask. *)

\* DELETE_ROOM: whatever room is at the index leaves the table.
DeleteRoom(g) ==
    /\ gpc[g] = "idle" /\ lifeTasks # <<>> /\ Head(lifeTasks).type = "DELETE_ROOM"
    /\ lifeTasks' = Tail(lifeTasks)
    /\ roomAt' = [roomAt EXCEPT ![Head(lifeTasks).index] = NoRoom]
    /\ UNCHANGED <<sessVars, lobbyVars, lobbyTasks, phaseVars, threadVars, rooms, gpc, gkey, groom, overtaken>>

\* A creation is refused at once when the session is gone, else the thread waits for its right.
BeginCreate(g) ==
    LET k == Head(lifeTasks).key IN
    /\ gpc[g] = "idle" /\ lifeTasks # <<>> /\ Head(lifeTasks).type = "CREATE"
    /\ lifeTasks' = Tail(lifeTasks)
    /\ \/ /\ IsActive(k)
          /\ gpc' = [gpc EXCEPT ![g] = "wait"]
          /\ gkey' = [gkey EXCEPT ![g] = k]
          /\ UNCHANGED lobbyTasks
       \/ /\ ~IsActive(k)
          /\ lobbyTasks' = CreateRefused(k)
          /\ UNCHANGED <<gpc, gkey>>
    /\ UNCHANGED <<sessVars, lobbyVars, phaseVars, threadVars, roomAt, rooms, groom, overtaken>>

DoneGame(g) ==
    /\ gpc' = [gpc EXCEPT ![g] = "idle"]
    /\ gkey' = [gkey EXCEPT ![g] = NoKey]
    /\ groom' = [groom EXCEPT ![g] = NoRoom]

\* With the right: an invalid packet, a full table and a session that has moved on are refused.
RefuseCreate(g) ==
    /\ gpc[g] = "wait" /\ RightFree(gkey[g])
    /\ lobbyTasks' = CreateRefused(gkey[g])
    /\ DoneGame(g)
    /\ UNCHANGED <<sessVars, lobbyVars, phaseVars, threadVars, roomAt, rooms, lifeTasks, overtaken>>

\* CreatePublicRoom and CreatePrivateRoom: the room is published with its host PENDING on the
\* first seat (InitHostSession) and is not ticked yet.
CreateRoom(g, r, i, max) ==
    LET k == gkey[g] IN
    /\ gpc[g] = "wait" /\ RightFree(k)
    /\ IsActive(k) /\ sess[k[1]].mode = "LOBBY"
    /\ roomAt[i] = NoRoom /\ rooms[r].pc = "unused"
    /\ roomAt' = [roomAt EXCEPT ![i] = r]
    /\ rooms' = [rooms EXCEPT ![r] =
           [@ EXCEPT !.index = i, !.max = max, !.pc = "init", !.count = 1, !.host = k,
                     !.seats[1] = [state |-> "PENDING", key |-> k]]]
    /\ sess' = [sess EXCEPT ![k[1]] = [@ EXCEPT !.mode = "ROOM", !.room = i, !.right = TRUE]]
    /\ gpc' = [gpc EXCEPT ![g] = "created"]
    /\ groom' = [groom EXCEPT ![g] = r]
    /\ UNCHANGED <<conn, lobbyVars, lobbyTasks, phaseVars, threadVars, lifeTasks, gkey, overtaken>>

\* The answer to the lobby comes before the room is ready.
AnswerCreate(g) ==
    /\ gpc[g] = "created"
    /\ lobbyTasks' = Append(lobbyTasks, TransitionResult(gkey[g], TRUE, FALSE))
    /\ gpc' = [gpc EXCEPT ![g] = "init"]
    /\ UNCHANGED <<sessVars, lobbyVars, phaseVars, threadVars, roomAt, rooms, lifeTasks, gkey, groom, overtaken>>

CompleteRoomInitialization(g) ==
    /\ gpc[g] = "init"
    /\ rooms' = [rooms EXCEPT ![groom[g]].seats[1].state = "ACTIVE",
                              ![groom[g]].state = "WAIT", ![groom[g]].pc = "idle"]
    /\ sess' = [sess EXCEPT ![gkey[g][1]].right = FALSE]
    /\ DoneGame(g)
    /\ UNCHANGED <<conn, lobbyVars, lobbyTasks, phaseVars, threadVars, roomAt, lifeTasks, overtaken>>

-----------------------------------------------------------------------------
(* The tick of a room: ProcessRoomTasks, ProcessSessionTasks, ProcessRoomTasks and the game. *)

\* A pass over the queue begins with the task that is pending from an earlier one.
BeginPass(room, pass) ==
    [room EXCEPT !.pass = pass, !.seat = 0,
                 !.pc = IF room.left > 0 THEN "pending" ELSE "tasks",
                 !.left = IF @ > 0 THEN @ ELSE Len(room.tasks)]

\* After the first pass the players are visited, after the second a game is advanced.
EndPass(room) ==
    IF room.pass = 1 THEN [room EXCEPT !.pc = "seats", !.seat = 1]
    ELSE [room EXCEPT !.pc = IF room.state = "PLAY" THEN "play" ELSE "idle", !.pass = 1]

BeginTick(r) ==
    /\ InTable(r) /\ rooms[r].pc = "idle"
    /\ rooms' = [rooms EXCEPT ![r] = BeginPass(@, 1)]
    /\ UNCHANGED <<sessVars, lobbyVars, lobbyTasks, phaseVars, threadVars, roomAt, gameVars, overtaken>>

ClaimTasks(r) ==
    /\ rooms[r].pc = "claim"
    /\ rooms' = [rooms EXCEPT ![r].pc = "tasks", ![r].left = Len(rooms[r].tasks)]
    /\ UNCHANGED <<sessVars, lobbyVars, lobbyTasks, phaseVars, threadVars, roomAt, gameVars, overtaken>>

\* KickPlayer: only the host kicks, never itself, and only a player who is in the room.
KickTarget(r, task) ==
    IF task.key = rooms[r].host /\ task.target # rooms[r].host
       /\ SeatActive(r, task.target) /\ Found(task.target)
    THEN {task.target} ELSE {}

\* The sessions whose right a task needs.
Needs(r, task) ==
    IF ~Found(task.key) THEN {}
    ELSE {task.key} \cup
         (IF task.type = "KICK" /\ SeatActive(r, task.key) /\ IsActive(task.key)
             /\ InRoom(task.key, rooms[r].index)
          THEN KickTarget(r, task) ELSE {})

\* A task is at hand, and every right it needs is free.
AtTask(r) == rooms[r].pc \in {"pending", "tasks"} /\ rooms[r].left > 0
TaskReady(r, type) ==
    /\ AtTask(r) /\ Head(rooms[r].tasks).type = type
    /\ \A k \in Needs(r, Head(rooms[r].tasks)) : RightFree(k)

\* The room once the task at hand is finished.
AfterTask(room) ==
    [room EXCEPT !.tasks = Tail(@), !.left = @ - 1, !.pc = IF @ = "pending" THEN "claim" ELSE @]

KeptForgotten(room) == [room EXCEPT !.tasks = Tail(@), !.left = 0]
Kept(room) == [room EXCEPT !.left = 1]

\* pending_room_task_: a right is taken; the task is kept and the rest of the claim restored.
KeepPending(r) ==
    /\ AtTask(r)
    /\ \E k \in Needs(r, Head(rooms[r].tasks)) : ~RightFree(k)
    /\ rooms' = [rooms EXCEPT ![r] = Kept(EndPass(@))]
    /\ UNCHANGED <<sessVars, lobbyVars, lobbyTasks, phaseVars, threadVars, roomAt, gameVars, overtaken>>

\* AddPlayer: the password may be wrong.
FreeSeats(room) == {n \in 1..room.max : room.seats[n].state = "EMPTY"}
MayJoin(r, k) ==
    /\ IsActive(k) /\ sess[k[1]].mode = "LOBBY"
    /\ rooms[r].state = "WAIT"
    /\ Seated(r, k) = {} /\ FreeSeats(rooms[r]) # {}

SeatPlayer(room, k) ==
    [room EXCEPT !.seats[MinSeat(FreeSeats(room))] = [state |-> "ACTIVE", key |-> k], !.count = @ + 1]

\* JOIN: the player is seated and activated; either way the lobby gets its answer.
ProcessJoin(r) ==
    LET task == Head(rooms[r].tasks)
        k == task.key
    IN
    /\ TaskReady(r, "JOIN")
    /\ \/ /\ MayJoin(r, k)
          /\ rooms' = [rooms EXCEPT ![r] = SeatPlayer(AfterTask(@), k)]
          /\ sess' = [sess EXCEPT ![k[1]] = [@ EXCEPT !.mode = "ROOM", !.room = rooms[r].index]]
          /\ lobbyTasks' = Append(lobbyTasks, TransitionResult(k, TRUE, task.match))
       \/ /\ rooms' = [rooms EXCEPT ![r] = AfterTask(@)]
          /\ lobbyTasks' = Append(lobbyTasks, TransitionResult(k, FALSE, task.match))
          /\ UNCHANGED sess
    /\ UNCHANGED <<conn, lobbyVars, phaseVars, threadVars, roomAt, gameVars, overtaken>>

\* RequestLobbyTransition for a seated player k of a room in state `room`: the player is
\* removed, which may complete its disconnection, and the lobby is asked to take it back.
ToLobby(r, room, k) ==
    /\ rooms' = [rooms EXCEPT ![r] = RemovedFrom(room, k)]
    /\ sess' = AfterRoomDisconnect(sess, k)
    /\ lobbyTasks' = lobbyTasks \o RoomDisconnectNotice(k)
                     \o <<[LTask("ENTER_LOBBY", k) EXCEPT !.room = room.index]>>

\* REMOVE_PLAYER: an ACTIVE session goes back to the lobby, another one is removed and its
\* disconnection goes on.  Nothing happens if it has no seat.
ProcessRemove(r) ==
    LET k == Head(rooms[r].tasks).key
        after == AfterTask(rooms[r])
    IN
    /\ TaskReady(r, "REMOVE_PLAYER")
    /\ \/ /\ IsActive(k) /\ SeatActive(r, k)
          /\ ToLobby(r, after, k)
       \/ /\ ~IsActive(k) /\ Seated(r, k) # {}
          /\ rooms' = [rooms EXCEPT ![r] = RemovedFrom(after, k)]
          /\ sess' = AfterRoomDisconnect(sess, k)
          /\ lobbyTasks' = lobbyTasks \o RoomDisconnectNotice(k)
       \/ /\ IF IsActive(k) THEN ~SeatActive(r, k) ELSE Seated(r, k) = {}
          /\ rooms' = [rooms EXCEPT ![r] = after]
          /\ UNCHANGED <<sess, lobbyTasks>>
    /\ UNCHANGED <<conn, lobbyVars, phaseVars, threadVars, roomAt, gameVars, overtaken>>

\* Whether the other requests are still valid when their turn comes.
RequestValid(r, k) ==
    Found(k) /\ SeatActive(r, k) /\ IsActive(k) /\ InRoom(k, rooms[r].index)

\* KICK
ProcessKick(r) ==
    LET task == Head(rooms[r].tasks)
        target == {k \in KickTarget(r, task) : RequestValid(r, task.key) /\ InRoom(k, rooms[r].index)}
    IN
    /\ TaskReady(r, "KICK")
    /\ \/ \E k \in target : ToLobby(r, AfterTask(rooms[r]), k)
       \/ /\ target = {}
          /\ rooms' = [rooms EXCEPT ![r] = AfterTask(@)]
          /\ UNCHANGED <<sess, lobbyTasks>>
    /\ UNCHANGED <<conn, lobbyVars, phaseVars, threadVars, roomAt, gameVars, overtaken>>

\* START: alone at once; with several players the host, if everyone is ready.
StartAllowed(r, k) ==
    /\ RequestValid(r, k) /\ rooms[r].state = "WAIT"
    /\ rooms[r].max = 1 \/ (k = rooms[r].host /\ rooms[r].count > 1)

ProcessStart(r) ==
    LET k == Head(rooms[r].tasks).key IN
    /\ TaskReady(r, "START")
    /\ \/ /\ StartAllowed(r, k)
          /\ rooms' = [rooms EXCEPT ![r] = [AfterTask(@) EXCEPT !.state = "PLAY"]]
       \/ /\ rooms[r].max > 1 \/ ~StartAllowed(r, k)
          /\ rooms' = [rooms EXCEPT ![r] = AfterTask(@)]
    /\ UNCHANGED <<sessVars, lobbyVars, lobbyTasks, phaseVars, threadVars, roomAt, gameVars, overtaken>>

\* GIVE_UP of a player who is alone.
ProcessGiveUp(r) ==
    LET k == Head(rooms[r].tasks).key IN
    /\ TaskReady(r, "GIVE_UP")
    /\ rooms' = [rooms EXCEPT ![r] =
           [AfterTask(@) EXCEPT !.state = IF RequestValid(r, k) /\ rooms[r].state = "PLAY"
                                          THEN "WAIT" ELSE rooms[r].state]]
    /\ UNCHANGED <<sessVars, lobbyVars, lobbyTasks, phaseVars, threadVars, roomAt, gameVars, overtaken>>

\* TryPostRoomDelete: when a room posts its deletion.
PostsDeleteAgain(room) == room.state \in {"WAITING_DELETE", "DELETE_POST"} /\ room.tasks = <<>>
PostsDeleteHostless(room) == room.state = "WAITING_DELETE" /\ room.tasks = <<>> /\ room.host = NoKey
PostsDelete(room) == room.state = "WAITING_DELETE" /\ room.tasks = <<>>

\* The end of a pass.
EndRoomTasks(r) ==
    LET posts == PostsDelete(rooms[r]) IN
    /\ rooms[r].pc = "tasks" /\ rooms[r].left = 0
    /\ rooms' = [rooms EXCEPT ![r] = EndPass(IF posts THEN [@ EXCEPT !.state = "DELETE_POST"] ELSE @)]
    /\ lifeTasks' = IF posts
                    THEN Append(lifeTasks, [type |-> "DELETE_ROOM", index |-> rooms[r].index])
                    ELSE lifeTasks
    /\ UNCHANGED <<sessVars, lobbyVars, lobbyTasks, phaseVars, threadVars, roomAt, gpc, gkey, groom, overtaken>>

-----------------------------------------------------------------------------
(* The tick of a room: visits of the players, and the game. *)

\* The player on the present seat can be visited.
SeatKey(r) == rooms[r].seats[rooms[r].seat].key
Visitable(r) ==
    /\ rooms[r].seats[rooms[r].seat].state = "ACTIVE"
    /\ IsActive(SeatKey(r)) /\ InRoom(SeatKey(r), rooms[r].index)

\* The next seat, or the second pass.
NextSeat(room) ==
    IF room.seat < room.max THEN [room EXCEPT !.pc = "seats", !.seat = @ + 1] ELSE BeginPass(room, 2)

VisitSeat(r) ==
    /\ rooms[r].pc = "seats"
    /\ \/ /\ Visitable(r) /\ RightFree(SeatKey(r))
          /\ sess' = [sess EXCEPT ![SeatKey(r)[1]].right = TRUE]
          /\ rooms' = [rooms EXCEPT ![r].pc = "hold", ![r].held = SeatKey(r)]
       \/ /\ ~(Visitable(r) /\ RightFree(SeatKey(r)))
          /\ rooms' = [rooms EXCEPT ![r] = NextSeat(@)]
          /\ UNCHANGED sess
    /\ UNCHANGED <<conn, lobbyVars, lobbyTasks, phaseVars, threadVars, roomAt, gameVars, overtaken>>

Holding(r) == rooms[r].pc = "hold" /\ Visitable(r)

\* C2S_START, C2S_KICK and C2S_GIVE_UP queue a task for the room.
RequestRoomTask(r, type, target) ==
    /\ Holding(r) /\ AcceptsTasks(r)
    /\ Len(rooms[r].tasks) < MaxRequests
    /\ (type = "GIVE_UP") => (rooms[r].max = 1)
    /\ (type = "KICK") <=> (target # NoKey)
    /\ (type = "KICK") => (rooms[r].max > 1)
    /\ rooms' = AddRoomTask(rooms, r, [RTask(type, SeatKey(r)) EXCEPT !.target = target])
    /\ UNCHANGED <<sessVars, lobbyVars, lobbyTasks, phaseVars, threadVars, roomAt, gameVars, overtaken>>

\* C2S_REMOVE_PLAYER: RequestLobbyTransition; the player is no longer seated and the visit ends.
LeaveRoom(r) ==
    /\ Holding(r)
    /\ rooms' = [rooms EXCEPT ![r] = RemovedFrom(@, SeatKey(r))]
    /\ lobbyTasks' = Append(lobbyTasks, [LTask("ENTER_LOBBY", SeatKey(r)) EXCEPT !.room = rooms[r].index])
    /\ UNCHANGED <<sessVars, lobbyVars, phaseVars, threadVars, roomAt, gameVars, overtaken>>

DisconnectInRoom(r) ==
    /\ Holding(r)
    /\ sess' = BeginDisconnect(sess, SeatKey(r)[1])
    /\ UNCHANGED <<conn, lobbyVars, lobbyTasks, phaseVars, threadVars, roomAt, rooms, gameVars, overtaken>>

EndSeatVisit(r) ==
    /\ rooms[r].pc = "hold"
    /\ sess' = [sess EXCEPT ![rooms[r].held[1]].right = FALSE]
    /\ rooms' = [rooms EXCEPT ![r] = [NextSeat(@) EXCEPT !.held = NoKey]]
    /\ UNCHANGED <<conn, lobbyVars, lobbyTasks, phaseVars, threadVars, roomAt, gameVars, overtaken>>

\* ProcessGameTick: the game goes on, ends (ClearGame), or a player whose packets do not fit
\* into the send buffer is to be removed.
PlayTick(r) ==
    /\ rooms[r].pc = "play"
    /\ \/ \E state \in {"WAIT", "PLAY"} :
             rooms' = [rooms EXCEPT ![r].pc = "idle", ![r].state = state]
       \/ \E n \in Seats :
             /\ rooms[r].seats[n].state = "ACTIVE" /\ Found(rooms[r].seats[n].key)
             /\ Len(rooms[r].tasks) < MaxRequests
             /\ rooms' = AddRoomTask([rooms EXCEPT ![r].pc = "idle"], r,
                                     RTask("REMOVE_PLAYER", rooms[r].seats[n].key))
    /\ UNCHANGED <<sessVars, lobbyVars, lobbyTasks, phaseVars, threadVars, roomAt, gameVars, overtaken>>

-----------------------------------------------------------------------------
(* Specification *)

LobbyTaskStep(t) ==
    \/ DequeueLobbyTask(t) \/ AddSession(t) \/ ForgetSession(t) \/ RemoveActiveSession(t)
    \/ ReturnToLobby(t) \/ EnterLobby(t) \/ ActivateEntry(t)
    \/ BeginFinalize(t) \/ FinalizeInRoom(t) \/ FinalizeOutsideRoom(t) \/ FreeSlot(t)

LobbyRequest(t) ==
    \/ Login(t) \/ RequestCreate(t) \/ DisconnectInLobby(t)
    \/ \E r \in RoomKeys, match \in BOOLEAN : RequestJoin(t, r, match)

CreateStep(g) ==
    \/ DeleteRoom(g) \/ BeginCreate(g) \/ RefuseCreate(g) \/ AnswerCreate(g)
    \/ CompleteRoomInitialization(g)
    \/ \E r \in RoomKeys, i \in RoomIndices, max \in {1, Cardinality(Seats)} : CreateRoom(g, r, i, max)

ProcessRoomTask(r) ==
    \/ ProcessJoin(r) \/ ProcessRemove(r) \/ ProcessKick(r) \/ ProcessStart(r) \/ ProcessGiveUp(r)

RoomTaskStep(r) == ClaimTasks(r) \/ KeepPending(r) \/ ProcessRoomTask(r) \/ EndRoomTasks(r)

RoomRequest(r) ==
    \/ LeaveRoom(r) \/ DisconnectInRoom(r)
    \/ \E type \in {"START", "KICK", "GIVE_UP"}, target \in Key \cup {NoKey} :
          RequestRoomTask(r, type, target)

Next ==
    \/ \E s \in Slots : AcquireSession(s) \/ CompleteSessionIO(s)
    \/ StartLobbyPhase \/ EndLobbyTasks
    \/ \E t \in LobbyThreads : LobbyTaskStep(t) \/ LobbyRequest(t) \/ EndVisit(t)
    \/ \E t \in LobbyThreads, s \in Slots : VisitSession(t, s)
    \/ \E g \in GameThreads : CreateStep(g)
    \/ \E r \in RoomKeys : \/ BeginTick(r) \/ RoomTaskStep(r)
                            \/ VisitSeat(r) \/ RoomRequest(r) \/ EndSeatVisit(r) \/ PlayTick(r)

Spec == Init /\ [][Next]_vars

\* Threads keep running, the timer keeps starting phases, a visit ends, and the I/O of a
\* closed socket completes.  No client has to send anything.  A phase visits each session
\* once; StartLobbyPhase is strongly fair because phases without tasks are merged here.
Fairness ==
    /\ \A s \in Slots : WF_vars(CompleteSessionIO(s))
    /\ SF_vars(StartLobbyPhase) /\ WF_vars(EndLobbyTasks)
    /\ \A t \in LobbyThreads : WF_vars(LobbyTaskStep(t)) /\ WF_vars(EndVisit(t))
    /\ \A g \in GameThreads : WF_vars(CreateStep(g))
    /\ \A r \in RoomKeys :
         /\ WF_vars(BeginTick(r)) /\ WF_vars(RoomTaskStep(r)) /\ WF_vars(VisitSeat(r))
         /\ WF_vars(EndSeatVisit(r)) /\ WF_vars(PlayTick(r))

FairSpec == Spec /\ Fairness

-----------------------------------------------------------------------------
(* Properties *)

Used(r) == rooms[r].pc # "unused"
TasksOf(seq) == {seq[n] : n \in DOMAIN seq}
LobbyTasksInFlight == TasksOf(lobbyTasks) \cup {ltask[t] : t \in LobbyThreads}

\* Type invariant.  The claim of a lobby phase never exceeds the queue.
TypeOK ==
    /\ sess \in [Slots -> [life : {"NONE", "ACTIVE", "DISCONNECT_PENDING", "DISCONNECTING"}, id : Ids,
                           mode : {"NONE", "LOGIN", "LOBBY", "ROOM"},
                           room : RoomIndices \cup {NoIndex}, right : BOOLEAN]]
    /\ conn \in [Slots -> Ids]
    /\ entry \in [Slots -> [state : {"EMPTY", "PENDING", "ACTIVE"}, id : Ids]]
    /\ active \subseteq Key
    /\ lobbyTasks \in Seq(LobbyTask)
    /\ claim \in 0..Len(lobbyTasks) /\ stage \in {"tasks", "sessions"}
    /\ lpc \in [LobbyThreads -> {"idle", "task", "forget", "enter", "finalize", "free", "visit"}]
    /\ ltask \in [LobbyThreads -> LobbyTask \cup {NoTask}]
    /\ roomAt \in [RoomIndices -> RoomKeys \cup {NoRoom}]
    /\ rooms \in [RoomKeys ->
          [state : {"EMPTY", "WAIT", "PLAY", "WAITING_DELETE", "DELETE_POST"},
           index : RoomIndices \cup {NoIndex}, max : {0, 1, Cardinality(Seats)},
           seats : [Seats -> [state : {"EMPTY", "PENDING", "ACTIVE"}, key : Key \cup {NoKey}]],
           count : 0..Cardinality(Seats), host : Key \cup {NoKey}, tasks : Seq(RoomTask), left : Nat,
           pc : {"unused", "init", "idle", "pending", "claim", "tasks", "seats", "hold", "play"},
           pass : {1, 2}, seat : Seats \cup {0}, held : Key \cup {NoKey}]]
    /\ lifeTasks \in Seq(LifecycleTask)
    /\ gpc \in [GameThreads -> {"idle", "wait", "created", "init"}]
    /\ gkey \in [GameThreads -> Key \cup {NoKey}]
    /\ groom \in [GameThreads -> RoomKeys \cup {NoRoom}]
    /\ overtaken \subseteq Key

\* is_processing_tasks_ is set exactly while one consumer has the session: a lobby thread, the
\* thread that makes a room, or the tick of a room.
LobbyHolders(s) == {t \in LobbyThreads : lpc[t] \in {"visit", "enter", "finalize"} /\ ltask[t].key[1] = s}
GameHolders(s) == {g \in GameThreads : gpc[g] \in {"created", "init"} /\ gkey[g][1] = s}
RoomHolders(s) == {r \in RoomKeys : rooms[r].pc = "hold" /\ rooms[r].held[1] = s}
OneHolder ==
    \A s \in Slots :
        Cardinality(LobbyHolders(s)) + Cardinality(GameHolders(s)) + Cardinality(RoomHolders(s))
            = IF sess[s].right THEN 1 ELSE 0

\* A seat always belongs to a connection that still exists and knows that it is in this room;
\* nobody has two seats, and a seated session is not visited by the lobby.
SeatsAgree ==
    \A r \in RoomKeys, n \in Seats : rooms[r].seats[n].state # "EMPTY" =>
        LET k == rooms[r].seats[n].key IN
        /\ Found(k) /\ InRoom(k, rooms[r].index) /\ roomAt[rooms[r].index] = r
        /\ ~InLobby(k)
        /\ \A q \in RoomKeys, m \in Seats : rooms[q].seats[m].key = k => q = r /\ m = n

\* current_player_count_ is the number of seated players, and a room that is in use has one
\* of them as its host.
HostSeated ==
    \A r \in RoomKeys : Used(r) =>
        /\ rooms[r].count = Cardinality({n \in Seats : rooms[r].seats[n].state # "EMPTY"})
        /\ AcceptsTasks(r) => Seated(r, rooms[r].host) # {}

\* Sessions and rooms agree on who sits where, on the number of players and on the host,
\* in every state between the steps of a creation, a join, a removal and a deletion.
RoomsConsistent == TypeOK /\ SeatsAgree /\ HostSeated

\* DELETE_ROOM names an index, not a room: the room it finds there is the one that posted it,
\* and it has neither players nor tasks.
DeletesOwnRoom ==
    /\ \A task \in TasksOf(lifeTasks) : task.type = "DELETE_ROOM" =>
           /\ roomAt[task.index] # NoRoom
           /\ LET room == rooms[roomAt[task.index]] IN
                room.state = "DELETE_POST" /\ room.count = 0 /\ room.tasks = <<>>
    /\ \A r \in RoomKeys : Used(r) /\ ~InTable(r) => rooms[r].state = "DELETE_POST"

\* The unfinished room transitions of a connection, each with its place: a creation queued or at
\* work, a join that a room is asked for, its answer queued or at hand, the end of ENTER_LOBBY.
QueuedFor(seq, type, k) == {n \in DOMAIN seq : seq[n].type = type /\ seq[n].key = k}
Transitions(k) ==
    ({"create"} \X QueuedFor(lifeTasks, "CREATE", k))
    \cup ({"make"} \X {g \in GameThreads : gpc[g] \in {"wait", "created"} /\ gkey[g] = k})
    \cup (UNION {{"join"} \X {r} \X QueuedFor(rooms[r].tasks, "JOIN", k) : r \in RoomKeys})
    \cup ({"answer"} \X QueuedFor(lobbyTasks, "ROOM_TRANSITION_RESULT", k))
    \cup ({"hand"} \X {t \in LobbyThreads :
                       lpc[t] = "task" /\ ltask[t].type = "ROOM_TRANSITION_RESULT" /\ ltask[t].key = k})
    \cup ({"enter"} \X {t \in LobbyThreads : lpc[t] = "enter" /\ ltask[t].key = k})

\* A PENDING entry waits for exactly one transition, so that it is always answered and never
\* twice; an ACTIVE entry waits for none.
OneTransition ==
    \A s \in Slots :
        /\ entry[s].state = "PENDING" => Cardinality(Transitions(<<s, entry[s].id>>)) = 1
        /\ entry[s].state = "ACTIVE" => Transitions(<<s, entry[s].id>>) = {}

\* An ACTIVE session is in someone's care: it waits to be added, the lobby visits it, one of
\* its transitions is under way, a room visits it, or the lobby is to take it back.
Cared(k) ==
    \/ \E task \in LobbyTasksInFlight : task.type \in {"ADD_SESSION", "ENTER_LOBBY"} /\ task.key = k
    \/ InLobby(k) /\ k \in active
    \/ EntryMatches(k) /\ entry[k[1]].state = "PENDING" /\ k \in active /\ sess[k[1]].mode = "LOBBY"
    \/ \E r \in RoomKeys : InTable(r) /\ Seated(r, k) # {}

\* An ACTIVE session always has someone who will run its requests, its disconnection included,
\* unless its ENTER_LOBBY task has overtaken the ROOM_TRANSITION_RESULT before it.
Reachable == \A s \in Slots : sess[s].life = "ACTIVE" => Occupant(s) \in overtaken \/ Cared(Occupant(s))

\* A DISCONNECTING session will be finalized: a DISCONNECT task is under way, or the room it
\* sits in is going to remove it.
DisconnectPending ==
    \A s \in Slots : sess[s].life = "DISCONNECTING" =>
        LET k == Occupant(s) IN
        \/ \E task \in LobbyTasksInFlight : task.type = "DISCONNECT" /\ task.key = k
        \/ \E r \in RoomKeys : /\ InTable(r) /\ Seated(r, k) # {}
                                /\ RTask("REMOVE_PLAYER", k) \in TasksOf(rooms[r].tasks)

\* The lobby keeps nothing of a connection that is gone: an entry belongs to the occupant of
\* its slot, and so does a place on the active list unless a thread is just removing it.
LobbyForgets ==
    /\ \A s \in Slots : entry[s].state # "EMPTY" => Found(<<s, entry[s].id>>)
    /\ \A k \in active : Found(k) \/ \E t \in LobbyThreads : lpc[t] = "forget" /\ ltask[t].key = k

\* The first task of the queue is a request of a player who has left the room.  The room tries
\* for the session's right in every tick while a lobby thread may have it each time, and no
\* later task is run before: nothing in the code excludes that this goes on for ever.
StaleRequest(r) ==
    /\ rooms[r].tasks # <<>>
    /\ Head(rooms[r].tasks).type \in {"START", "KICK", "GIVE_UP"}
    /\ Seated(r, Head(rooms[r].tasks).key) = {}

Connections == Slots \X (Ids \ {0})

\* A connection that has begun its disconnection gives up its slot, in the lobby as in a room,
\* unless a room is blocked by a stale request for ever.
DisconnectCompletes ==
    \/ \E r \in RoomKeys : []<>StaleRequest(r)
    \/ \A k \in Connections : Found(k) /\ sess[k[1]].life # "ACTIVE" ~> ~Found(k)

\* A room whose last player has left is removed from the table, unless it is blocked by a
\* stale request for ever.
RoomDeleted ==
    \A r \in RoomKeys : []<>StaleRequest(r) \/ (rooms[r].state = "WAITING_DELETE" ~> ~InTable(r))

\* A request for a new room, or for a room that the client named, is answered: the entry does
\* not stay PENDING.  (A fast match may be refused by one room after the other.)
Asked(k) ==
    \/ [type |-> "CREATE", key |-> k] \in TasksOf(lifeTasks)
    \/ \E r \in RoomKeys : RTask("JOIN", k) \in TasksOf(rooms[r].tasks)
RequestAnswered ==
    \/ \E r \in RoomKeys : []<>StaleRequest(r)
    \/ \A k \in Connections : Asked(k) ~> ~(EntryMatches(k) /\ entry[k[1]].state = "PENDING")

=============================================================================
