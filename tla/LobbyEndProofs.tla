-------------------------- MODULE LobbyEndProofs --------------------------
(***************************************************************************)
(* What the lobby has begun goes on, for all values of the constants and   *)
(* on top of the invariants of LobbyRoomProofs.  First disconnections: no  *)
(* session stays DISCONNECTING with neither a task nor a request to its    *)
(* room that would finish it.  Then room transitions: an entry that waits  *)
(* for one has exactly one under way.  Then sessions: whoever is active is *)
(* in somebody's care.                                                     *)
(***************************************************************************)
EXTENDS LobbyRoomProofs

----------------------------------------------------------------------------
(* A disconnection goes on. *)

\* A DISCONNECT task of k is under way, or the room that k sits in has been asked to remove it.
Noticed(k) == \E task \in LobbyTasksInFlight : task.type = "DISCONNECT" /\ task.key = k
Removing(r, k) == RTask("REMOVE_PLAYER", k) \in TasksOf(rooms[r].tasks)
Dismissed(k) == \E r \in RoomKeys : InTable(r) /\ Sits(r, k) /\ Removing(r, k)
Pursued == \A k \in Key : Closing(k) => Noticed(k) \/ Dismissed(k)

\* Whoever is being disconnected in a room sits in it.
LeaversSit == \A k \in Key : LeavesRoom(k) => \E r \in RoomKeys : Sits(r, k)

\* Only the steps of a disconnection work on a DISCONNECT task.
NoticesHeld == \A t \in LobbyThreads : ltask[t].type = "DISCONNECT" => lpc[t] \in {"task", "finalize", "free"}

Ended == NoticesHeld /\ LeaversSit /\ Pursued

\* Requests to remove a player stay in the queues of the rooms.
AsksKept == \A r \in RoomKeys, k \in Key : Removing(r, k) => Removing(r, k)'

\* No session begins its end, or is in a room meanwhile, that did not before.
EndsStay == \A k \in Key : (Closing(k)' => Closing(k)) /\ (LeavesRoom(k)' => LeavesRoom(k))

\* The thread keeps its DISCONNECT task, unless this task is of no use any more.
NoticeKept(t) ==
  \/ ltask'[t] = ltask[t] \/ ltask[t].type # "DISCONNECT"
  \/ \A k \in Key : ltask[t].key = k /\ Closing(k)' => Noticed(k)' \/ Dismissed(k)'
NoticesKept == \A t \in LobbyThreads : NoticeKept(t)

LEMMA HeadOrTail ==
  ASSUME NEW S, NEW seq \in Seq(S), seq # <<>>
  PROVE  TasksOf(seq) = {Head(seq)} \cup TasksOf(Tail(seq))
  <1>1. Tail(seq) \in Seq(S) /\ Len(Tail(seq)) = Len(seq) - 1
        /\ \A n \in 1..Len(Tail(seq)) : Tail(seq)[n] = seq[n + 1]
    BY HeadTailProperties
  <1>2. Len(seq) \in Nat \ {0} /\ DOMAIN seq = 1..Len(seq) /\ DOMAIN Tail(seq) = 1..Len(Tail(seq)) /\ Head(seq) = seq[1]
    BY <1>1, LenProperties, EmptySeq
  <1>3. ASSUME NEW n \in DOMAIN seq PROVE seq[n] = Head(seq) \/ seq[n] \in TasksOf(Tail(seq))
    <2>1. CASE n = 1
      BY <1>2, <2>1
    <2>2. CASE n # 1
      <3>1. n - 1 \in DOMAIN Tail(seq) /\ Tail(seq)[n - 1] = seq[n]
        BY <1>1, <1>2, <2>2
      <3> QED
        BY <3>1 DEF TasksOf
    <2> QED
      BY <2>1, <2>2
  <1>4. \A x \in TasksOf(seq) : x = Head(seq) \/ x \in TasksOf(Tail(seq))
    BY <1>3 DEF TasksOf
  <1>5. Head(seq) \in TasksOf(seq) /\ TasksOf(Tail(seq)) \subseteq TasksOf(seq)
    BY QueueFacts
  <1> QED
    BY <1>4, <1>5

\* The queue of a room: it stays, a task is added, or a task that asks for nothing leaves.
LEMMA AsksStay ==
  ASSUME RoomsOK, NEW r \in RoomKeys, NEW v, rooms' = [rooms EXCEPT ![r] = v],
         \/ v.tasks = rooms[r].tasks
         \/ \E x \in RoomTask : v.tasks = Append(rooms[r].tasks, x)
         \/ /\ rooms[r].tasks # <<>> /\ v.tasks = Tail(rooms[r].tasks)
            /\ Head(rooms[r].tasks).type # "REMOVE_PLAYER"
  PROVE  AsksKept
  <1>1. rooms'[r] = v /\ \A q \in RoomKeys \ {r} : rooms'[q] = rooms[q]
    BY DEF RoomsOK
  <1>2. rooms[r].tasks \in Seq(RoomTask)
    BY DEF RoomsOK, Room
  <1>3. ASSUME NEW k \in Key, Removing(r, k) PROVE Removing(r, k)'
    <2>1. RTask("REMOVE_PLAYER", k).type = "REMOVE_PLAYER"
      BY RoomTaskTypes
    <2> DEFINE y == RTask("REMOVE_PLAYER", k)
               seq == rooms[r].tasks
    <2>3. y \in TasksOf(seq)
      BY <1>3 DEF Removing
    <2> HIDE DEF y, seq
    <2>4. \A x \in RoomTask : TasksOf(Append(seq, x)) = TasksOf(seq) \cup {x}
      BY <1>2, QueueFacts DEF seq
    <2>5. seq # <<>> => TasksOf(seq) = {Head(seq)} \cup TasksOf(Tail(seq))
      BY <1>2, HeadOrTail DEF seq
    <2>6. y \in TasksOf(v.tasks)
      BY <2>1, <2>3, <2>4, <2>5 DEF y, seq
    <2>2. RTask("REMOVE_PLAYER", k) \in TasksOf(v.tasks)
      BY <2>6 DEF y
    <2> QED
      BY <1>1, <2>2 DEF Removing
  <1>4. ASSUME NEW q \in RoomKeys, NEW k \in Key, Removing(q, k) PROVE Removing(q, k)'
    BY <1>1, <1>3, <1>4 DEF Removing
  <1> QED
    BY <1>4 DEF AsksKept

\* What is posted stays posted.
LEMMA NoticedStays ==
  ASSUME QueueOK, NEW q, Posting(q), NEW k \in Key, NEW task \in LobbyTasksInFlight, task.type = "DISCONNECT", task.key = k,
         \A t \in LobbyThreads : NoticeKept(t), Closing(k)'
  PROVE  Noticed(k)' \/ Dismissed(k)'
  <1>1. CASE task \in TasksOf(lobbyTasks)
    <2>1. task \in TasksOf(lobbyTasks')
      BY <1>1, TasksOfConcat DEF QueueOK, Posting
    <2> QED
      BY <2>1 DEF Noticed, LobbyTasksInFlight
  <1>2. ASSUME NEW t \in LobbyThreads, task = ltask[t] PROVE Noticed(k)' \/ Dismissed(k)'
    BY <1>2 DEF NoticeKept, Noticed, LobbyTasksInFlight
  <1> QED
    BY <1>1, <1>2 DEF LobbyTasksInFlight

LEMMA NewNotice ==
  ASSUME QueueOK, NEW q, Posting(q), NEW task \in TasksOf(q), task.type = "DISCONNECT", NEW k, task.key = k
  PROVE  Noticed(k)'
  <1>1. task \in TasksOf(lobbyTasks')
    BY TasksOfConcat DEF QueueOK, Posting
  <1> QED
    BY <1>1 DEF Noticed, LobbyTasksInFlight

\* A step that seats and unseats nobody.
LEMMA EndedRest ==
  ASSUME Typed, Ended, NoticesHeld', \A r \in RoomKeys : rooms'[r].seats = rooms[r].seats,
         \A r \in RoomKeys, k \in Key : InTable(r) /\ Sits(r, k) => InTable(r)',
         AsksKept, EndsStay, NoticesKept, NEW q, Posting(q)
  PROVE  Ended'
  <1>1. \A r \in RoomKeys : \A k : Sits(r, k)' <=> Sits(r, k)
    BY SitsStays
  <1>2. LeaversSit'
    BY <1>1 DEF Ended, LeaversSit, EndsStay
  <1>3. ASSUME NEW k \in Key, Closing(k)' PROVE Noticed(k)' \/ Dismissed(k)'
    <2>1. Noticed(k) \/ Dismissed(k)
      BY <1>3 DEF Ended, Pursued, EndsStay
    <2>2. CASE Noticed(k)
      BY <1>3, <2>2, NoticedStays DEF Noticed, NoticesKept, Typed
    <2>3. CASE Dismissed(k)
      BY <1>1, <2>3 DEF Dismissed, AsksKept
    <2> QED
      BY <2>1, <2>2, <2>3
  <1> QED
    BY <1>2, <1>3 DEF Ended, Pursued

\* Sessions that stay where they are.
LEMMA EndsSame ==
  /\ UNCHANGED sess => EndsStay
  /\ \A s \in Slots, b \in BOOLEAN : SessOK /\ sess' = [sess EXCEPT ![s].right = b] => EndsStay
  <1>1. UNCHANGED sess => EndsStay
    BY DEF EndsStay, Closing, LeavesRoom, Disconnecting, Found
  <1>2. ASSUME NEW s \in Slots, NEW b \in BOOLEAN, SessOK, sess' = [sess EXCEPT ![s].right = b] PROVE EndsStay
    <2> DEFINE x == [sess[s] EXCEPT !.right = b]
    <2>1. sess[s] \in Session
      BY <1>2 DEF SessOK
    <2>2. x.id = sess[s].id /\ x.life = sess[s].life /\ x.mode = sess[s].mode
      BY <2>1 DEF Session
    <2>3. sess' = [sess EXCEPT ![s] = x]
      BY <1>2
    <2> HIDE DEF x
    <2>4. \A p \in Slots : sess'[p].id = sess[p].id /\ sess'[p].life = sess[p].life /\ sess'[p].mode = sess[p].mode
      BY <1>2, <2>2, <2>3, RightIn
    <2> QED
      BY <2>4, KeyFacts DEF EndsStay, Closing, LeavesRoom, Disconnecting, Found
  <1> QED
    BY <1>1, <1>2

\* One session changes, and is not being disconnected afterwards unless it was, in a room
\* or outside, before.
LEMMA EndsAt ==
  ASSUME NEW s \in Slots, \A q \in Slots \ {s} : sess'[q] = sess[q],
         sess'[s].life \in {"NONE", "ACTIVE"}
         \/ (sess'[s].mode # "ROOM" /\ sess'[s].id = sess[s].id /\ (sess'[s].life = "DISCONNECTING" => sess[s].life = "DISCONNECTING"))
  PROVE  EndsStay
  <1> SUFFICES ASSUME NEW k \in Key PROVE (Closing(k)' => Closing(k)) /\ (LeavesRoom(k)' => LeavesRoom(k))
    BY DEF EndsStay
  <1>1. k[1] \in Slots
    BY KeyFacts
  <1> QED
    BY <1>1 DEF Closing, LeavesRoom, Disconnecting, Found

----------------------------------------------------------------------------
(* The lobby's side of a disconnection. *)

\* Threads other than t keep what they do.
LEMMA HeldBy ==
  ASSUME Typed, Ended, NEW t \in LobbyThreads, \A u \in LobbyThreads \ {t} : lpc'[u] = lpc[u] /\ ltask'[u] = ltask[u],
         ltask'[t].type = "DISCONNECT" => lpc'[t] \in {"task", "finalize", "free"}
  PROVE  NoticesHeld'
  BY DEF Ended, NoticesHeld

LEMMA DoneHeld ==
  ASSUME Typed, Ended, NEW t \in LobbyThreads, DoneLobby(t)
  PROVE  NoticesHeld' /\ \A u \in LobbyThreads \ {t} : ltask'[u] = ltask[u]
  <1>1. \A u \in LobbyThreads \ {t} : lpc'[u] = lpc[u] /\ ltask'[u] = ltask[u]
    BY DoneOthers DEF Typed
  <1>2. ltask'[t].type # "DISCONNECT"
    BY DEF DoneLobby, NoTask, Typed, ThreadOK
  <1> QED
    BY <1>1, <1>2, HeldBy

\* The threads do what they did.
LEMMA ThreadsRest ==
  ASSUME Ended, UNCHANGED <<lpc, ltask>>
  PROVE  NoticesHeld' /\ NoticesKept
  BY DEF Ended, NoticesHeld, NoticesKept, NoticeKept

LEMMA RoomsRest ==
  ASSUME RoomsOK, UNCHANGED <<rooms, roomAt>>
  PROVE  /\ \A r \in RoomKeys : rooms'[r].seats = rooms[r].seats
         /\ \A r \in RoomKeys, k \in Key : InTable(r) /\ Sits(r, k) => InTable(r)'
         /\ AsksKept
  BY DEF InTable, AsksKept, Removing

LEMMA NetworkEnds ==
  ASSUME Typed, Ended, NEW s \in Slots, AcquireSession(s) \/ CompleteSessionIO(s)
  PROVE  Ended'
  <1>1. UNCHANGED <<rooms, roomAt, lpc, ltask>>
    BY DEF AcquireSession, CompleteSessionIO, threadVars
  <1>2. NoticesHeld' /\ NoticesKept
    BY <1>1, ThreadsRest
  <1>3. CASE AcquireSession(s)
    <2> DEFINE x == [sess[s] EXCEPT !.life = "ACTIVE", !.id = conn[s] + 1, !.mode = "LOGIN", !.room = NoIndex]
               n == LTask("ADD_SESSION", <<s, conn[s] + 1>>)
    <2>1. sess[s] \in Session
      BY DEF Typed, SessOK
    <2>2. x.life = "ACTIVE" /\ sess' = [sess EXCEPT ![s] = x]
      BY <1>3, <2>1 DEF AcquireSession, Session
    <2> HIDE DEF x
    <2>3. sess'[s].life = "ACTIVE" /\ \A q \in Slots \ {s} : sess'[q] = sess[q]
      BY <2>2, RightIn DEF Typed
    <2>4. EndsStay
      BY <2>3, EndsAt
    <2>5. n \in LobbyTask /\ lobbyTasks' = Append(lobbyTasks, n)
      <3>1. conn[s] + 1 \in Ids
        BY <1>3, IdsLeft DEF Typed, AcquireSession
      <3>2. <<s, conn[s] + 1>> \in Key
        BY <3>1, KeyFacts
      <3> QED
        BY <1>3, <3>2, TaskTypes DEF AcquireSession, LobbyTaskType
    <2> HIDE DEF n
    <2>6. Posting(<<n>>)
      BY <2>5, PostOne DEF Typed
    <2> QED
      BY <1>1, <1>2, <2>4, <2>6, RoomsRest, EndedRest DEF Typed
  <1>4. CASE CompleteSessionIO(s)
    <2> DEFINE x == [sess[s] EXCEPT !.life = "DISCONNECTING"]
    <2>1. PICK k \in Key : k = Occupant(s) /\ k[1] = s /\ k[2] = sess[s].id /\ sess[s] \in Session
      BY OccupantKey DEF Typed
    <2>2. x.life = "DISCONNECTING" /\ x.id = sess[s].id /\ x.mode = sess[s].mode /\ sess' = [sess EXCEPT ![s] = x]
          /\ sess[s].life = "DISCONNECT_PENDING"
      BY <1>4, <2>1 DEF CompleteSessionIO, Session
    <2> HIDE DEF x
    <2>3. sess'[s] = x /\ \A q \in Slots \ {s} : sess'[q] = sess[q]
      BY <2>2, RightIn DEF Typed
    <2>4. \A j \in Key : j[1] \in Slots /\ (j[1] = s /\ j[2] = k[2] => j = k)
      BY <2>1, KeyFacts
    <2>5. LTask("DISCONNECT", k) \in LobbyTask /\ LTask("DISCONNECT", k).type = "DISCONNECT" /\ LTask("DISCONNECT", k).key = k
      BY TaskTypes DEF LobbyTaskType
    <2> DEFINE n == LTask("DISCONNECT", k)
    <2>6. lobbyTasks' = Append(lobbyTasks, n)
      BY <1>4, <2>1 DEF CompleteSessionIO
    <2>11. n.type = "DISCONNECT" /\ n.key = k /\ n \in LobbyTask
      BY <2>5
    <2> HIDE DEF n
    <2>7. Posting(<<n>>) /\ TasksOf(<<n>>) = {n}
      BY <2>6, <2>11, PostOne DEF Typed
    <2>8. Noticed(k)'
      BY <2>7, <2>11, NewNotice DEF Typed
    <2>9. LeaversSit'
      <3>1. \A j \in Key : LeavesRoom(j)' => LeavesRoom(j)
        BY <2>2, <2>3, <2>4 DEF LeavesRoom, Disconnecting, Found
      <3>2. \A r \in RoomKeys : \A j : Sits(r, j)' <=> Sits(r, j)
        BY <1>1, SitsStays
      <3> QED
        BY <3>1, <3>2 DEF Ended, LeaversSit
    <2>10. ASSUME NEW j \in Key, Closing(j)' PROVE Noticed(j)' \/ Dismissed(j)'
      <3>1. j = k \/ Closing(j)
        BY <2>1, <2>2, <2>3, <2>4, <2>10 DEF Closing, Found
      <3>2. CASE Closing(j) /\ Noticed(j)
        BY <1>2, <2>7, <2>10, <3>2, NoticedStays DEF Noticed, NoticesKept, Typed
      <3>3. CASE Closing(j) /\ Dismissed(j)
        BY <1>1, <3>3, SitsStays DEF Dismissed, Removing, InTable
      <3> QED
        BY <2>8, <3>1, <3>2, <3>3 DEF Ended, Pursued
    <2> QED
      BY <1>2, <2>9, <2>10 DEF Ended, Pursued
  <1> QED
    BY <1>3, <1>4

\* A thread takes a task from the queue.
LEMMA DequeueEnds ==
  ASSUME Typed, Ended, NEW t \in LobbyThreads, DequeueLobbyTask(t)
  PROVE  Ended'
  <1>1. UNCHANGED <<sess, rooms, roomAt>> /\ lpc[t] = "idle" /\ lobbyTasks' = Tail(lobbyTasks)
    BY DEF DequeueLobbyTask, sessVars
  <1>2. lpc'[t] = "task" /\ ltask'[t] = Head(lobbyTasks)
        /\ \A u \in LobbyThreads \ {t} : lpc'[u] = lpc[u] /\ ltask'[u] = ltask[u]
    BY DEF DequeueLobbyTask, Typed, ThreadOK
  <1>3. NoticesHeld'
    BY <1>2, HeldBy
  <1>4. lobbyTasks \in Seq(LobbyTask) /\ lobbyTasks # <<>>
    <2>1. claim > 0 /\ claim \in 0..Len(lobbyTasks) /\ lobbyTasks \in Seq(LobbyTask)
      BY DEF DequeueLobbyTask, Typed, QueueOK
    <2> QED
      BY <2>1, EmptySeq
  <1>5. TasksOf(lobbyTasks) = {Head(lobbyTasks)} \cup TasksOf(lobbyTasks')
    BY <1>1, <1>4, HeadOrTail
  <1>6. ASSUME NEW k, Noticed(k) PROVE Noticed(k)'
    <2>1. PICK task \in LobbyTasksInFlight : task.type = "DISCONNECT" /\ task.key = k
      BY <1>6 DEF Noticed
    <2>2. task # ltask[t]
      BY <1>1, <2>1 DEF Ended, NoticesHeld
    <2>3. task \in TasksOf(lobbyTasks') \/ \E u \in LobbyThreads : task = ltask'[u]
      BY <1>2, <1>5, <2>1, <2>2 DEF LobbyTasksInFlight
    <2> QED
      BY <2>1, <2>3 DEF Noticed, LobbyTasksInFlight
  <1>7. \A k : Dismissed(k) => Dismissed(k)'
    BY <1>1, SitsStays DEF Dismissed, Removing, InTable
  <1>8. EndsStay
    BY <1>1, EndsSame
  <1>9. LeaversSit'
    BY <1>1, <1>8, SitsStays DEF Ended, LeaversSit, EndsStay
  <1>10. Pursued'
    BY <1>6, <1>7, <1>8 DEF Ended, Pursued, EndsStay
  <1> QED
    BY <1>3, <1>9, <1>10 DEF Ended

\* A thread is done with a task, or goes on with one, that ends no session.
LEMMA OtherTask ==
  ASSUME Typed, Ended, NEW t \in LobbyThreads, NEW p \in {"forget", "enter"}, DoneLobby(t) \/ GotoLobby(t, p),
         ltask[t].type # "DISCONNECT"
  PROVE  NoticesHeld' /\ NoticesKept
  <1>1. \A u \in LobbyThreads \ {t} : lpc'[u] = lpc[u] /\ ltask'[u] = ltask[u]
    BY DoneOthers DEF Typed
  <1>2. ltask'[t].type # "DISCONNECT"
    BY DEF DoneLobby, GotoLobby, NoTask, Typed, ThreadOK
  <1>3. NoticesHeld'
    BY <1>1, <1>2, HeldBy
  <1> QED
    BY <1>1, <1>3 DEF NoticesKept, NoticeKept

LEMMA SomePosted ==
  ASSUME QueueOK, UNCHANGED lobbyTasks \/ \E x \in LobbyTask : lobbyTasks' = Append(lobbyTasks, x)
  PROVE  \E q : Posting(q)
  BY PostNothing, PostOne

\* A task for a room is posted.
LEMMA QueuedAsks ==
  ASSUME RoomsOK, NEW r \in RoomKeys, NEW task \in RoomTask, rooms' = AddRoomTask(rooms, r, task)
  PROVE  AsksKept /\ (\A q \in RoomKeys : rooms'[q].seats = rooms[q].seats) /\ task \in TasksOf(rooms'[r].tasks)
  <1> DEFINE v == [rooms[r] EXCEPT !.tasks = Append(rooms[r].tasks, task)]
  <1>1. rooms' = [rooms EXCEPT ![r] = v]
    BY DEF AddRoomTask
  <1>2. v.tasks = Append(rooms[r].tasks, task) /\ v.seats = rooms[r].seats /\ rooms[r].tasks \in Seq(RoomTask)
    BY DEF RoomsOK, Room
  <1> HIDE DEF v
  <1>3. rooms'[r] = v /\ \A q \in RoomKeys \ {r} : rooms'[q] = rooms[q]
    BY <1>1 DEF RoomsOK
  <1>4. AsksKept
    BY <1>1, <1>2, AsksStay
  <1>5. task \in TasksOf(v.tasks)
    BY <1>2, QueueFacts
  <1>6. \A q \in RoomKeys : rooms'[q].seats = rooms[q].seats
    BY <1>2, <1>3
  <1> QED
    BY <1>3, <1>4, <1>5, <1>6

LEMMA JoinEnds ==
  ASSUME Typed, NEW k \in Key, NEW r \in RoomKeys, NEW match \in BOOLEAN, JoinTask(r, k, match)
  PROVE  AsksKept /\ (\A q \in RoomKeys : rooms'[q].seats = rooms[q].seats) /\ \E q : Posting(q)
  <1>1. CASE rooms' = AddRoomTask(rooms, r, [RTask("JOIN", k) EXCEPT !.match = match]) /\ UNCHANGED lobbyTasks
    <2>1. [RTask("JOIN", k) EXCEPT !.match = match] \in RoomTask
      BY RoomTaskTypes
    <2> QED
      BY <1>1, <2>1, QueuedAsks, SomePosted DEF Typed
  <1>2. CASE UNCHANGED rooms /\ lobbyTasks' = Append(lobbyTasks, TransitionResult(k, FALSE, match))
    <2>1. TransitionResult(k, FALSE, match) \in LobbyTask
      BY TaskTypes
    <2>2. AsksKept
      BY <1>2 DEF AsksKept, Removing
    <2> QED
      BY <1>2, <2>1, <2>2, SomePosted DEF Typed
  <1> QED
    BY <1>1, <1>2 DEF JoinTask, JoinRefused

LEMMA QueueEnds ==
  ASSUME Typed, Ended, NEW t \in LobbyThreads,
         AddSession(t) \/ ForgetSession(t) \/ RemoveActiveSession(t) \/ ReturnToLobby(t)
  PROVE  Ended'
  <1>1. UNCHANGED <<sess, roomAt>>
    BY DEF AddSession, ForgetSession, RemoveActiveSession, ReturnToLobby, sessVars
  <1>2. DoneLobby(t) \/ GotoLobby(t, "forget")
    BY DEF AddSession, ForgetSession, RemoveActiveSession, ReturnToLobby
  <1>3. ltask[t].type # "DISCONNECT"
    BY DEF AddSession, ForgetSession, RemoveActiveSession, ReturnToLobby, Ended, NoticesHeld
  <1>4. NoticesHeld' /\ NoticesKept
    BY <1>2, <1>3, OtherTask
  <1>5. AsksKept /\ (\A q \in RoomKeys : rooms'[q].seats = rooms[q].seats) /\ \E q : Posting(q)
    <2>1. CASE UNCHANGED <<rooms, lobbyTasks>>
      BY <2>1, SomePosted DEF Typed, AsksKept, Removing
    <2>2. CASE ReturnToLobby(t)
      <3>1. ltask[t].key \in Key
        BY <2>2, ThreadKey DEF ReturnToLobby, Typed
      <3> QED
        BY <2>1, <2>2, <3>1, JoinEnds DEF ReturnToLobby
    <2> QED
      BY <2>1, <2>2 DEF AddSession, ForgetSession, RemoveActiveSession
  <1>6. EndsStay
    BY <1>1, EndsSame
  <1>7. \A r \in RoomKeys, k \in Key : InTable(r) /\ Sits(r, k) => InTable(r)'
    BY <1>1 DEF InTable
  <1> QED
    BY <1>4, <1>5, <1>6, <1>7, EndedRest

\* The lobby takes sessions back, and visits them.
LEMMA VisitEnds ==
  ASSUME Typed, Owned, Ended, NEW t \in LobbyThreads,
         EnterLobby(t) \/ ActivateEntry(t) \/ EndVisit(t) \/ \E s \in Slots : VisitSession(t, s)
  PROVE  Ended'
  <1>1. UNCHANGED <<rooms, roomAt>>
    BY DEF EnterLobby, ActivateEntry, EndVisit, VisitSession
  <1>2. lpc[t] # "idle" => ltask[t] \in LobbyTask /\ ltask[t].key[1] \in Slots
    BY ThreadKey DEF Typed
  <1>3. ltask[t].type # "DISCONNECT"
    BY DEF EnterLobby, ActivateEntry, EndVisit, VisitSession, Ended, NoticesHeld
  <1>4. NoticesHeld' /\ NoticesKept
    <2>1. CASE DoneLobby(t) \/ GotoLobby(t, "enter")
      BY <1>3, <2>1, OtherTask
    <2>2. ASSUME NEW s \in Slots, VisitSession(t, s) PROVE NoticesHeld' /\ NoticesKept
      <3>1. Occupant(s) \in Key
        BY OccupantKey DEF Typed
      <3>2. LTask("VISIT", Occupant(s)).type = "VISIT"
        BY <3>1, TaskTypes DEF LobbyTaskType
      <3>3. ltask'[t].type # "DISCONNECT" /\ \A u \in LobbyThreads \ {t} : lpc'[u] = lpc[u] /\ ltask'[u] = ltask[u]
        BY <2>2, <3>2 DEF VisitSession, Typed, ThreadOK
      <3> QED
        BY <1>3, <3>3, HeldBy DEF NoticesKept, NoticeKept
    <2> QED
      BY <2>1, <2>2 DEF EnterLobby, ActivateEntry, EndVisit
  <1>5. EndsStay
    <2>1. CASE UNCHANGED sess \/ \E s \in Slots, b \in BOOLEAN : sess' = [sess EXCEPT ![s].right = b]
      BY <2>1, EndsSame DEF Typed
    <2>2. CASE EnterLobby(t)
      <3>1. PICK k \in Key : k = ltask[t].key /\ k[1] \in Slots
        BY <2>2, ThreadKey DEF Typed, EnterLobby
      <3>2. CASE IsActive(k) /\ sess' = [sess EXCEPT ![k[1]] = [@ EXCEPT !.right = TRUE, !.mode = "LOBBY", !.room = NoIndex]]
        <4> DEFINE x == [sess[k[1]] EXCEPT !.right = TRUE, !.mode = "LOBBY", !.room = NoIndex]
        <4>1. sess[k[1]] \in Session
          BY <3>1 DEF Typed, SessOK
        <4>2. x.life = "ACTIVE" /\ sess' = [sess EXCEPT ![k[1]] = x]
          BY <3>2, <4>1 DEF Session, IsActive
        <4> HIDE DEF x
        <4>3. sess'[k[1]].life = "ACTIVE" /\ \A q \in Slots \ {k[1]} : sess'[q] = sess[q]
          BY <3>1, <4>2, RightIn DEF Typed
        <4> QED
          BY <3>1, <4>3, EndsAt
      <3> QED
        BY <2>1, <2>2, <3>1, <3>2 DEF EnterLobby
    <2> QED
      BY <1>2, <2>1, <2>2 DEF ActivateEntry, EndVisit, VisitSession
  <1>6. \E q : Posting(q)
    <2>1. lpc[t] # "idle" /\ lobbyTasks' = Requeued(ltask[t]) => \E x \in LobbyTask : lobbyTasks' = Append(lobbyTasks, x)
      BY <1>2 DEF Requeued
    <2> QED
      BY <2>1, SomePosted DEF EnterLobby, ActivateEntry, EndVisit, VisitSession, Typed
  <1> QED
    BY <1>1, <1>4, <1>5, <1>6, RoomsRest, EndedRest DEF Typed

LEMMA RequestEnds ==
  ASSUME Typed, Ended, NEW t \in LobbyThreads, LobbyRequest(t)
  PROVE  Ended'
  <1>1. Visiting(t) /\ lpc[t] = "visit" /\ UNCHANGED <<roomAt, lpc, ltask>>
    BY DEF LobbyRequest, Login, RequestCreate, RequestJoin, DisconnectInLobby, Transition, Visiting, threadVars
  <1>2. PICK k \in Key : k = ltask[t].key /\ k[1] \in Slots
    BY <1>1, ThreadKey DEF Typed
  <1>3. NoticesHeld' /\ NoticesKept
    BY <1>1, ThreadsRest
  <1>4. IsActive(k) /\ sess[k[1]].mode # "ROOM" /\ sess[k[1]] \in Session
    BY <1>1, <1>2 DEF Visiting, InLobby, Typed, SessOK
  <1>5. EndsStay
    <2>1. CASE UNCHANGED sess
      BY <2>1, EndsSame
    <2>2. ASSUME NEW x, sess' = [sess EXCEPT ![k[1]] = x],
                 x.life = "ACTIVE" \/ (x.life = "DISCONNECT_PENDING" /\ x.mode # "ROOM" /\ x.id = sess[k[1]].id)
          PROVE  EndsStay
      <3>1. sess'[k[1]] = x /\ \A q \in Slots \ {k[1]} : sess'[q] = sess[q]
        BY <1>2, <2>2, RightIn DEF Typed
      <3> QED
        BY <1>2, <2>2, <3>1, EndsAt
    <2>3. CASE Login(t)
      <3> DEFINE x == [sess[k[1]] EXCEPT !.mode = "LOBBY"]
      <3>1. x.life = "ACTIVE" /\ sess' = [sess EXCEPT ![k[1]] = x]
        BY <1>2, <1>4, <2>3 DEF Login, IsActive, Session
      <3> HIDE DEF x
      <3> QED
        BY <2>2, <3>1
    <2>4. CASE DisconnectInLobby(t)
      <3> DEFINE x == [sess[k[1]] EXCEPT !.life = "DISCONNECT_PENDING"]
      <3>1. x.life = "DISCONNECT_PENDING" /\ x.mode # "ROOM" /\ x.id = sess[k[1]].id /\ sess' = [sess EXCEPT ![k[1]] = x]
        BY <1>2, <1>4, <2>4 DEF DisconnectInLobby, BeginDisconnect, Session
      <3> HIDE DEF x
      <3> QED
        BY <2>2, <3>1
    <2> QED
      BY <2>1, <2>3, <2>4 DEF LobbyRequest, RequestCreate, RequestJoin, sessVars
  <1>6. AsksKept /\ (\A q \in RoomKeys : rooms'[q].seats = rooms[q].seats) /\ \E q : Posting(q)
    <2>1. CASE UNCHANGED <<rooms, lobbyTasks>>
      BY <2>1, SomePosted DEF Typed, AsksKept, Removing
    <2>2. ASSUME NEW r \in RoomKeys, NEW match \in BOOLEAN, RequestJoin(t, r, match)
          PROVE  AsksKept /\ (\A q \in RoomKeys : rooms'[q].seats = rooms[q].seats) /\ \E q : Posting(q)
      BY <1>2, <2>2, JoinEnds DEF RequestJoin
    <2> QED
      BY <2>1, <2>2 DEF LobbyRequest, Login, RequestCreate, DisconnectInLobby
  <1>7. \A r \in RoomKeys, j \in Key : InTable(r) /\ Sits(r, j) => InTable(r)'
    BY <1>1 DEF InTable
  <1> QED
    BY <1>3, <1>5, <1>6, <1>7, EndedRest

\* A DISCONNECT task is taken up, or put back.
LEMMA BeginEnds ==
  ASSUME Typed, Ended, NEW t \in LobbyThreads, BeginFinalize(t)
  PROVE  Ended'
  <1>1. UNCHANGED <<rooms, roomAt>> /\ lpc[t] = "task"
    BY DEF BeginFinalize
  <1>2. PICK k \in Key : k = ltask[t].key /\ k[1] \in Slots /\ ltask[t] \in LobbyTask /\ ltask[t].type = "DISCONNECT"
    BY <1>1, ThreadKey DEF BeginFinalize, Typed
  <1>3. EndsStay
    <2>1. UNCHANGED sess \/ \E s \in Slots, b \in BOOLEAN : sess' = [sess EXCEPT ![s].right = b]
      BY <1>2 DEF BeginFinalize
    <2> QED
      BY <2>1, EndsSame DEF Typed
  <1>4. \E q : Posting(q)
    BY <1>2, SomePosted DEF BeginFinalize, Requeued, Typed
  <1>5. NoticesHeld' /\ NoticesKept
    <2>1. CASE GotoLobby(t, "finalize")
      <3>1. lpc'[t] = "finalize" /\ ltask'[t] = ltask[t]
            /\ \A u \in LobbyThreads \ {t} : lpc'[u] = lpc[u] /\ ltask'[u] = ltask[u]
        BY <2>1, DoneOthers DEF Typed
      <3> QED
        BY <3>1, HeldBy DEF NoticesKept, NoticeKept
    <2>2. CASE DoneLobby(t) /\ lobbyTasks' = Requeued(ltask[t])
      <3>1. NoticesHeld' /\ \A u \in LobbyThreads \ {t} : ltask'[u] = ltask[u]
        BY <2>2, DoneHeld
      <3>2. Posting(<<ltask[t]>>) /\ TasksOf(<<ltask[t]>>) = {ltask[t]}
        BY <1>2, <2>2, PostOne DEF Typed, Requeued
      <3>3. Noticed(k)'
        BY <1>2, <3>2, NewNotice DEF Typed
      <3>4. NoticeKept(t)
        BY <1>2, <3>3 DEF NoticeKept
      <3> QED
        BY <3>1, <3>4 DEF NoticesKept, NoticeKept
    <2>3. CASE DoneLobby(t) /\ UNCHANGED sess /\ ~(Found(k) /\ sess[k[1]].life = "DISCONNECTING")
      <3>1. NoticesHeld' /\ \A u \in LobbyThreads \ {t} : ltask'[u] = ltask[u]
        BY <2>3, DoneHeld
      <3>2. ~Closing(k)'
        BY <2>3 DEF Closing, Found
      <3>3. NoticeKept(t)
        BY <1>2, <3>2 DEF NoticeKept
      <3> QED
        BY <3>1, <3>3 DEF NoticesKept, NoticeKept
    <2> QED
      BY <1>2, <2>1, <2>2, <2>3 DEF BeginFinalize
  <1> QED
    BY <1>1, <1>3, <1>4, <1>5, RoomsRest, EndedRest DEF Typed

\* Leaving ROOM mode begins no end of a session.
LEMMA LeftEnds ==
  ASSUME SessOK, NEW k \in Key,
         \/ sess' = AfterRoomDisconnect(sess, k)
         \/ sess' = AfterRoomDisconnect([sess EXCEPT ![k[1]].right = FALSE], k)
  PROVE  EndsStay /\ ~LeavesRoom(k)'
  <1> DEFINE s == k[1]
             R == [sess EXCEPT ![s].right = FALSE]
  <1>1. s \in Slots /\ sess[s] \in Session
    BY KeyFacts DEF SessOK
  <1>2. /\ \A q \in Slots : R[q].id = sess[q].id /\ R[q].life = sess[q].life /\ R[q].mode = sess[q].mode
        /\ R[s] \in Session /\ \A q \in Slots \ {s} : R[q] = sess[q] /\ DOMAIN R = Slots
    <2> DEFINE y == [sess[s] EXCEPT !.right = FALSE]
    <2>1. y \in Session /\ y.id = sess[s].id /\ y.life = sess[s].life /\ y.mode = sess[s].mode
      BY <1>1 DEF Session
    <2>2. R = [sess EXCEPT ![s] = y]
      OBVIOUS
    <2> HIDE DEF y
    <2> QED
      BY <1>1, <2>1, <2>2 DEF SessOK
  <1>3. PICK S : S \in {sess, R} /\ sess' = AfterRoomDisconnect(S, k)
    OBVIOUS
  <1>4. /\ \A q \in Slots : S[q].id = sess[q].id /\ S[q].life = sess[q].life /\ S[q].mode = sess[q].mode
        /\ S[s] \in Session /\ DOMAIN S = Slots
    BY <1>1, <1>2, <1>3 DEF SessOK
  <1> HIDE DEF R
  <1>5. /\ \A q \in Slots : sess'[q].id = sess[q].id /\ sess'[q].life = sess[q].life
        /\ \A q \in Slots \ {s} : sess'[q].mode = sess[q].mode
        /\ sess'[s].mode = IF LeavesRoom(k) THEN "NONE" ELSE sess[s].mode
    <2>1. CASE LeavesRoom(k)
      <3> DEFINE x == [S[s] EXCEPT !.mode = "NONE", !.room = NoIndex]
      <3>1. x.id = S[s].id /\ x.life = S[s].life /\ x.mode = "NONE" /\ sess' = [S EXCEPT ![s] = x]
        BY <1>3, <1>4, <2>1 DEF AfterRoomDisconnect, Session
      <3> HIDE DEF x
      <3>2. sess'[s] = x /\ \A q \in Slots \ {s} : sess'[q] = S[q]
        BY <1>1, <1>4, <3>1
      <3> QED
        BY <1>4, <2>1, <3>1, <3>2
    <2>2. CASE ~LeavesRoom(k)
      <3>1. sess' = S
        BY <1>3, <2>2 DEF AfterRoomDisconnect
      <3>2. \A q \in Slots : sess'[q] = S[q]
        BY <3>1
      <3> HIDE DEF s
      <3> QED
        BY <1>1, <1>4, <2>2, <3>2
    <2> QED
      BY <2>1, <2>2
  <1>6. EndsStay
    BY <1>5, KeyFacts DEF EndsStay, Closing, LeavesRoom, Disconnecting, Found
  <1>7. ~LeavesRoom(k)'
    BY <1>1, <1>5 DEF LeavesRoom, Disconnecting, Found
  <1> QED
    BY <1>6, <1>7

\* The thread that finalizes has the connection of its task before it, or none that ends.
LEMMA FinalizeEnds ==
  ASSUME Typed, Sorted, Owned, Placed, Ended, NEW t \in LobbyThreads, FinalizeInRoom(t)
  PROVE  Ended'
  <1>1. lpc[t] = "finalize" /\ DoneLobby(t) /\ UNCHANGED roomAt
    BY DEF FinalizeInRoom
  <1>2. PICK j \in Key : j = ltask[t].key /\ j[1] \in Slots /\ ltask[t] \in LobbyTask /\ ltask[t].type = "DISCONNECT"
    BY <1>1, ThreadKey DEF Typed, Sorted
  <1>3. PICK k \in Key : k = Occupant(j[1]) /\ k[1] = j[1]
    BY <1>2, OccupantKey DEF Typed
  <1>4. Closing(j) => j = k
    <2>1. Closing(j) => j[2] = k[2]
      BY <1>2, <1>3, OccupantKey DEF Closing, Found, Typed
    <2> QED
      BY <1>3, <2>1, KeyFacts
  <1>5. NoticesHeld' /\ \A u \in LobbyThreads \ {t} : ltask'[u] = ltask[u]
    BY <1>1, DoneHeld
  <1>6. \A r \in RoomKeys, i \in Key : InTable(r) /\ Sits(r, i) => InTable(r)'
    BY <1>1 DEF InTable
  <1>7. Closing(j) => \E r \in RoomKeys : Sits(r, j) /\ roomAt[sess[j[1]].room] = r
    <2>1. SUFFICES ASSUME Closing(j) PROVE \E r \in RoomKeys : Sits(r, j) /\ roomAt[sess[j[1]].room] = r
      OBVIOUS
    <2>2. LeavesRoom(j)
      BY <1>2, <2>1 DEF FinalizeInRoom, LeavesRoom, Disconnecting, Closing
    <2>3. PICK r \in RoomKeys : Sits(r, j)
      BY <2>2 DEF Ended, LeaversSit
    <2>4. sess[j[1]].room = rooms[r].index
      BY <2>3 DEF Placed, SeatsHere, InRoom
    <2>5. Used(r) /\ rooms[r].state # "DELETE_POST"
      BY <2>3, SeatOf DEF Typed
    <2>6. roomAt[rooms[r].index] = r
      BY <2>5 DEF Placed, TableHere
    <2> QED
      BY <2>3, <2>4, <2>6
  <1>8. CASE sess' = [sess EXCEPT ![j[1]].right = FALSE] /\ UNCHANGED lobbyTasks /\ roomAt[sess[j[1]].room] # NoRoom
             /\ rooms' = AddRoomTask(rooms, roomAt[sess[j[1]].room], RTask("REMOVE_PLAYER", k))
    <2>1. sess[j[1]].room \in RoomIndices
      BY <1>2 DEF FinalizeInRoom, Typed, SessOK
    <2>2. PICK r \in RoomKeys : r = roomAt[sess[j[1]].room]
      BY <1>8, <2>1 DEF Typed, TableOK
    <2>3. RTask("REMOVE_PLAYER", k) \in RoomTask
      BY RoomTaskTypes
    <2> DEFINE x == RTask("REMOVE_PLAYER", k)
    <2>9. x \in RoomTask /\ rooms' = AddRoomTask(rooms, r, x)
      BY <1>8, <2>2, <2>3
    <2> HIDE DEF x
    <2>4. AsksKept /\ (\A q \in RoomKeys : rooms'[q].seats = rooms[q].seats) /\ x \in TasksOf(rooms'[r].tasks)
      BY <2>9, QueuedAsks DEF Typed
    <2>5. EndsStay
      BY <1>2, <1>8, EndsSame DEF Typed
    <2>6. Closing(j)' => Dismissed(j)'
      <3>1. SUFFICES ASSUME Closing(j) PROVE Dismissed(j)'
        BY <2>5 DEF EndsStay
      <3>2. Sits(r, j) /\ j = k
        BY <1>4, <1>7, <2>2, <3>1
      <3>3. Sits(r, j)' /\ Removing(r, j)'
        BY <2>4, <3>2, SitsStays DEF Removing, x
      <3>4. InTable(r)'
        BY <1>1, <2>1, <2>2 DEF InTable
      <3> QED
        BY <3>3, <3>4 DEF Dismissed
    <2>7. NoticesKept
      BY <1>2, <1>5, <2>6 DEF NoticesKept, NoticeKept
    <2>8. \E q : Posting(q)
      BY <1>8, SomePosted DEF Typed
    <2> QED
      BY <1>5, <1>6, <2>4, <2>5, <2>7, <2>8, EndedRest
  <1>9. CASE sess' = [sess EXCEPT ![j[1]].right = FALSE] /\ lobbyTasks' = Requeued(ltask[t]) /\ UNCHANGED rooms
    <2>1. Posting(<<ltask[t]>>) /\ TasksOf(<<ltask[t]>>) = {ltask[t]}
      BY <1>2, <1>9, PostOne DEF Typed, Requeued
    <2>2. Noticed(j)'
      BY <1>2, <2>1, NewNotice DEF Typed
    <2>3. NoticesKept
      BY <1>2, <1>5, <2>2 DEF NoticesKept, NoticeKept
    <2>4. EndsStay
      BY <1>2, <1>9, EndsSame DEF Typed
    <2> QED
      BY <1>1, <1>5, <1>9, <2>1, <2>3, <2>4, RoomsRest, EndedRest DEF Typed
  <1>10. CASE /\ roomAt[sess[j[1]].room] = NoRoom /\ UNCHANGED rooms /\ lobbyTasks' = lobbyTasks \o RoomDisconnectNotice(k)
              /\ sess' = AfterRoomDisconnect([sess EXCEPT ![j[1]].right = FALSE], k)
    <2>1. Posting(RoomDisconnectNotice(k))
      BY <1>10, NoticePosted DEF Posting
    <2>2. ~Closing(j)
      BY <1>7, <1>10, NamesAssumption
    <2>3. EndsStay
      BY <1>3, <1>10, LeftEnds DEF Typed
    <2>4. NoticesKept
      BY <1>2, <1>5, <2>2, <2>3 DEF NoticesKept, NoticeKept, EndsStay
    <2> QED
      BY <1>1, <1>5, <1>10, <2>1, <2>3, <2>4, RoomsRest, EndedRest DEF Typed
  <1> QED
    BY <1>2, <1>3, <1>8, <1>9, <1>10 DEF FinalizeInRoom

\* The finalization of a session outside a room.
LEMMA OutsideEnds ==
  ASSUME Typed, Sorted, Ended, NEW t \in LobbyThreads, FinalizeOutsideRoom(t)
  PROVE  Ended'
  <1>1. lpc[t] = "finalize" /\ UNCHANGED <<rooms, roomAt, lobbyTasks>>
    BY DEF FinalizeOutsideRoom
  <1>2. PICK j \in Key : j = ltask[t].key /\ j[1] \in Slots /\ ltask[t] \in LobbyTask /\ ltask[t].type = "DISCONNECT"
    BY <1>1, ThreadKey DEF Typed, Sorted
  <1>3. PICK k \in Key : k = Occupant(j[1]) /\ k[1] = j[1] /\ k[2] = sess[j[1]].id
    BY <1>2, OccupantKey DEF Typed
  <1>4. \A u \in LobbyThreads \ {t} : lpc'[u] = lpc[u] /\ ltask'[u] = ltask[u]
    BY DEF FinalizeOutsideRoom, Typed, ThreadOK
  <1>5. lpc'[t] = "free" /\ ltask'[t].type = "DISCONNECT" /\ ltask'[t].key = k
    <2> DEFINE x == [ltask[t] EXCEPT !.key = k]
    <2>1. x.type = "DISCONNECT" /\ x.key = k
      BY <1>2 DEF LobbyTask
    <2>2. ltask' = [ltask EXCEPT ![t] = x]
      BY <1>2, <1>3 DEF FinalizeOutsideRoom
    <2> HIDE DEF x
    <2> QED
      BY <2>1, <2>2 DEF FinalizeOutsideRoom, Typed, ThreadOK
  <1>6. NoticesHeld'
    BY <1>4, <1>5, HeldBy
  <1>7. EndsStay
    BY <1>2, EndsSame DEF FinalizeOutsideRoom, Typed
  <1>8. Closing(j)' => j = k
    <2>1. Closing(j)' => j[2] = k[2]
      BY <1>2, <1>3, <1>7 DEF EndsStay, Closing, Found
    <2> QED
      BY <1>3, <2>1, KeyFacts
  <1>9. Noticed(k)'
    BY <1>5 DEF Noticed, LobbyTasksInFlight
  <1>10. NoticesKept
    BY <1>2, <1>4, <1>8, <1>9 DEF NoticesKept, NoticeKept
  <1>11. \E q : Posting(q)
    BY <1>1, SomePosted DEF Typed
  <1> QED
    BY <1>1, <1>6, <1>7, <1>10, <1>11, RoomsRest, EndedRest DEF Typed

\* The slot is free: there is no session to end any more.
LEMMA FreeEnds ==
  ASSUME Typed, Ended, NEW t \in LobbyThreads, FreeSlot(t)
  PROVE  Ended'
  <1>1. lpc[t] = "free" /\ UNCHANGED <<rooms, roomAt, lobbyTasks>> /\ DoneLobby(t)
    BY DEF FreeSlot
  <1>2. PICK j \in Key : j = ltask[t].key /\ j[1] \in Slots
    BY <1>1, ThreadKey DEF Typed
  <1>3. NoticesHeld' /\ \A u \in LobbyThreads \ {t} : ltask'[u] = ltask[u]
    BY <1>1, DoneHeld
  <1>4. EndsStay /\ ~Closing(j)'
    <2>1. CASE Closing(j)
      <3> DEFINE x == [EmptySession EXCEPT !.right = sess[j[1]].right]
      <3>1. x.life = "NONE" /\ sess' = [sess EXCEPT ![j[1]] = x]
        BY <1>2, <2>1 DEF FreeSlot, Closing, Found, EmptySession
      <3> HIDE DEF x
      <3>2. sess'[j[1]].life = "NONE" /\ \A q \in Slots \ {j[1]} : sess'[q] = sess[q]
        BY <1>2, <3>1, RightIn DEF Typed
      <3>3. EndsStay
        BY <1>2, <3>2, EndsAt
      <3> QED
        BY <3>2, <3>3 DEF Closing, Found
    <2>2. CASE ~Closing(j)
      <3>1. UNCHANGED sess
        BY <1>2, <2>2 DEF FreeSlot, Closing, Found
      <3> QED
        BY <2>2, <3>1, EndsSame DEF Closing, Found
    <2> QED
      BY <2>1, <2>2
  <1>5. NoticesKept
    BY <1>2, <1>3, <1>4 DEF NoticesKept, NoticeKept
  <1>6. \E q : Posting(q)
    BY <1>1, SomePosted DEF Typed
  <1> QED
    BY <1>1, <1>3, <1>4, <1>5, <1>6, RoomsRest, EndedRest DEF Typed

\* The phases of the lobby.
LEMMA PhaseEnds ==
  ASSUME Typed, Ended, StartLobbyPhase \/ EndLobbyTasks \/ UNCHANGED vars
  PROVE  Ended'
  <1>1. UNCHANGED <<sess, rooms, roomAt, lobbyTasks, lpc, ltask>>
    BY DEF StartLobbyPhase, EndLobbyTasks, vars, sessVars, threadVars
  <1>2. EndsStay /\ NoticesHeld' /\ NoticesKept
    BY <1>1, EndsSame, ThreadsRest
  <1>3. \E q : Posting(q)
    BY <1>1, SomePosted DEF Typed
  <1> QED
    BY <1>1, <1>2, <1>3, RoomsRest, EndedRest DEF Typed

----------------------------------------------------------------------------
(* The game threads' side. *)

\* Only a room that nobody sits in is deleted.
LEMMA DeleteEnds ==
  ASSUME Typed, Placed, Ended, NEW g \in GameThreads, DeleteRoom(g)
  PROVE  Ended'
  <1>1. UNCHANGED <<sess, lobbyTasks, lpc, ltask, rooms>>
    BY DEF DeleteRoom, sessVars, threadVars
  <1>2. PICK i \in RoomIndices : [type |-> "DELETE_ROOM", index |-> i] = Head(lifeTasks)
                                 /\ [type |-> "DELETE_ROOM", index |-> i] \in TasksOf(lifeTasks)
    <2>1. Head(lifeTasks) \in LifecycleTask /\ Head(lifeTasks) \in TasksOf(lifeTasks) /\ Head(lifeTasks).type = "DELETE_ROOM"
      BY QueueFacts DEF DeleteRoom, Typed, GameOK
    <2> QED
      BY <2>1 DEF LifecycleTask
  <1>3. PICK d \in RoomKeys : roomAt[i] = d /\ rooms[d].state = "DELETE_POST"
    BY <1>2 DEF Placed, DeleteHere, DeleteAt
  <1>4. Head(lifeTasks).index = i
    BY <1>2
  <1>5. \A j \in RoomIndices : roomAt'[j] = IF j = i THEN NoRoom ELSE roomAt[j]
    BY <1>4 DEF DeleteRoom, Typed, TableOK
  <1>6. ASSUME NEW r \in RoomKeys, NEW k \in Key, InTable(r), Sits(r, k) PROVE InTable(r)'
    <2>1. r # d
      BY <1>3, <1>6, SeatOf DEF Typed
    <2>2. PICK j \in RoomIndices : roomAt[j] = r
      BY <1>6 DEF InTable
    <2>3. roomAt'[j] = r
      BY <1>3, <1>5, <2>1, <2>2
    <2> QED
      BY <2>3 DEF InTable
  <1>7. EndsStay /\ NoticesHeld' /\ NoticesKept /\ AsksKept /\ \E q : Posting(q)
    BY <1>1, EndsSame, ThreadsRest, SomePosted DEF Typed, AsksKept, Removing
  <1> QED
    BY <1>1, <1>6, <1>7, EndedRest

\* Answers to a creation.
LEMMA AnswerEnds ==
  ASSUME Typed, Ended, NEW g \in GameThreads, BeginCreate(g) \/ RefuseCreate(g) \/ AnswerCreate(g)
  PROVE  Ended'
  <1>1. UNCHANGED <<sess, roomAt, rooms, lpc, ltask>>
    BY DEF BeginCreate, RefuseCreate, AnswerCreate, sessVars, threadVars
  <1>2. EndsStay /\ NoticesHeld' /\ NoticesKept
    BY <1>1, EndsSame, ThreadsRest
  <1>3. \A k \in Key, ok \in BOOLEAN : TransitionResult(k, ok, FALSE) \in LobbyTask
    BY TaskTypes
  <1>4. \E q : Posting(q)
    <2>1. CASE UNCHANGED lobbyTasks
      BY <2>1, SomePosted DEF Typed
    <2>2. CASE BeginCreate(g) /\ lobbyTasks' = CreateRefused(Head(lifeTasks).key)
      <3>1. Head(lifeTasks) \in LifecycleTask /\ Head(lifeTasks).type = "CREATE"
        BY <2>2, QueueFacts DEF BeginCreate, Typed, GameOK
      <3>2. Head(lifeTasks).key \in Key
        BY <3>1 DEF LifecycleTask
      <3> QED
        BY <1>3, <2>2, <3>2, SomePosted DEF CreateRefused, Typed
    <2>3. CASE RefuseCreate(g) \/ AnswerCreate(g)
      <3>1. gkey[g] \in Key
        BY <2>3 DEF Typed, GameOK, RefuseCreate, AnswerCreate
      <3> QED
        BY <1>3, <2>3, <3>1, SomePosted DEF RefuseCreate, AnswerCreate, CreateRefused, Typed
    <2> QED
      BY <2>1, <2>2, <2>3 DEF BeginCreate, RefuseCreate, AnswerCreate
  <1> QED
    BY <1>1, <1>2, <1>4, RoomsRest, EndedRest DEF Typed

\* Whoever sits keeps the seat, and somebody may get one.
LEMMA EndedSeats ==
  ASSUME Typed, Ended, UNCHANGED <<lpc, ltask>>, \A r \in RoomKeys : \A k : Sits(r, k) => Sits(r, k)',
         \A r \in RoomKeys : InTable(r) => InTable(r)',
         AsksKept, EndsStay, NEW q, Posting(q)
  PROVE  Ended'
  <1>1. NoticesHeld' /\ NoticesKept
    BY ThreadsRest
  <1>2. LeaversSit'
    BY DEF Ended, LeaversSit, EndsStay
  <1>3. ASSUME NEW k \in Key, Closing(k)' PROVE Noticed(k)' \/ Dismissed(k)'
    <2>1. Noticed(k) \/ Dismissed(k)
      BY <1>3 DEF Ended, Pursued, EndsStay
    <2>2. CASE Noticed(k)
      BY <1>1, <1>3, <2>2, NoticedStays DEF Noticed, NoticesKept, Typed
    <2>3. CASE Dismissed(k)
      BY <2>3 DEF Dismissed, AsksKept
    <2> QED
      BY <2>1, <2>2, <2>3
  <1> QED
    BY <1>1, <1>2, <1>3 DEF Ended, Pursued

LEMMA CreateEnds ==
  ASSUME Typed, Placed, Ended, NEW g \in GameThreads, NEW r \in RoomKeys, NEW i \in RoomIndices,
         NEW max \in {1, Cardinality(Seats)}, CreateRoom(g, r, i, max)
  PROVE  Ended'
  <1>1. UNCHANGED <<lobbyTasks, lpc, ltask>>
    BY DEF CreateRoom, threadVars
  <1>2. PICK k \in Key : k = gkey[g] /\ k[1] \in Slots
    BY KeyFacts DEF CreateRoom, Typed, GameOK
  <1>3. sess[k[1]].life = "ACTIVE" /\ sess[k[1]] \in Session
    BY <1>2 DEF CreateRoom, IsActive, Typed, SessOK
  <1> DEFINE x == [sess[k[1]] EXCEPT !.mode = "ROOM", !.room = i, !.right = TRUE]
  <1>4. x.life = "ACTIVE" /\ sess' = [sess EXCEPT ![k[1]] = x]
    BY <1>2, <1>3 DEF CreateRoom, Session
  <1> HIDE DEF x
  <1>5. sess'[k[1]] = x /\ \A q \in Slots \ {k[1]} : sess'[q] = sess[q]
    BY <1>2, <1>4, RightIn DEF Typed
  <1>6. EndsStay
    BY <1>2, <1>4, <1>5, EndsAt
  <1>7. rooms' = [rooms EXCEPT ![r] = MadeRoom(i, max, k)] /\ rooms[r] = NewRoom
    BY <1>2, CreateRoomStep DEF Typed
  <1>8. \A q \in RoomKeys \ {r} : rooms'[q] = rooms[q]
    BY <1>7 DEF Typed, RoomsOK
  <1>9. \A j : ~Sits(r, j)
    BY <1>7 DEF Sits, Seated, NewRoom, EmptySeat
  <1>10. \A q \in RoomKeys : \A j : Sits(q, j) => Sits(q, j)'
    BY <1>8, <1>9, SitsStays
  <1>11. AsksKept
    <2>1. \A j : ~Removing(r, j)
      BY <1>7 DEF Removing, NewRoom, TasksOf
    <2> QED
      BY <1>8, <2>1 DEF AsksKept, Removing
  <1>12. ASSUME NEW q \in RoomKeys, InTable(q) PROVE InTable(q)'
    <2>1. PICK j \in RoomIndices : roomAt[j] = q
      BY <1>12 DEF InTable
    <2>2. j # i
      BY <2>1, NamesAssumption DEF CreateRoom
    <2>3. roomAt'[j] = q
      BY <2>1, <2>2 DEF CreateRoom, Typed, TableOK
    <2> QED
      BY <2>3 DEF InTable
  <1>13. \E q : Posting(q)
    BY <1>1, SomePosted DEF Typed
  <1> QED
    BY <1>1, <1>6, <1>10, <1>11, <1>12, <1>13, EndedSeats

LEMMA CompleteEnds ==
  ASSUME Typed, Ended, NEW g \in GameThreads, CompleteRoomInitialization(g)
  PROVE  Ended'
  <1>1. UNCHANGED <<lobbyTasks, lpc, ltask, roomAt>>
    BY DEF CompleteRoomInitialization, threadVars
  <1>2. PICK r \in RoomKeys : r = groom[g] /\ rooms[r].pc = "init" /\ gkey[g][1] \in Slots
    BY KeyFacts DEF CompleteRoomInitialization, Typed, MakersOK, GameOK
  <1> DEFINE v == ReadyRoom(rooms[r])
  <1>3. RoomOK(rooms[r])
    BY DEF Typed, RoomsOK
  <1>4. /\ Taken(v.seats) = {1} /\ v.tasks = rooms[r].tasks
        /\ \A n \in Seats : v.seats[n].key = rooms[r].seats[n].key
    BY <1>2, <1>3, ReadyRoomOK
  <1>5. Taken(rooms[r].seats) = {1}
    BY <1>2, <1>3 DEF RoomOK, LifeOK
  <1>6. rooms' = [rooms EXCEPT ![r] = v]
    BY <1>2, CompleteStep DEF Typed
  <1> HIDE DEF v
  <1>7. rooms'[r] = v /\ \A q \in RoomKeys \ {r} : rooms'[q] = rooms[q]
    BY <1>6 DEF Typed, RoomsOK
  <1>8. ASSUME NEW k, Sits(r, k) PROVE Sits(r, k)'
    <2>1. PICK n \in Seats : n \in Taken(rooms[r].seats) /\ rooms[r].seats[n].key = k
      BY <1>8 DEF Sits, Seated, Taken
    <2>2. n \in Taken(v.seats) /\ v.seats[n].key = k
      BY <1>4, <1>5, <2>1
    <2> QED
      BY <1>7, <2>2 DEF Sits, Seated, Taken
  <1>9. \A q \in RoomKeys : \A k : Sits(q, k) => Sits(q, k)'
    BY <1>7, <1>8, SitsStays
  <1>10. AsksKept
    BY <1>4, <1>6, AsksStay DEF Typed
  <1>11. EndsStay
    BY <1>2, EndsSame DEF Typed, CompleteRoomInitialization
  <1>12. \E q : Posting(q)
    BY <1>1, SomePosted DEF Typed
  <1>13. \A q \in RoomKeys : InTable(q) => InTable(q)'
    BY <1>1 DEF InTable
  <1> QED
    BY <1>1, <1>9, <1>10, <1>11, <1>12, <1>13, EndedSeats

----------------------------------------------------------------------------
(* The rooms' side. *)

LEMMA AfterTail ==
  ASSUME NEW room \in Room
  PROVE  AfterTask(room).tasks = Tail(room.tasks)
  <1> DEFINE pc == IF room.pc = "pending" THEN "claim" ELSE room.pc
             left == room.left - 1
             q == Tail(room.tasks)
  <1>1. AfterTask(room) = [room EXCEPT !.tasks = q, !.left = left, !.pc = pc]
    BY DEF AfterTask
  <1> HIDE DEF q, left, pc
  <1>2. AfterTask(room).tasks = q
    BY <1>1 DEF Room
  <1> QED
    BY <1>2 DEF q

\* A task that asks for no removal leaves the queue.
LEMMA TaskAsks ==
  ASSUME RoomsOK, NEW r \in RoomKeys, AtTask(r), Head(rooms[r].tasks).type # "REMOVE_PLAYER",
         NEW v, v.tasks = AfterTask(rooms[r]).tasks, rooms' = [rooms EXCEPT ![r] = v]
  PROVE  AsksKept
  <1>1. v.tasks = Tail(rooms[r].tasks) /\ rooms[r].tasks # <<>>
    BY AfterTail, AfterTaskOK DEF RoomsOK, AtTask
  <1> QED
    BY <1>1, AsksStay

\* The steps of a room that leave its queue as it is.
LEMMA TickKeeps ==
  ASSUME RoomsOK, NEW r \in RoomKeys,
         BeginTick(r) \/ ClaimTasks(r) \/ KeepPending(r) \/ VisitSeat(r) \/ EndSeatVisit(r) \/ EndRoomTasks(r)
  PROVE  \E v : rooms' = [rooms EXCEPT ![r] = v] /\ v.tasks = rooms[r].tasks
  <1> DEFINE room == rooms[r]
  <1>1. RoomOK(room) /\ room \in Room
    BY DEF RoomsOK
  <1>3. CASE BeginTick(r)
    <2>1. room.pc = "idle" /\ rooms' = [rooms EXCEPT ![r] = BeginPass(room, 1)]
      BY <1>3 DEF BeginTick
    <2> QED
      BY <1>1, <2>1, BeginPassOK
  <1>4. CASE ClaimTasks(r)
    <2> DEFINE v == [room EXCEPT !.pc = "tasks", !.left = Len(room.tasks)]
    <2>1. rooms' = [rooms EXCEPT ![r] = v]
      BY <1>4 DEF ClaimTasks, RoomsOK
    <2>2. v.tasks = room.tasks
      BY <1>1 DEF Room
    <2> QED
      BY <2>1, <2>2
  <1>5. CASE KeepPending(r)
    <2> DEFINE u == EndPass(room)
               v == [u EXCEPT !.left = 1]
    <2>1. room.pc \in {"pending", "tasks"} /\ rooms' = [rooms EXCEPT ![r] = v]
      BY <1>5 DEF KeepPending, AtTask, Kept
    <2>2. RoomOK(u) /\ u.tasks = room.tasks
      BY <1>1, <2>1, EndPassOK
    <2> HIDE DEF u
    <2>3. v.tasks = room.tasks
      BY <2>2 DEF RoomOK, Room
    <2> QED
      BY <2>1, <2>3
  <1>6. CASE VisitSeat(r)
    <2>1. room.pc = "seats"
      BY <1>6 DEF VisitSeat
    <2>2. CASE rooms' = [rooms EXCEPT ![r] = NextSeat(room)]
      <3>1. NextSeat(room).tasks = room.tasks
        BY <1>1, <2>1, NextSeatOK
      <3> QED
        BY <2>2, <3>1
    <2>3. CASE rooms' = [rooms EXCEPT ![r] = Visits(room, SeatKey(r))]
      <3>1. Visits(room, SeatKey(r)).tasks = room.tasks
        BY <1>1 DEF Visits, Room
      <3> QED
        BY <2>3, <3>1
    <2>4. rooms' = [rooms EXCEPT ![r] = NextSeat(room)] \/ rooms' = [rooms EXCEPT ![r] = Visits(room, SeatKey(r))]
      BY <1>6 DEF VisitSeat, RoomsOK, Visits
    <2> QED
      BY <2>2, <2>3, <2>4
  <1>7. CASE EndSeatVisit(r)
    <2> DEFINE u == NextSeat(room)
               v == [u EXCEPT !.held = NoKey]
    <2>1. room.pc = "hold" /\ rooms' = [rooms EXCEPT ![r] = v]
      BY <1>7 DEF EndSeatVisit
    <2>2. RoomOK(u) /\ u.tasks = room.tasks
      BY <1>1, <2>1, NextSeatOK
    <2> HIDE DEF u
    <2>3. v.tasks = room.tasks
      BY <2>2 DEF RoomOK, Room
    <2> QED
      BY <2>1, <2>3
  <1>8. CASE EndRoomTasks(r)
    <2>1. CASE PostsDelete(room)
      <3> DEFINE u == WithState(room, "DELETE_POST")
      <3>1. room.pc = "tasks" /\ rooms' = [rooms EXCEPT ![r] = EndPass(u)]
        BY <1>8, <2>1 DEF EndRoomTasks, WithState
      <3>2. RoomOK(u) /\ u.pc = room.pc /\ u.tasks = room.tasks
        BY <1>1, <2>1, <3>1, StateOK DEF PostsDelete
      <3> HIDE DEF u
      <3>3. EndPass(u).tasks = room.tasks
        BY <3>1, <3>2, EndPassOK
      <3> QED
        BY <3>1, <3>3
    <2>2. CASE ~PostsDelete(room)
      <3>1. room.pc = "tasks" /\ rooms' = [rooms EXCEPT ![r] = EndPass(room)]
        BY <1>8, <2>2 DEF EndRoomTasks
      <3>2. EndPass(room).tasks = room.tasks
        BY <1>1, <3>1, EndPassOK
      <3> QED
        BY <3>1, <3>2
    <2> QED
      BY <2>1, <2>2
  <1> QED
    BY <1>3, <1>4, <1>5, <1>6, <1>7, <1>8

LEMMA PlayKeeps ==
  ASSUME RoomsOK, NEW r \in RoomKeys, PlayTick(r)
  PROVE  \E v : /\ rooms' = [rooms EXCEPT ![r] = v]
               /\ \/ v.tasks = rooms[r].tasks
                  \/ \E x \in RoomTask : x.type = "REMOVE_PLAYER" /\ v.tasks = Append(rooms[r].tasks, x)
  <1> DEFINE room == rooms[r]
  <1>1. room \in Room
    BY DEF RoomsOK
  <1>2. ASSUME NEW st \in {"WAIT", "PLAY"}, rooms' = [rooms EXCEPT ![r].pc = "idle", ![r].state = st]
        PROVE  \E v : rooms' = [rooms EXCEPT ![r] = v] /\ v.tasks = room.tasks
    <2> DEFINE v == [room EXCEPT !.pc = "idle", !.state = st]
    <2>1. rooms' = [rooms EXCEPT ![r] = v]
      BY <1>2 DEF RoomsOK
    <2>2. v.tasks = room.tasks
      BY <1>1 DEF Room
    <2> HIDE DEF v
    <2> QED
      BY <2>1, <2>2
  <1>3. ASSUME NEW n \in Seats, rooms[r].seats[n].state = "ACTIVE",
               rooms' = AddRoomTask([rooms EXCEPT ![r].pc = "idle"], r, RTask("REMOVE_PLAYER", rooms[r].seats[n].key))
        PROVE  \E v : /\ rooms' = [rooms EXCEPT ![r] = v]
                     /\ \E x \in RoomTask : x.type = "REMOVE_PLAYER" /\ v.tasks = Append(room.tasks, x)
    <2> DEFINE task == RTask("REMOVE_PLAYER", rooms[r].seats[n].key)
               u == [room EXCEPT !.pc = "idle"]
               v == [u EXCEPT !.tasks = Append(u.tasks, task)]
    <2>1. u.tasks = room.tasks /\ v.tasks = Append(room.tasks, task)
      BY <1>1 DEF Room
    <2>2. task \in RoomTask /\ task.type = "REMOVE_PLAYER"
      BY <1>3, TakenKey, RoomTaskTypes DEF RTask
    <2>3. rooms' = AddRoomTask([rooms EXCEPT ![r] = u], r, task)
      BY <1>3
    <2> HIDE DEF u, task
    <2>4. rooms' = [rooms EXCEPT ![r] = v]
      <3> DEFINE R == [rooms EXCEPT ![r] = u]
      <3>1. R[r] = u /\ rooms \in [RoomKeys -> Room]
        BY DEF RoomsOK
      <3>2. rooms' = [R EXCEPT ![r] = v]
        BY <2>3, <3>1 DEF AddRoomTask
      <3> QED
        BY <3>1, <3>2
    <2> HIDE DEF v
    <2> QED
      BY <2>1, <2>2, <2>4
  <1> QED
    BY <1>2, <1>3 DEF PlayTick

LEMMA GameKeeps ==
  ASSUME RoomsOK, NEW r \in RoomKeys, ProcessStart(r) \/ ProcessGiveUp(r)
  PROVE  /\ AtTask(r) /\ Head(rooms[r].tasks).type \in {"START", "GIVE_UP"}
         /\ \E v : rooms' = [rooms EXCEPT ![r] = v] /\ v.tasks = AfterTask(rooms[r]).tasks
  <1>1. AtTask(r) /\ Head(rooms[r].tasks).type \in {"START", "GIVE_UP"}
    BY DEF ProcessStart, ProcessGiveUp, TaskReady
  <1> DEFINE u == AfterTask(rooms[r])
  <1>2. RoomOK(u)
    BY <1>1, AfterTaskOK DEF AtTask, RoomsOK
  <1>3. rooms' = [rooms EXCEPT ![r] = u] \/ \E st : rooms' = [rooms EXCEPT ![r] = [u EXCEPT !.state = st]]
    BY DEF ProcessStart, ProcessGiveUp
  <1>4. CASE rooms' = [rooms EXCEPT ![r] = u]
    BY <1>1, <1>4
  <1>5. ASSUME NEW st, rooms' = [rooms EXCEPT ![r] = [u EXCEPT !.state = st]]
        PROVE  \E v : rooms' = [rooms EXCEPT ![r] = v] /\ v.tasks = u.tasks
    <2> DEFINE v == [u EXCEPT !.state = st]
    <2> HIDE DEF u
    <2>1. v.tasks = u.tasks
      BY <1>2 DEF RoomOK, Room
    <2>2. rooms' = [rooms EXCEPT ![r] = v]
      BY <1>5
    <2> HIDE DEF v
    <2> QED
      BY <2>1, <2>2
  <1> QED
    BY <1>1, <1>3, <1>4, <1>5

\* The steps of a tick keep the requests.
LEMMA TickAsks ==
  ASSUME RoomsOK, NEW r \in RoomKeys,
         \/ BeginTick(r) \/ ClaimTasks(r) \/ KeepPending(r) \/ VisitSeat(r) \/ EndSeatVisit(r) \/ EndRoomTasks(r)
         \/ PlayTick(r) \/ ProcessStart(r) \/ ProcessGiveUp(r)
  PROVE  AsksKept
  <1>1. CASE BeginTick(r) \/ ClaimTasks(r) \/ KeepPending(r) \/ VisitSeat(r) \/ EndSeatVisit(r) \/ EndRoomTasks(r)
    BY <1>1, TickKeeps, AsksStay
  <1>2. CASE PlayTick(r)
    BY <1>2, PlayKeeps, AsksStay
  <1>3. CASE ProcessStart(r) \/ ProcessGiveUp(r)
    BY <1>3, GameKeeps, TaskAsks
  <1> QED
    BY <1>1, <1>2, <1>3

\* The steps of a tick that seat and unseat nobody.
LEMMA TickEnds ==
  ASSUME Typed, Ended, NEW r \in RoomKeys,
         \/ BeginTick(r) \/ ClaimTasks(r) \/ KeepPending(r) \/ VisitSeat(r) \/ EndSeatVisit(r) \/ EndRoomTasks(r)
         \/ PlayTick(r) \/ ProcessStart(r) \/ ProcessGiveUp(r)
         \/ \E type \in {"START", "KICK", "GIVE_UP"}, target \in Key \cup {NoKey} : RequestRoomTask(r, type, target)
  PROVE  Ended'
  <1>1. UNCHANGED <<roomAt, lobbyTasks, lpc, ltask>>
    BY DEF BeginTick, ClaimTasks, KeepPending, VisitSeat, EndSeatVisit, EndRoomTasks, PlayTick, ProcessStart,
           ProcessGiveUp, RequestRoomTask, threadVars
  <1>2. NoticesHeld' /\ NoticesKept /\ \E q : Posting(q)
    BY <1>1, ThreadsRest, SomePosted DEF Typed
  <1>3. EndsStay
    <2>1. CASE UNCHANGED sess
      BY <2>1, EndsSame
    <2>2. CASE VisitSeat(r)
      <3>1. SeatKey(r) \in Key => SeatKey(r)[1] \in Slots
        BY KeyFacts
      <3> QED
        BY <2>1, <2>2, <3>1, VisitSeatSteps, EndsSame DEF Typed
    <2>3. CASE EndSeatVisit(r)
      <3>1. rooms[r].held[1] \in Slots
        BY <2>3, EndSeatVisitStep, KeyFacts DEF Typed
      <3> QED
        BY <2>3, <3>1, EndsSame DEF Typed, EndSeatVisit
    <2> QED
      BY <2>1, <2>2, <2>3 DEF BeginTick, ClaimTasks, KeepPending, EndRoomTasks, PlayTick, ProcessStart, ProcessGiveUp,
                              RequestRoomTask, sessVars
  <1>4. AsksKept /\ \A p \in RoomKeys : rooms'[p].seats = rooms[p].seats
    <2>1. ASSUME QuietStep(r) \/ QuietKept(r) PROVE \A p \in RoomKeys : rooms'[p].seats = rooms[p].seats
      BY <2>1, RoomsStayed DEF Typed, RoomsStay, RoomStays
    <2>2. CASE BeginTick(r) \/ ClaimTasks(r) \/ KeepPending(r)
      BY <2>1, <2>2, TickQuiet, TickAsks DEF Typed
    <2>3. CASE VisitSeat(r)
      BY <2>1, <2>3, VisitSeatSteps, TickAsks DEF Typed, QuietStep
    <2>4. CASE EndSeatVisit(r)
      BY <2>1, <2>4, EndSeatVisitStep, TickAsks DEF Typed, QuietStep
    <2>5. CASE PlayTick(r)
      BY <2>1, <2>5, PlayQuiet, TickAsks DEF Typed
    <2>6. CASE ProcessStart(r) \/ ProcessGiveUp(r)
      BY <2>1, <2>6, GameQuiet, TickAsks DEF Typed
    <2>7. CASE EndRoomTasks(r)
      <3>1. AsksKept
        BY <2>7, TickAsks DEF Typed
      <3>2. ASSUME NEW v, Posted(rooms[r], v), rooms' = [rooms EXCEPT ![r] = v]
            PROVE  \A p \in RoomKeys : rooms'[p].seats = rooms[p].seats
        <4>1. rooms'[r] = v /\ (\A p \in RoomKeys \ {r} : rooms'[p] = rooms[p]) /\ v.seats = rooms[r].seats
          BY <3>2 DEF Typed, RoomsOK, Posted
        <4> QED
          BY <4>1
      <3> QED
        BY <2>1, <2>7, <3>1, <3>2, EndRoomTasksStep DEF Typed
    <2>8. ASSUME NEW type \in {"START", "KICK", "GIVE_UP"}, NEW target \in Key \cup {NoKey}, RequestRoomTask(r, type, target)
          PROVE  AsksKept /\ \A p \in RoomKeys : rooms'[p].seats = rooms[p].seats
      <3>1. SeatKey(r) \in Key
        BY <2>8, VisitedKey DEF Typed, RequestRoomTask
      <3>2. [RTask(type, SeatKey(r)) EXCEPT !.target = target] \in RoomTask
        BY <3>1, RoomTaskTypes
      <3> QED
        BY <2>8, <3>2, QueuedAsks DEF Typed, RequestRoomTask
    <2> QED
      BY <2>2, <2>3, <2>4, <2>5, <2>6, <2>7, <2>8
  <1>5. \A p \in RoomKeys, k \in Key : InTable(p) /\ Sits(p, k) => InTable(p)'
    BY <1>1 DEF InTable
  <1> QED
    BY <1>2, <1>3, <1>4, <1>5, EndedRest

\* A player begins its disconnection, in its seat.
LEMMA DisconnectEnds ==
  ASSUME Typed, Ended, NEW r \in RoomKeys, DisconnectInRoom(r)
  PROVE  Ended'
  <1>1. UNCHANGED <<roomAt, rooms, lobbyTasks, lpc, ltask>>
    BY DEF DisconnectInRoom, threadVars
  <1>2. PICK k \in Key : k = SeatKey(r) /\ k[1] \in Slots /\ Sits(r, k) /\ IsActive(k)
    BY VisitedKey DEF Typed, DisconnectInRoom, Sits, Holding, Visitable
  <1> DEFINE x == [sess[k[1]] EXCEPT !.life = "DISCONNECT_PENDING"]
  <1>3. x.life = "DISCONNECT_PENDING" /\ x.id = sess[k[1]].id /\ sess' = [sess EXCEPT ![k[1]] = x]
    BY <1>2 DEF DisconnectInRoom, BeginDisconnect, Typed, SessOK, Session
  <1> HIDE DEF x
  <1>4. sess'[k[1]] = x /\ \A s \in Slots \ {k[1]} : sess'[s] = sess[s]
    BY <1>2, <1>3, RightIn DEF Typed
  <1>5. \A j \in Key : j[1] \in Slots /\ (j[1] = k[1] /\ j[2] = k[2] => j = k)
    BY KeyFacts
  <1>6. \A j \in Key : (Closing(j)' => Closing(j)) /\ (LeavesRoom(j)' => LeavesRoom(j) \/ j = k)
    BY <1>2, <1>3, <1>4, <1>5 DEF Closing, LeavesRoom, Disconnecting, Found, IsActive
  <1>7. \A q \in RoomKeys : \A j : Sits(q, j)' <=> Sits(q, j)
    BY <1>1, SitsStays
  <1>8. LeaversSit'
    BY <1>2, <1>6, <1>7 DEF Ended, LeaversSit
  <1>9. \A j : (Noticed(j) => Noticed(j)') /\ (Dismissed(j) => Dismissed(j)')
    BY <1>1, <1>7 DEF Noticed, LobbyTasksInFlight, Dismissed, Removing, InTable
  <1> QED
    BY <1>1, <1>6, <1>8, <1>9, ThreadsRest DEF Ended, Pursued

\* A player sits down.
LEMMA SeatEnds ==
  ASSUME Typed, Ended, NEW r \in RoomKeys, ProcessJoin(r)
  PROVE  Ended'
  <1>1. AtTask(r) /\ UNCHANGED <<lpc, ltask, roomAt>> /\ Head(rooms[r].tasks).type # "REMOVE_PLAYER"
    BY DEF ProcessJoin, TaskReady, threadVars
  <1>2. PICK task \in RoomTask : task = Head(rooms[r].tasks) /\ task.key \in Key
    BY <1>1, TaskAtHand DEF Typed
  <1>3. PICK k \in Key : k = task.key /\ k[1] \in Slots
    BY <1>2, KeyFacts
  <1>4. \E q : Posting(q)
    <2>1. \E ok \in BOOLEAN : lobbyTasks' = Append(lobbyTasks, TransitionResult(k, ok, task.match))
      BY <1>2, <1>3 DEF ProcessJoin
    <2>2. \A ok \in BOOLEAN : TransitionResult(k, ok, task.match) \in LobbyTask
      BY <1>2, TaskTypes DEF RoomTask
    <2> QED
      BY <2>1, <2>2, SomePosted DEF Typed
  <1>5. \A p \in RoomKeys : InTable(p) => InTable(p)'
    BY <1>1 DEF InTable
  <1>6. CASE UNCHANGED sess /\ rooms' = [rooms EXCEPT ![r] = AfterTask(@)]
    <2>1. AsksKept
      BY <1>1, <1>6, TaskAsks DEF Typed
    <2>2. \A p \in RoomKeys : rooms'[p].seats = rooms[p].seats
      BY <1>1, <1>6, TaskDone, RoomsStayed DEF Typed, RoomsStay, RoomStays
    <2>3. \A p \in RoomKeys : \A j : Sits(p, j) => Sits(p, j)'
      BY <2>2, SitsStays
    <2>4. EndsStay
      BY <1>6, EndsSame
    <2> QED
      BY <1>1, <1>4, <1>5, <2>1, <2>3, <2>4, EndedSeats
  <1>7. CASE /\ MayJoin(r, k)
             /\ rooms' = [rooms EXCEPT ![r] = SeatPlayer(AfterTask(rooms[r]), k)]
             /\ sess' = [sess EXCEPT ![k[1]] = [@ EXCEPT !.mode = "ROOM", !.room = rooms[r].index]]
    <2> DEFINE u == AfterTask(rooms[r])
               w == SeatPlayer(u, k)
    <2>1. RoomOK(u) /\ u.state = rooms[r].state /\ u.seats = rooms[r].seats /\ u.max = rooms[r].max /\ u.pc \in {"claim", "tasks"}
      BY <1>1, AfterTaskOK DEF Typed, RoomsOK, AtTask
    <2> HIDE DEF u
    <2>2. u.state = "WAIT" /\ FreeSeats(u) # {} /\ \A n \in Taken(u.seats) : u.seats[n].key # k
      BY <1>7, <2>1 DEF MayJoin, FreeSeats, Seated, Taken
    <2>3. w.tasks = u.tasks
      BY <2>1, <2>2, SeatPlayerOK
    <2>4. rooms' = [rooms EXCEPT ![r] = w]
      BY <1>7 DEF u
    <2>5. AsksKept
      <3> HIDE DEF w
      <3> QED
        BY <1>1, <2>3, <2>4, TaskAsks DEF Typed, u
    <2>6. PICK v : Joined(rooms[r], v, k) /\ rooms' = [rooms EXCEPT ![r] = v]
      BY <1>1, <1>7, JoinedStep DEF Typed
    <2>7. rooms'[r] = v /\ \A p \in RoomKeys \ {r} : rooms'[p] = rooms[p]
      BY <2>6 DEF Typed, RoomsOK
    <2>8. PICK n \in Seats \ Taken(rooms[r].seats) : v.seats = [rooms[r].seats EXCEPT ![n] = [state |-> "ACTIVE", key |-> k]]
      BY <2>6 DEF Joined
    <2>9. \A m \in Seats : rooms[r].seats[m].state # "EMPTY" => v.seats[m] = rooms[r].seats[m]
      BY <2>8 DEF Taken, Typed, RoomsOK, Room
    <2>10. \A j : Sits(r, j) => Sits(r, j)'
      BY <2>7, <2>9 DEF Sits, Seated
    <2>11. \A p \in RoomKeys : \A j : Sits(p, j) => Sits(p, j)'
      BY <2>7, <2>10, SitsStays
    <2> DEFINE x == [sess[k[1]] EXCEPT !.mode = "ROOM", !.room = rooms[r].index]
    <2>12. x.life = "ACTIVE" /\ sess' = [sess EXCEPT ![k[1]] = x]
      BY <1>3, <1>7 DEF MayJoin, IsActive, Session, Typed, SessOK
    <2> HIDE DEF x
    <2>13. sess'[k[1]] = x /\ \A s \in Slots \ {k[1]} : sess'[s] = sess[s]
      BY <1>3, <2>12, RightIn DEF Typed
    <2>14. EndsStay
      BY <1>3, <2>12, <2>13, EndsAt
    <2> QED
      BY <1>1, <1>4, <1>5, <2>5, <2>11, <2>14, EndedSeats
  <1> QED
    BY <1>2, <1>3, <1>6, <1>7 DEF ProcessJoin

\* Player k leaves room r.
LEMMA UnseatEnds ==
  ASSUME Typed, Placed, Ended, UNCHANGED <<roomAt, lpc, ltask>>, NEW r \in RoomKeys, NEW k \in Key, Sits(r, k),
         NEW v, Left(rooms[r], v, k), rooms' = [rooms EXCEPT ![r] = v], EndsStay, ~LeavesRoom(k)',
         Closing(k)' => Noticed(k)', \A p \in RoomKeys, j \in Key \ {k} : Removing(p, j) => Removing(p, j)',
         NEW q, Posting(q)
  PROVE  Ended'
  <1>1. NoticesHeld' /\ NoticesKept
    BY ThreadsRest
  <1>2. \A p \in RoomKeys : \A j : Sits(p, j)' <=> Sits(p, j) /\ j # k
    BY LeftSeats
  <1>3. LeaversSit'
    BY <1>2 DEF Ended, LeaversSit, EndsStay
  <1>4. ASSUME NEW j \in Key, Closing(j)' PROVE Noticed(j)' \/ Dismissed(j)'
    <2>1. Noticed(j) \/ Dismissed(j)
      BY <1>4 DEF Ended, Pursued, EndsStay
    <2>2. CASE Noticed(j)
      BY <1>1, <1>4, <2>2, NoticedStays DEF Noticed, NoticesKept, Typed
    <2>3. CASE Dismissed(j) /\ j # k
      BY <1>2, <2>3 DEF Dismissed, InTable
    <2> QED
      BY <1>4, <2>1, <2>2, <2>3
  <1> QED
    BY <1>1, <1>3, <1>4 DEF Ended, Pursued

LEMMA LeaveEnds ==
  ASSUME Typed, Placed, Ended, NEW r \in RoomKeys, LeaveRoom(r)
  PROVE  Ended'
  <1>1. UNCHANGED <<sess, roomAt, lpc, ltask>>
    BY DEF LeaveRoom, sessVars, threadVars
  <1>2. PICK k \in Key : k = SeatKey(r) /\ Sits(r, k) /\ IsActive(k)
    BY VisitedKey DEF Typed, LeaveRoom, Sits, Holding, Visitable
  <1>3. PICK v : Left(rooms[r], v, k) /\ rooms' = [rooms EXCEPT ![r] = v]
    BY <1>2, LeaveRoomStep DEF Typed
  <1>4. AsksKept
    <2> DEFINE w == RemovedFrom(rooms[r], k)
    <2>1. RoomOK(rooms[r]) /\ rooms[r].pc = "hold"
      BY DEF Typed, RoomsOK, LeaveRoom, Holding
    <2>2. w.tasks = rooms[r].tasks
      BY <2>1, RemovedFromOK
    <2>3. rooms' = [rooms EXCEPT ![r] = w]
      BY <1>2 DEF LeaveRoom
    <2> HIDE DEF w
    <2> QED
      BY <2>2, <2>3, AsksStay DEF Typed
  <1>5. \E q : Posting(q)
    <2> DEFINE y == [LTask("ENTER_LOBBY", k) EXCEPT !.room = rooms[r].index]
    <2>1. rooms[r].index \in RoomIndices
      BY <1>2, SeatOf DEF Typed, RoomsOK, RoomOK, LifeOK, Used
    <2>2. y \in LobbyTask
      BY <2>1, TaskTypes DEF LobbyTaskType
    <2>3. lobbyTasks' = Append(lobbyTasks, y)
      BY <1>2 DEF LeaveRoom
    <2> QED
      BY <2>2, <2>3, SomePosted DEF Typed
  <1>6. EndsStay /\ ~Closing(k)' /\ ~LeavesRoom(k)'
    BY <1>1, <1>2, EndsSame DEF IsActive, Closing, LeavesRoom, Disconnecting, Found
  <1>7. \A p \in RoomKeys, j \in Key : Removing(p, j) => Removing(p, j)'
    BY <1>4 DEF AsksKept
  <1> QED
    BY <1>1, <1>2, <1>3, <1>5, <1>6, <1>7, UnseatEnds

\* The task at hand, a removal of k if any, leaves the queue.
LEMMA OthersAsk ==
  ASSUME RoomsOK, NEW r \in RoomKeys, AtTask(r), NEW k, Head(rooms[r].tasks).type = "REMOVE_PLAYER" => Head(rooms[r].tasks).key = k,
         NEW v, v.tasks = AfterTask(rooms[r]).tasks, rooms' = [rooms EXCEPT ![r] = v]
  PROVE  \A p \in RoomKeys, j \in Key \ {k} : Removing(p, j) => Removing(p, j)'
  <1>1. rooms'[r] = v /\ \A p \in RoomKeys \ {r} : rooms'[p] = rooms[p]
    BY DEF RoomsOK
  <1>2. v.tasks = Tail(rooms[r].tasks) /\ rooms[r].tasks # <<>> /\ rooms[r].tasks \in Seq(RoomTask)
    BY AfterTail, AfterTaskOK DEF RoomsOK, AtTask, Room
  <1>3. TasksOf(rooms[r].tasks) = {Head(rooms[r].tasks)} \cup TasksOf(v.tasks)
    BY <1>2, HeadOrTail
  <1>4. ASSUME NEW j \in Key \ {k}, Removing(r, j) PROVE Removing(r, j)'
    <2>1. RTask("REMOVE_PLAYER", j).type = "REMOVE_PLAYER" /\ RTask("REMOVE_PLAYER", j).key = j
      BY RoomTaskTypes
    <2>2. RTask("REMOVE_PLAYER", j) # Head(rooms[r].tasks)
      BY <2>1
    <2> QED
      BY <1>1, <1>3, <1>4, <2>2 DEF Removing
  <1>5. \A p \in RoomKeys \ {r}, j \in Key : Removing(p, j) => Removing(p, j)'
    BY <1>1 DEF Removing
  <1> QED
    BY <1>4, <1>5

\* A room removes k, and the disconnection of k goes on.
LEMMA RemovalEnds ==
  ASSUME Typed, Placed, Ended, NEW r \in RoomKeys, AtTask(r), NEW k \in Key, Seated(r, k) # {},
         Head(rooms[r].tasks).type = "REMOVE_PLAYER" => Head(rooms[r].tasks).key = k,
         \/ ToLobby(r, AfterTask(rooms[r]), k)
         \/ /\ rooms' = [rooms EXCEPT ![r] = RemovedFrom(AfterTask(rooms[r]), k)]
            /\ sess' = AfterRoomDisconnect(sess, k)
            /\ lobbyTasks' = lobbyTasks \o RoomDisconnectNotice(k),
         UNCHANGED <<roomAt, lpc, ltask>>
  PROVE  Ended'
  <1>1. sess' = AfterRoomDisconnect(sess, k) /\ rooms' = [rooms EXCEPT ![r] = RemovedFrom(AfterTask(rooms[r]), k)]
    BY DEF ToLobby
  <1>2. Sits(r, k)
    BY DEF Sits
  <1>3. PICK v : Left(rooms[r], v, k) /\ rooms' = [rooms EXCEPT ![r] = v]
    BY <1>1, RemovedStep DEF Typed
  <1>4. EndsStay /\ ~LeavesRoom(k)'
    BY <1>1, LeftEnds DEF Typed
  <1>5. \A p \in RoomKeys, j \in Key \ {k} : Removing(p, j) => Removing(p, j)'
    <2> DEFINE u == AfterTask(rooms[r])
               w == RemovedFrom(u, k)
    <2>1. RoomOK(u) /\ u.pc \in {"claim", "tasks"}
      BY AfterTaskOK DEF Typed, RoomsOK, AtTask
    <2> HIDE DEF u
    <2>2. w.tasks = u.tasks
      BY <2>1, RemovedFromOK
    <2>3. rooms' = [rooms EXCEPT ![r] = w]
      BY <1>1 DEF u
    <2> HIDE DEF w
    <2> QED
      BY <2>2, <2>3, OthersAsk DEF u, Typed
  <1> DEFINE p == RoomDisconnectNotice(k)
  <1>6. Closing(k) => LTask("DISCONNECT", k) \in TasksOf(p)
    <2> SUFFICES ASSUME Closing(k) PROVE LTask("DISCONNECT", k) \in TasksOf(p)
      OBVIOUS
    <2>1. sess[k[1]].mode = "ROOM"
      BY <1>2 DEF Placed, SeatsHere, InRoom
    <2>2. p = <<LTask("DISCONNECT", k)>>
      BY <2>1 DEF RoomDisconnectNotice, LeavesRoom, Disconnecting, Closing
    <2> QED
      BY <2>2 DEF TasksOf
  <1>7. LTask("DISCONNECT", k).type = "DISCONNECT" /\ LTask("DISCONNECT", k).key = k
    BY TaskTypes DEF LobbyTaskType
  <1>8. PICK q : Posting(q) /\ TasksOf(p) \subseteq TasksOf(q)
    <2>1. CASE ToLobby(r, AfterTask(rooms[r]), k)
      BY <2>1, ToLobbyPosts
    <2>2. CASE lobbyTasks' = lobbyTasks \o p
      BY <2>2, NoticePosted DEF Posting
    <2> QED
      BY <2>1, <2>2
  <1> HIDE DEF p
  <1>9. Closing(k)' => Noticed(k)'
    <2> SUFFICES ASSUME Closing(k)' PROVE Noticed(k)'
      OBVIOUS
    <2>1. LTask("DISCONNECT", k) \in TasksOf(q)
      BY <1>4, <1>6, <1>8 DEF EndsStay
    <2> QED
      BY <1>7, <1>8, <2>1, NewNotice DEF Typed
  <1> QED
    BY <1>2, <1>3, <1>4, <1>5, <1>8, <1>9, UnseatEnds

\* A removal that comes too late: k has no seat any more, or is to stay.
LEMMA NoRemovalEnds ==
  ASSUME Typed, Ended, NEW r \in RoomKeys, AtTask(r), NEW k, IsActive(k) \/ ~Sits(r, k),
         Head(rooms[r].tasks).type = "REMOVE_PLAYER" => Head(rooms[r].tasks).key = k,
         rooms' = [rooms EXCEPT ![r] = AfterTask(@)], UNCHANGED <<sess, roomAt, lobbyTasks, lpc, ltask>>
  PROVE  Ended'
  <1>1. \A p \in RoomKeys : rooms'[p].seats = rooms[p].seats
    BY TaskDone, RoomsStayed DEF Typed, RoomsStay, RoomStays
  <1>2. \A p \in RoomKeys : \A j : Sits(p, j)' <=> Sits(p, j)
    BY <1>1, SitsStays
  <1>3. \A p \in RoomKeys, j \in Key \ {k} : Removing(p, j) => Removing(p, j)'
    BY OthersAsk DEF Typed
  <1>4. NoticesHeld' /\ LeaversSit'
    BY <1>2, ThreadsRest DEF Ended, LeaversSit, LeavesRoom, Disconnecting, Found
  <1>5. ASSUME NEW j \in Key, Closing(j)' PROVE Noticed(j)' \/ Dismissed(j)'
    <2>1. Closing(j)
      BY <1>5 DEF Closing, Found
    <2>2. CASE Noticed(j)
      BY <2>2 DEF Noticed, LobbyTasksInFlight
    <2>3. ASSUME NEW p \in RoomKeys, InTable(p), Sits(p, j), Removing(p, j) PROVE Dismissed(j)'
      <3>1. Removing(p, j)'
        <4>1. CASE j # k
          BY <1>3, <2>3, <4>1
        <4>2. CASE j = k
          <5>1. p # r
            BY <2>1, <2>3, <4>2 DEF IsActive, Closing
          <5>2. rooms'[p] = rooms[p]
            BY <5>1 DEF Typed, RoomsOK
          <5> QED
            BY <2>3, <5>2 DEF Removing
        <4> QED
          BY <4>1, <4>2
      <3> QED
        BY <1>2, <2>3, <3>1 DEF Dismissed, InTable
    <2> QED
      BY <2>1, <2>2, <2>3 DEF Ended, Pursued, Dismissed
  <1> QED
    BY <1>4, <1>5 DEF Ended, Pursued

LEMMA TaskEnds ==
  ASSUME Typed, Placed, Ended, NEW r \in RoomKeys, ProcessRoomTask(r)
  PROVE  Ended'
  <1>1. CASE ProcessJoin(r)
    BY <1>1, SeatEnds
  <1>2. CASE ProcessStart(r) \/ ProcessGiveUp(r)
    BY <1>2, TickEnds
  <1>3. CASE ProcessRemove(r) \/ ProcessKick(r)
    <2>1. AtTask(r) /\ UNCHANGED <<roomAt, lpc, ltask>>
      BY <1>3 DEF ProcessRemove, ProcessKick, TaskReady, threadVars
    <2>2. PICK k \in Key : k = Head(rooms[r].tasks).key
      BY <2>1, TaskAtHand DEF Typed
    <2>3. CASE ProcessRemove(r)
      <3>1. CASE /\ Seated(r, k) # {}
                 /\ \/ ToLobby(r, AfterTask(rooms[r]), k)
                    \/ /\ rooms' = [rooms EXCEPT ![r] = RemovedFrom(AfterTask(rooms[r]), k)]
                       /\ sess' = AfterRoomDisconnect(sess, k)
                       /\ lobbyTasks' = lobbyTasks \o RoomDisconnectNotice(k)
        BY <2>1, <2>2, <3>1, RemovalEnds
      <3>2. CASE /\ IF IsActive(k) THEN ~SeatActive(r, k) ELSE Seated(r, k) = {}
                 /\ rooms' = [rooms EXCEPT ![r] = AfterTask(@)] /\ UNCHANGED <<sess, lobbyTasks>>
        <4>1. IsActive(k) \/ ~Sits(r, k)
          BY <3>2 DEF Sits
        <4>2. rooms' = [rooms EXCEPT ![r] = AfterTask(@)] /\ UNCHANGED <<sess, roomAt, lobbyTasks, lpc, ltask>>
          BY <2>1, <3>2
        <4> QED
          BY <2>1, <2>2, <4>1, <4>2, NoRemovalEnds
      <3>3. SeatActive(r, k) => Seated(r, k) # {}
        BY DEF SeatActive
      <3> QED
        BY <2>2, <2>3, <3>1, <3>2, <3>3 DEF ProcessRemove
    <2>4. CASE ProcessKick(r)
      <3>1. Head(rooms[r].tasks).type # "REMOVE_PLAYER"
        BY <2>4 DEF ProcessKick, TaskReady
      <3>2. ASSUME NEW c \in KickTarget(r, Head(rooms[r].tasks)), ToLobby(r, AfterTask(rooms[r]), c) PROVE Ended'
        <4>1. Seated(r, c) # {} /\ c \in Key
          BY TargetKey DEF Typed
        <4> QED
          BY <2>1, <3>1, <3>2, <4>1, RemovalEnds
      <3>3. CASE rooms' = [rooms EXCEPT ![r] = AfterTask(@)] /\ UNCHANGED <<sess, lobbyTasks>>
        <4>1. NoKey \notin Key
          BY NamesAssumption
        <4>2. ~Sits(r, NoKey)
          BY <4>1, SeatOf DEF Typed
        <4>3. rooms' = [rooms EXCEPT ![r] = AfterTask(@)] /\ UNCHANGED <<sess, roomAt, lobbyTasks, lpc, ltask>>
          BY <2>1, <3>3
        <4> QED
          BY <2>1, <3>1, <4>2, <4>3, NoRemovalEnds
      <3> QED
        BY <2>4, <3>2, <3>3 DEF ProcessKick
    <2> QED
      BY <1>3, <2>3, <2>4
  <1> QED
    BY <1>1, <1>2, <1>3 DEF ProcessRoomTask

----------------------------------------------------------------------------
(* No disconnection is forgotten. *)

LEMMA EndedInit == Init => Ended
  <1> SUFFICES ASSUME Init PROVE Ended
    OBVIOUS
  <1>1. \A s \in Slots : sess[s].life = "NONE"
    BY DEF Init, EmptySession
  <1>2. \A k \in Key : ~Closing(k) /\ ~LeavesRoom(k)
    BY <1>1, KeyFacts DEF Closing, LeavesRoom, Disconnecting, Found
  <1>3. NoticesHeld
    BY DEF Init, NoticesHeld, NoTask
  <1> QED
    BY <1>2, <1>3 DEF Ended, LeaversSit, Pursued

LEMMA EndedNext == Typed /\ Sorted /\ Owned /\ Placed /\ Ended /\ [Next]_vars => Ended'
  <1> SUFFICES ASSUME Typed, Sorted, Owned, Placed, Ended, [Next]_vars PROVE Ended'
    OBVIOUS
  <1>1. CASE UNCHANGED vars \/ StartLobbyPhase \/ EndLobbyTasks
    BY <1>1, PhaseEnds
  <1>2. ASSUME NEW s \in Slots, AcquireSession(s) \/ CompleteSessionIO(s) PROVE Ended'
    BY <1>2, NetworkEnds
  <1>3. ASSUME NEW t \in LobbyThreads, LobbyTaskStep(t) PROVE Ended'
    BY <1>3, DequeueEnds, QueueEnds, VisitEnds, BeginEnds, FinalizeEnds, OutsideEnds, FreeEnds DEF LobbyTaskStep
  <1>4. ASSUME NEW t \in LobbyThreads, LobbyRequest(t) PROVE Ended'
    BY <1>4, RequestEnds
  <1>5. ASSUME NEW t \in LobbyThreads, EndVisit(t) \/ \E s \in Slots : VisitSession(t, s) PROVE Ended'
    BY <1>5, VisitEnds
  <1>6. ASSUME NEW g \in GameThreads, CreateStep(g) PROVE Ended'
    BY <1>6, DeleteEnds, AnswerEnds, CompleteEnds, CreateEnds DEF CreateStep
  <1>7. ASSUME NEW r \in RoomKeys, ProcessRoomTask(r) PROVE Ended'
    BY <1>7, TaskEnds
  <1>8. ASSUME NEW r \in RoomKeys,
               \/ BeginTick(r) \/ ClaimTasks(r) \/ KeepPending(r) \/ VisitSeat(r) \/ EndSeatVisit(r) \/ PlayTick(r)
               \/ EndRoomTasks(r)
        PROVE  Ended'
    BY <1>8, TickEnds
  <1>9. ASSUME NEW r \in RoomKeys, RoomRequest(r) PROVE Ended'
    BY <1>9, LeaveEnds, DisconnectEnds, TickEnds DEF RoomRequest
  <1> QED
    BY <1>1, <1>2, <1>3, <1>4, <1>5, <1>6, <1>7, <1>8, <1>9 DEF Next, RoomTaskStep

LEMMA EndedPending == Typed /\ Ended => DisconnectPending
  <1> SUFFICES ASSUME Typed, Ended, NEW s \in Slots, sess[s].life = "DISCONNECTING", NEW k, k = Occupant(s)
               PROVE  \/ \E task \in LobbyTasksInFlight : task.type = "DISCONNECT" /\ task.key = k
                      \/ \E r \in RoomKeys : InTable(r) /\ Seated(r, k) # {} /\ RTask("REMOVE_PLAYER", k) \in TasksOf(rooms[r].tasks)
    BY DEF DisconnectPending
  <1>1. k \in Key /\ Closing(k)
    BY OccupantKey DEF Typed, Closing, Found
  <1> QED
    BY <1>1 DEF Ended, Pursued, Noticed, Dismissed, Removing, Sits

\* A session whose socket I/O has ended is never forgotten: as long as it is there, a DISCONNECT
\* task for it is queued or at hand, or the room it sits in has been asked to remove it and will
\* then post DISCONNECT again; whatever task is put back, refused or overtaken meanwhile.
THEOREM DisconnectionsGoOn == Spec => []DisconnectPending
  <1>1. Init => Ended
    BY EndedInit
  <1>2. (Typed /\ HoldOK /\ Sorted /\ Owned /\ Placed) /\ Ended /\ [Next]_vars => Ended'
    BY EndedNext
  <1>3. Typed /\ Ended => DisconnectPending
    BY EndedPending
  <1> QED
    BY <1>1, <1>2, <1>3, AlwaysPlaced, PTL DEF Spec

----------------------------------------------------------------------------
(* The unfinished transitions of a connection. *)

Holds(seq, type, k) == \E x \in TasksOf(seq) : x.type = type /\ x.key = k

Making(g, k) == gpc[g] \in {"wait", "created"} /\ gkey[g] = k
Joining(r, k) == Holds(rooms[r].tasks, "JOIN", k)
Entering(t, k) == lpc[t] = "enter" /\ ltask[t].key = k

\* Where a transition can be: a creation queued or at work, a join that a room is asked for, the
\* answer to either, or the second half of ENTER_LOBBY.
Ways == {"create", "make", "join", "answer", "enter"}
Under(k, p) ==
  \/ p = "create" /\ Holds(lifeTasks, "CREATE", k)
  \/ p = "make" /\ \E g \in GameThreads : Making(g, k)
  \/ p = "join" /\ \E r \in RoomKeys : Joining(r, k)
  \/ p = "answer" /\ Flying("ROOM_TRANSITION_RESULT", k)
  \/ p = "enter" /\ \E t \in LobbyThreads : Entering(t, k)
Moving(k) == \E p \in Ways : Under(k, p)

\* No connection has two transitions, of different kinds or of one.
Exclusive == \A k \in Key : \A p, q \in Ways : Under(k, p) /\ Under(k, q) => p = q
OneMaker == \A k \in Key : \A g, h \in GameThreads : Making(g, k) /\ Making(h, k) => g = h
OneJoin ==
  /\ \A r \in RoomKeys : OnceIn(rooms[r].tasks, "JOIN")
  /\ \A k \in Key : \A r, q \in RoomKeys : Joining(r, k) /\ Joining(q, k) => r = q
OneEntering == \A k \in Key : \A t, u \in LobbyThreads : Entering(t, k) /\ Entering(u, k) => t = u
Single(p) ==
  /\ p = "create" => OnceIn(lifeTasks, "CREATE")
  /\ p = "make" => OneMaker
  /\ p = "join" => OneJoin
  /\ p = "answer" => Once("ROOM_TRANSITION_RESULT")
  /\ p = "enter" => OneEntering

\* An entry that waits for a transition has one; a transition of a connection that has not ended
\* has such an entry.
EntryIs(k, st) == entry[k[1]].state = st /\ entry[k[1]].id = k[2]
Alive(k) == Found(k) /\ sess[k[1]].life \in {"ACTIVE", "DISCONNECT_PENDING"}
EntryFits(k) ==
  /\ Moving(k) => k[2] <= conn[k[1]] /\ ~EntryIs(k, "ACTIVE") /\ (Alive(k) => EntryIs(k, "PENDING"))
  /\ EntryIs(k, "PENDING") => Moving(k)

Answered == Exclusive /\ (\A p \in Ways : Single(p)) /\ \A k \in Key : EntryFits(k)

----------------------------------------------------------------------------
(* Queues that gain and lose a task. *)

LEMMA HoldsAppend ==
  ASSUME NEW S, NEW seq \in Seq(S), NEW x \in S, NEW type
  PROVE  /\ \A k : Holds(Append(seq, x), type, k) <=> Holds(seq, type, k) \/ (x.type = type /\ x.key = k)
         /\ OnceIn(seq, type) /\ (x.type = type => ~Holds(seq, type, x.key)) => OnceIn(Append(seq, x), type)
  <1>1. TasksOf(Append(seq, x)) = TasksOf(seq) \cup {x}
    BY QueueFacts
  <1>2. ASSUME OnceIn(seq, type), x.type = type => ~Holds(seq, type, x.key) PROVE OnceIn(Append(seq, x), type)
    <2>1. Append(seq, x) \in Seq(S) /\ Len(Append(seq, x)) = Len(seq) + 1
          /\ (\A n \in 1..Len(seq) : Append(seq, x)[n] = seq[n]) /\ Append(seq, x)[Len(seq) + 1] = x
      BY AppendProperties
    <2> DEFINE w == Append(seq, x)
    <2>2. Len(seq) \in Nat /\ DOMAIN seq = 1..Len(seq) /\ DOMAIN w = 1..(Len(seq) + 1)
      BY <2>1, LenProperties
    <2>3. \A n \in DOMAIN w : (n \in DOMAIN seq /\ w[n] = seq[n]) \/ (n = Len(seq) + 1 /\ w[n] = x)
      BY <2>1, <2>2
    <2> HIDE DEF w
    <2>4. \A n \in DOMAIN seq : seq[n] \in TasksOf(seq)
      BY DEF TasksOf
    <2>5. SUFFICES ASSUME NEW m \in DOMAIN w, NEW n \in DOMAIN w, w[m].type = type, w[n].type = type, w[m].key = w[n].key
                   PROVE  m = n
      BY DEF OnceIn, w
    <2> QED
      BY <1>2, <2>3, <2>4, <2>5 DEF OnceIn, Holds
  <1> QED
    BY <1>1, <1>2 DEF Holds

LEMMA HoldsTail ==
  ASSUME NEW S, NEW seq \in Seq(S), seq # <<>>, NEW type, OnceIn(seq, type)
  PROVE  /\ \A k : Holds(Tail(seq), type, k) <=> Holds(seq, type, k) /\ ~(Head(seq).type = type /\ Head(seq).key = k)
         /\ OnceIn(Tail(seq), type)
  <1>1. TasksOf(seq) = {Head(seq)} \cup TasksOf(Tail(seq))
    BY HeadOrTail
  <1>2. OnceIn(Tail(seq), type) /\ \A y \in TasksOf(Tail(seq)) : Head(seq).type = type /\ y.type = type => y.key # Head(seq).key
    BY OnceTail
  <1> QED
    BY <1>1, <1>2 DEF Holds

\* What thread t has taken of this type stays with it.
TasksRest(type) ==
  \A t \in LobbyThreads : /\ HasTask(t, type)' <=> HasTask(t, type)
                          /\ HasTask(t, type) => ltask'[t] = ltask[t]

LEMMA FlyingIs ==
  ASSUME NEW type, NEW k
  PROVE  Flying(type, k) <=> Holds(lobbyTasks, type, k) \/ \E t \in LobbyThreads : HasTask(t, type) /\ ltask[t].key = k
  BY DEF Flying, Waiting, Holds, HasTask

LEMMA OnceAfter ==
  ASSUME QueueOK, NEW q, Posting(q), NEW type, Once(type), OnceIn(q, type),
         \A t \in LobbyThreads : HasTask(t, type)' => HasTask(t, type) /\ ltask'[t] = ltask[t],
         \A x \in TasksOf(q) : x.type = type =>
            ~Holds(lobbyTasks, type, x.key) /\ \A t \in LobbyThreads : HasTask(t, type)' => ltask[t].key # x.key
  PROVE  Once(type)'
  <1>1. TasksOf(lobbyTasks') = TasksOf(lobbyTasks) \cup TasksOf(q)
    BY TasksOfConcat DEF QueueOK, Posting
  <1>2. OnceIn(lobbyTasks', type)
    BY OnceConcat DEF QueueOK, Once, Posting, Holds
  <1>3. \A t, u \in LobbyThreads : HasTask(t, type)' /\ HasTask(u, type)' /\ ltask'[t].key = ltask'[u].key => t = u
    BY DEF Once
  <1>4. \A t \in LobbyThreads, x \in TasksOf(lobbyTasks') : HasTask(t, type)' /\ x.type = type => x.key # ltask'[t].key
    BY <1>1 DEF Once
  <1> QED
    BY <1>2, <1>3, <1>4 DEF Once

\* Tasks of other types come.
LEMMA FlyingRest ==
  ASSUME QueueOK, NEW q, Posting(q), NEW type, \A x \in TasksOf(q) : x.type # type, TasksRest(type)
  PROVE  (\A k : Flying(type, k)' <=> Flying(type, k)) /\ (Once(type) => Once(type)')
  <1>1. TasksOf(lobbyTasks') = TasksOf(lobbyTasks) \cup TasksOf(q)
    BY TasksOfConcat DEF QueueOK, Posting
  <1>2. \A k : Flying(type, k)' <=> Flying(type, k)
    BY <1>1 DEF Flying, Waiting, TasksRest, HasTask
  <1>3. OnceIn(q, type)
    BY DEF OnceIn, TasksOf
  <1>4. Once(type) => Once(type)'
    BY <1>3, OnceAfter DEF TasksRest
  <1> QED
    BY <1>2, <1>4

\* A task of this type comes.
LEMMA FlyingPosted ==
  ASSUME QueueOK, NEW x \in LobbyTask, lobbyTasks' = Append(lobbyTasks, x), TasksRest(x.type), Once(x.type), ~Flying(x.type, x.key)
  PROVE  (\A k : Flying(x.type, k)' <=> Flying(x.type, k) \/ k = x.key) /\ Once(x.type)'
  <1>1. Posting(<<x>>) /\ TasksOf(<<x>>) = {x}
    BY PostOne
  <1>2. TasksOf(lobbyTasks') = TasksOf(lobbyTasks) \cup {x}
    BY QueueFacts DEF QueueOK
  <1>3. \A k : Flying(x.type, k)' <=> Flying(x.type, k) \/ k = x.key
    BY <1>2 DEF Flying, Waiting, TasksRest, HasTask
  <1>4. OnceIn(<<x>>, x.type)
    BY DEF OnceIn
  <1>5. ~Holds(lobbyTasks, x.type, x.key) /\ \A t \in LobbyThreads : HasTask(t, x.type) => ltask[t].key # x.key
    BY FlyingIs
  <1>6. Once(x.type)'
    <2> DEFINE q == <<x>>
               type == x.type
    <2>1. Posting(q) /\ OnceIn(q, type) /\ \A y \in TasksOf(q) : y = x
      BY <1>1, <1>4
    <2>2. \A t \in LobbyThreads : HasTask(t, type)' => HasTask(t, type) /\ ltask'[t] = ltask[t]
      BY DEF TasksRest
    <2>3. \A y \in TasksOf(q) : y.type = type =>
            ~Holds(lobbyTasks, type, y.key) /\ \A t \in LobbyThreads : HasTask(t, type)' => ltask[t].key # y.key
      BY <1>5, <2>1, <2>2
    <2>4. Once(type)
      OBVIOUS
    <2> HIDE DEF q, type
    <2>5. Once(type)'
      BY <2>1, <2>2, <2>3, <2>4, OnceAfter
    <2> QED
      BY <2>5 DEF type
  <1> QED
    BY <1>3, <1>6

\* A thread is done with a task of this type, and posts none.
LEMMA FlyingEnds ==
  ASSUME QueueOK, NEW t \in LobbyThreads, NEW type, HasTask(t, type), Once(type), lpc'[t] # "task",
         \A u \in LobbyThreads \ {t} : lpc'[u] = lpc[u] /\ ltask'[u] = ltask[u],
         NEW q, Posting(q), \A x \in TasksOf(q) : x.type # type
  PROVE  (\A k : Flying(type, k)' <=> Flying(type, k) /\ k # ltask[t].key) /\ Once(type)'
  <1>1. TasksOf(lobbyTasks') = TasksOf(lobbyTasks) \cup TasksOf(q)
    BY TasksOfConcat DEF QueueOK, Posting
  <1>2. \A u \in LobbyThreads : HasTask(u, type)' <=> u # t /\ HasTask(u, type)
    BY DEF HasTask
  <1>3. ASSUME NEW k PROVE Flying(type, k)' <=> Flying(type, k) /\ k # ltask[t].key
    <2>1. Holds(lobbyTasks', type, k) <=> Holds(lobbyTasks, type, k)
      BY <1>1 DEF Holds
    <2>2. Holds(lobbyTasks, type, k) => k # ltask[t].key
      BY DEF Once, Holds
    <2>3. \A u \in LobbyThreads : HasTask(u, type) /\ ltask[u].key = ltask[t].key => u = t
      BY DEF Once
    <2>4. Flying(type, k)' <=> Holds(lobbyTasks', type, k) \/ \E u \in LobbyThreads : HasTask(u, type)' /\ ltask'[u].key = k
      BY DEF Flying, Waiting, Holds, HasTask
    <2> QED
      BY <1>2, <2>1, <2>2, <2>3, <2>4, FlyingIs
  <1>4. OnceIn(q, type)
    BY DEF OnceIn, TasksOf
  <1>5. Once(type)'
    BY <1>2, <1>4, OnceAfter
  <1> QED
    BY <1>3, <1>5

\* A thread that is done with a task posts another one of the same type for the same connection.
LEMMA FlyingBack ==
  ASSUME QueueOK, NEW t \in LobbyThreads, NEW type, HasTask(t, type), Once(type), lpc'[t] # "task",
         \A u \in LobbyThreads \ {t} : lpc'[u] = lpc[u] /\ ltask'[u] = ltask[u],
         NEW x \in LobbyTask, x.type = type, x.key = ltask[t].key, lobbyTasks' = Append(lobbyTasks, x)
  PROVE  (\A k : Flying(type, k)' <=> Flying(type, k)) /\ Once(type)'
  <1>1. Posting(<<x>>) /\ TasksOf(<<x>>) = {x}
    BY PostOne
  <1>2. TasksOf(lobbyTasks') = TasksOf(lobbyTasks) \cup {x}
    BY QueueFacts DEF QueueOK
  <1>3. \A u \in LobbyThreads : HasTask(u, type)' <=> u # t /\ HasTask(u, type)
    BY DEF HasTask
  <1>4. ASSUME NEW k PROVE Flying(type, k)' <=> Flying(type, k)
    <2>1. Holds(lobbyTasks', type, k) <=> Holds(lobbyTasks, type, k) \/ k = ltask[t].key
      BY <1>2 DEF Holds
    <2>2. Flying(type, k)' <=> Holds(lobbyTasks', type, k) \/ \E u \in LobbyThreads : HasTask(u, type)' /\ ltask'[u].key = k
      BY DEF Flying, Waiting, Holds, HasTask
    <2> QED
      BY <1>3, <2>1, <2>2, FlyingIs
  <1>5. OnceIn(<<x>>, type)
    BY DEF OnceIn
  <1>6. ~Holds(lobbyTasks, type, x.key) /\ \A u \in LobbyThreads : HasTask(u, type)' => ltask[u].key # x.key
    BY <1>3 DEF Holds, Once
  <1>7. Once(type)'
    <2> DEFINE q == <<x>>
    <2>1. Posting(q) /\ OnceIn(q, type) /\ \A y \in TasksOf(q) : y = x
      BY <1>1, <1>5
    <2>2. \A u \in LobbyThreads : HasTask(u, type)' => HasTask(u, type) /\ ltask'[u] = ltask[u]
      BY <1>3
    <2> HIDE DEF q
    <2> QED
      BY <1>6, <2>1, <2>2, OnceAfter
  <1> QED
    BY <1>4, <1>7

\* A thread takes a task from the queue.
LEMMA FlyingTaken ==
  ASSUME Typed, NEW t \in LobbyThreads, DequeueLobbyTask(t), NEW type
  PROVE  (\A k : Flying(type, k)' <=> Flying(type, k)) /\ Waiting' = Waiting
  <1>1. lpc[t] = "idle" /\ lobbyTasks' = Tail(lobbyTasks)
    BY DEF DequeueLobbyTask
  <1>2. lpc'[t] = "task" /\ ltask'[t] = Head(lobbyTasks)
        /\ \A u \in LobbyThreads \ {t} : lpc'[u] = lpc[u] /\ ltask'[u] = ltask[u]
    BY DEF DequeueLobbyTask, Typed, ThreadOK
  <1>3. lobbyTasks \in Seq(LobbyTask) /\ lobbyTasks # <<>>
    <2>1. claim > 0 /\ claim \in 0..Len(lobbyTasks) /\ lobbyTasks \in Seq(LobbyTask)
      BY DEF DequeueLobbyTask, Typed, QueueOK
    <2> QED
      BY <2>1, EmptySeq
  <1>4. TasksOf(lobbyTasks) = {Head(lobbyTasks)} \cup TasksOf(lobbyTasks')
    BY <1>1, <1>3, HeadOrTail
  <1>5. \A x : x \in Waiting' <=> x \in Waiting
    <2>1. \A x : x \in Waiting' <=> x \in TasksOf(lobbyTasks') \/ \E u \in LobbyThreads : lpc'[u] = "task" /\ x = ltask'[u]
      BY DEF Waiting
    <2>2. \A x : x \in Waiting <=> x \in TasksOf(lobbyTasks) \/ \E u \in LobbyThreads : lpc[u] = "task" /\ x = ltask[u]
      BY DEF Waiting
    <2> QED
      BY <1>1, <1>2, <1>4, <2>1, <2>2
  <1>6. Waiting' = Waiting
    BY <1>5
  <1> QED
    BY <1>6 DEF Flying

----------------------------------------------------------------------------
(* What a step does to the transitions. *)

WayRests(p) == \A k \in Key : Under(k, p)' <=> Under(k, p)
WayTakes(p, j) == \A k \in Key : Under(k, p)' <=> Under(k, p) \/ k = j
WayLoses(p, j) == \A k \in Key : Under(k, p)' <=> Under(k, p) /\ k # j

\* The transition of j is at b now; what the others have stays.
WaysTo(j, b) == \A k \in Key, p \in Ways : Under(k, p)' <=> (IF k = j THEN p = b ELSE Under(k, p))
WaysRest == \A p \in Ways : WayRests(p) /\ Single(p)'

\* The entry of k and its session stay, or change only so that nothing has to wait.
EntryRests(k) ==
  /\ EntryIs(k, "ACTIVE")' => EntryIs(k, "ACTIVE")
  /\ EntryIs(k, "PENDING")' => EntryIs(k, "PENDING")
  /\ Alive(k)' => Alive(k) /\ (EntryIs(k, "PENDING") => EntryIs(k, "PENDING")')
ConnRests == \A k \in Key : k[2] <= conn[k[1]] => k[2] <= conn'[k[1]]

\* A transition goes from a to b, begins (a is "none") or ends (b is "none").
LEMMA WaysMoved ==
  ASSUME Exclusive, NEW j \in Key, NEW a \in Ways \cup {"none"}, NEW b \in Ways \cup {"none"}, a # b,
         a = "none" => ~Moving(j), a # "none" => Under(j, a) /\ WayLoses(a, j), b # "none" => WayTakes(b, j),
         \A p \in Ways \ {a, b} : WayRests(p)
  PROVE  WaysTo(j, b)
  <1> SUFFICES ASSUME NEW k \in Key, NEW p \in Ways PROVE Under(k, p)' <=> (IF k = j THEN p = b ELSE Under(k, p))
    BY DEF WaysTo
  <1>0. "none" \notin Ways
    BY DEF Ways
  <1>1. CASE p = a
    BY <1>0, <1>1 DEF WayLoses
  <1>2. CASE p = b
    BY <1>0, <1>2 DEF WayTakes
  <1>3. CASE p # a /\ p # b
    <2>1. Under(k, p)' <=> Under(k, p)
      BY <1>3 DEF WayRests
    <2>2. k = j => ~Under(k, p)
      <3>1. CASE a = "none"
        BY <3>1 DEF Moving
      <3>2. CASE a # "none"
        BY <1>3, <3>2 DEF Exclusive
      <3> QED
        BY <3>1, <3>2
    <2> QED
      BY <1>3, <2>1, <2>2
  <1> QED
    BY <1>1, <1>2, <1>3

\* A step that moves no transition.
LEMMA AnsweredRests ==
  ASSUME Answered, WaysRest, ConnRests, \A k \in Key : EntryRests(k)
  PROVE  Answered'
  <1>1. \A k \in Key : Moving(k)' <=> Moving(k)
    BY DEF Moving, WaysRest, WayRests
  <1>2. Exclusive' /\ \A p \in Ways : Single(p)'
    BY DEF Answered, Exclusive, WaysRest, WayRests
  <1>3. \A k \in Key : EntryFits(k)'
    BY <1>1 DEF Answered, EntryFits, EntryRests, ConnRests
  <1> QED
    BY <1>2, <1>3 DEF Answered

\* A step that moves the transition of j.
LEMMA AnsweredMoves ==
  ASSUME Answered, NEW j \in Key, NEW b, WaysTo(j, b), \A p \in Ways : Single(p)', ConnRests,
         \A k \in Key \ {j} : EntryRests(k), EntryFits(j)'
  PROVE  Answered'
  <1>1. \A k \in Key \ {j} : Moving(k)' <=> Moving(k)
    BY DEF Moving, WaysTo
  <1>2. Exclusive'
    BY DEF Answered, Exclusive, WaysTo
  <1>3. \A k \in Key \ {j} : EntryFits(k)'
    BY <1>1 DEF Answered, EntryFits, EntryRests, ConnRests
  <1> QED
    BY <1>2, <1>3 DEF Answered

\* The transition of j moves on, and its entry and session stay.
LEMMA AnsweredGoesOn ==
  ASSUME Answered, NEW j \in Key, Moving(j), NEW b \in Ways, WaysTo(j, b), \A p \in Ways : Single(p)', ConnRests,
         \A k \in Key : EntryRests(k)
  PROVE  Answered'
  <1>1. Moving(j)'
    BY DEF Moving, WaysTo
  <1>2. EntryFits(j)'
    BY <1>1 DEF Answered, EntryFits, EntryRests, ConnRests
  <1> QED
    BY <1>2, AnsweredMoves

----------------------------------------------------------------------------
(* One kind of transition at a time. *)

\* The queue of the game threads.
\* A queue loses or gains no task of this type.
LEMMA HoldsRest ==
  ASSUME NEW S, NEW seq \in Seq(S), NEW new, NEW type, OnceIn(seq, type),
         \/ new = seq
         \/ \E x \in S : x.type # type /\ new = Append(seq, x)
         \/ seq # <<>> /\ Head(seq).type # type /\ new = Tail(seq)
  PROVE  (\A k : Holds(new, type, k) <=> Holds(seq, type, k)) /\ OnceIn(new, type)
  <1>1. CASE new = seq
    BY <1>1
  <1>2. ASSUME NEW x \in S, x.type # type, new = Append(seq, x)
        PROVE  (\A k : Holds(new, type, k) <=> Holds(seq, type, k)) /\ OnceIn(new, type)
    BY <1>2, HoldsAppend
  <1>3. CASE seq # <<>> /\ Head(seq).type # type /\ new = Tail(seq)
    BY <1>3, HoldsTail
  <1> QED
    BY <1>1, <1>2, <1>3

LEMMA CreatesRest ==
  ASSUME GameOK, Single("create"),
         \/ UNCHANGED lifeTasks
         \/ \E x \in LifecycleTask : x.type # "CREATE" /\ lifeTasks' = Append(lifeTasks, x)
         \/ lifeTasks # <<>> /\ Head(lifeTasks).type # "CREATE" /\ lifeTasks' = Tail(lifeTasks)
  PROVE  WayRests("create") /\ Single("create")'
  <1>1. lifeTasks \in Seq(LifecycleTask) /\ OnceIn(lifeTasks, "CREATE")
    BY DEF GameOK, Single
  <1>2. (\A k : Holds(lifeTasks', "CREATE", k) <=> Holds(lifeTasks, "CREATE", k)) /\ OnceIn(lifeTasks', "CREATE")
    BY <1>1, HoldsRest
  <1> QED
    BY <1>2 DEF WayRests, Under, Single

LEMMA CreateQueued ==
  ASSUME GameOK, Single("create"), NEW j \in Key, ~Under(j, "create"), lifeTasks' = Append(lifeTasks, [type |-> "CREATE", key |-> j])
  PROVE  WayTakes("create", j) /\ Single("create")'
  <1> DEFINE x == [type |-> "CREATE", key |-> j]
  <1>1. lifeTasks \in Seq(LifecycleTask) /\ OnceIn(lifeTasks, "CREATE") /\ x \in LifecycleTask /\ ~Holds(lifeTasks, "CREATE", j)
    BY DEF GameOK, Single, Under, LifecycleTask
  <1>2. x.type = "CREATE" /\ x.key = j /\ lifeTasks' = Append(lifeTasks, x)
    OBVIOUS
  <1> HIDE DEF x
  <1>3. (\A k : Holds(lifeTasks', "CREATE", k) <=> Holds(lifeTasks, "CREATE", k) \/ k = j) /\ OnceIn(lifeTasks', "CREATE")
    BY <1>1, <1>2, HoldsAppend
  <1> QED
    BY <1>3 DEF WayTakes, Under, Single

LEMMA CreateTaken ==
  ASSUME GameOK, Single("create"), lifeTasks # <<>>, Head(lifeTasks).type = "CREATE", lifeTasks' = Tail(lifeTasks)
  PROVE  /\ Head(lifeTasks).key \in Key /\ Under(Head(lifeTasks).key, "create")
         /\ WayLoses("create", Head(lifeTasks).key) /\ Single("create")'
  <1>1. lifeTasks \in Seq(LifecycleTask) /\ OnceIn(lifeTasks, "CREATE")
    BY DEF GameOK, Single
  <1>2. (\A k : Holds(lifeTasks', "CREATE", k) <=> Holds(lifeTasks, "CREATE", k) /\ Head(lifeTasks).key # k)
        /\ OnceIn(lifeTasks', "CREATE")
    BY <1>1, HoldsTail
  <1>3. Head(lifeTasks) \in LifecycleTask /\ Head(lifeTasks) \in TasksOf(lifeTasks)
    BY <1>1, QueueFacts
  <1> QED
    BY <1>2, <1>3 DEF WayLoses, Under, Single, Holds, LifecycleTask

\* The game threads that make rooms.
LEMMA MakersRest ==
  ASSUME Single("make"), \A g \in GameThreads, k \in Key : Making(g, k)' <=> Making(g, k)
  PROVE  WayRests("make") /\ Single("make")'
  BY DEF WayRests, Under, Single, OneMaker

LEMMA MakerBegins ==
  ASSUME Single("make"), NEW g \in GameThreads, NEW j \in Key, ~Under(j, "make"),
         \A k \in Key : ~Making(g, k) /\ (Making(g, k)' <=> k = j),
         \A h \in GameThreads \ {g}, k \in Key : Making(h, k)' <=> Making(h, k)
  PROVE  WayTakes("make", j) /\ Single("make")'
  BY DEF WayTakes, Under, Single, OneMaker

LEMMA MakerEnds ==
  ASSUME Single("make"), NEW g \in GameThreads, NEW j \in Key, Making(g, j), \A k \in Key : ~Making(g, k)',
         \A h \in GameThreads \ {g}, k \in Key : Making(h, k)' <=> Making(h, k)
  PROVE  Under(j, "make") /\ WayLoses("make", j) /\ Single("make")'
  <1>1. \A k \in Key : Making(g, k) <=> k = j
    BY DEF Making
  <1> QED
    BY <1>1 DEF WayLoses, Under, Single, OneMaker

\* The threads between the halves of ENTER_LOBBY.
LEMMA EntersRest ==
  ASSUME Single("enter"), \A t \in LobbyThreads, k \in Key : Entering(t, k)' <=> Entering(t, k)
  PROVE  WayRests("enter") /\ Single("enter")'
  BY DEF WayRests, Under, Single, OneEntering

LEMMA EnterBegins ==
  ASSUME Single("enter"), NEW t \in LobbyThreads, NEW j \in Key, ~Under(j, "enter"),
         \A k \in Key : ~Entering(t, k) /\ (Entering(t, k)' <=> k = j),
         \A u \in LobbyThreads \ {t}, k \in Key : Entering(u, k)' <=> Entering(u, k)
  PROVE  WayTakes("enter", j) /\ Single("enter")'
  BY DEF WayTakes, Under, Single, OneEntering

LEMMA EnterEnds ==
  ASSUME Single("enter"), NEW t \in LobbyThreads, NEW j \in Key, Entering(t, j), \A k \in Key : ~Entering(t, k)',
         \A u \in LobbyThreads \ {t}, k \in Key : Entering(u, k)' <=> Entering(u, k)
  PROVE  Under(j, "enter") /\ WayLoses("enter", j) /\ Single("enter")'
  <1>1. \A k \in Key : Entering(t, k) <=> k = j
    BY DEF Entering
  <1> QED
    BY <1>1 DEF WayLoses, Under, Single, OneEntering

\* The answers.
LEMMA AnswersRest ==
  ASSUME QueueOK, Single("answer"), NEW q, Posting(q), \A x \in TasksOf(q) : x.type # "ROOM_TRANSITION_RESULT",
         TasksRest("ROOM_TRANSITION_RESULT")
  PROVE  WayRests("answer") /\ Single("answer")'
  BY FlyingRest DEF WayRests, Under, Single

LEMMA AnswerPosted ==
  ASSUME QueueOK, Single("answer"), NEW j \in Key, ~Under(j, "answer"), NEW ok \in BOOLEAN, NEW match \in BOOLEAN,
         lobbyTasks' = Append(lobbyTasks, TransitionResult(j, ok, match)), TasksRest("ROOM_TRANSITION_RESULT")
  PROVE  WayTakes("answer", j) /\ Single("answer")'
  <1>1. PICK x \in LobbyTask : x = TransitionResult(j, ok, match) /\ x.type = "ROOM_TRANSITION_RESULT" /\ x.key = j
    BY TaskTypes
  <1>2. ~Flying(x.type, x.key) /\ Once(x.type) /\ TasksRest(x.type) /\ lobbyTasks' = Append(lobbyTasks, x)
    BY <1>1 DEF Under, Single
  <1>3. (\A k : Flying(x.type, k)' <=> Flying(x.type, k) \/ k = x.key) /\ Once(x.type)'
    BY <1>2, FlyingPosted
  <1> QED
    BY <1>1, <1>3 DEF WayTakes, Under, Single

LEMMA AnswerEnded ==
  ASSUME QueueOK, Single("answer"), NEW t \in LobbyThreads, HasTask(t, "ROOM_TRANSITION_RESULT"), lpc'[t] # "task",
         \A u \in LobbyThreads \ {t} : lpc'[u] = lpc[u] /\ ltask'[u] = ltask[u], UNCHANGED lobbyTasks
  PROVE  Under(ltask[t].key, "answer") /\ WayLoses("answer", ltask[t].key) /\ Single("answer")'
  <1>1. Posting(<<>>) /\ \A x \in TasksOf(<<>>) : x.type # "ROOM_TRANSITION_RESULT"
    BY PostNothing
  <1> DEFINE q == <<>>
  <1> HIDE DEF q
  <1>2. Posting(q) /\ \A x \in TasksOf(q) : x.type # "ROOM_TRANSITION_RESULT"
    BY <1>1 DEF q
  <1>3. Once("ROOM_TRANSITION_RESULT")
    BY DEF Single
  <1>4. (\A k : Flying("ROOM_TRANSITION_RESULT", k)' <=> Flying("ROOM_TRANSITION_RESULT", k) /\ k # ltask[t].key)
        /\ Once("ROOM_TRANSITION_RESULT")'
    BY <1>2, <1>3, FlyingEnds
  <1>5. Flying("ROOM_TRANSITION_RESULT", ltask[t].key)
    BY FlyingIs
  <1> QED
    BY <1>4, <1>5 DEF WayLoses, Under, Single

\* The queues of the rooms.
LEMMA JoinsRest ==
  ASSUME RoomsOK, Single("join"),
         \A r \in RoomKeys :
            \/ rooms'[r].tasks = rooms[r].tasks
            \/ \E x \in RoomTask : x.type # "JOIN" /\ rooms'[r].tasks = Append(rooms[r].tasks, x)
            \/ rooms[r].tasks # <<>> /\ Head(rooms[r].tasks).type # "JOIN" /\ rooms'[r].tasks = Tail(rooms[r].tasks)
  PROVE  WayRests("join") /\ Single("join")'
  <1>1. ASSUME NEW r \in RoomKeys PROVE (\A k : Joining(r, k)' <=> Joining(r, k)) /\ OnceIn(rooms'[r].tasks, "JOIN")
    <2>1. rooms[r].tasks \in Seq(RoomTask) /\ OnceIn(rooms[r].tasks, "JOIN")
      BY DEF RoomsOK, Room, Single, OneJoin
    <2> DEFINE seq == rooms[r].tasks
               new == rooms'[r].tasks
    <2>2. seq \in Seq(RoomTask) /\ OnceIn(seq, "JOIN")
      BY <2>1
    <2>3. \/ new = seq
          \/ \E x \in RoomTask : x.type # "JOIN" /\ new = Append(seq, x)
          \/ seq # <<>> /\ Head(seq).type # "JOIN" /\ new = Tail(seq)
      OBVIOUS
    <2> HIDE DEF seq, new
    <2>4. (\A k : Holds(new, "JOIN", k) <=> Holds(seq, "JOIN", k)) /\ OnceIn(new, "JOIN")
      BY <2>2, <2>3, HoldsRest
    <2> QED
      BY <2>4 DEF Joining, seq, new
  <1> QED
    BY <1>1 DEF WayRests, Under, Single, OneJoin

LEMMA JoinQueued ==
  ASSUME RoomsOK, Single("join"), NEW j \in Key, ~Under(j, "join"), NEW r \in RoomKeys, NEW x \in RoomTask, x.type = "JOIN", x.key = j,
         rooms' = AddRoomTask(rooms, r, x)
  PROVE  WayTakes("join", j) /\ Single("join")'
  <1> DEFINE seq == rooms[r].tasks
             new == rooms'[r].tasks
  <1>1. seq \in Seq(RoomTask) /\ OnceIn(seq, "JOIN") /\ ~Holds(seq, "JOIN", j)
    BY DEF RoomsOK, Room, Single, OneJoin, Under, Joining
  <1>2. new = Append(seq, x) /\ \A q \in RoomKeys \ {r} : rooms'[q] = rooms[q]
    BY DEF RoomsOK, Room, AddRoomTask
  <1> HIDE DEF seq, new
  <1>3. (\A k : Holds(new, "JOIN", k) <=> Holds(seq, "JOIN", k) \/ k = j) /\ OnceIn(new, "JOIN")
    BY <1>1, <1>2, HoldsAppend
  <1>4. \A k : Joining(r, k)' <=> Joining(r, k) \/ k = j
    BY <1>3 DEF Joining, seq, new
  <1>5. \A q \in RoomKeys \ {r} : (\A k : Joining(q, k)' <=> Joining(q, k)) /\ (OnceIn(rooms[q].tasks, "JOIN") => OnceIn(rooms'[q].tasks, "JOIN"))
    BY <1>2 DEF Joining
  <1>6. OneJoin'
    <2>1. \A q \in RoomKeys : OnceIn(rooms'[q].tasks, "JOIN")
      BY <1>3, <1>5 DEF Single, OneJoin, new
    <2>2. \A q \in RoomKeys : ~Joining(q, j)
      BY DEF Under
    <2>3. \A k \in Key : \A p, q \in RoomKeys : Joining(p, k)' /\ Joining(q, k)' => p = q
      BY <1>4, <1>5, <2>2 DEF Single, OneJoin
    <2> QED
      BY <2>1, <2>3 DEF OneJoin
  <1>7. WayTakes("join", j)
    BY <1>4, <1>5 DEF WayTakes, Under
  <1> QED
    BY <1>6, <1>7 DEF Single

LEMMA JoinTaken ==
  ASSUME RoomsOK, Single("join"), NEW r \in RoomKeys, rooms[r].tasks # <<>>, Head(rooms[r].tasks).type = "JOIN",
         rooms'[r].tasks = Tail(rooms[r].tasks), \A q \in RoomKeys \ {r} : rooms'[q] = rooms[q]
  PROVE  /\ Under(Head(rooms[r].tasks).key, "join")
         /\ WayLoses("join", Head(rooms[r].tasks).key) /\ Single("join")'
  <1> DEFINE seq == rooms[r].tasks
             new == rooms'[r].tasks
             j == Head(rooms[r].tasks).key
  <1>1. seq \in Seq(RoomTask) /\ OnceIn(seq, "JOIN") /\ seq # <<>> /\ Head(seq).type = "JOIN" /\ Head(seq).key = j /\ new = Tail(seq)
    BY DEF RoomsOK, Room, Single, OneJoin
  <1> HIDE DEF seq, new, j
  <1>2. (\A k : Holds(new, "JOIN", k) <=> Holds(seq, "JOIN", k) /\ k # j) /\ OnceIn(new, "JOIN")
    BY <1>1, HoldsTail
  <1>3. Holds(seq, "JOIN", j)
    BY <1>1, QueueFacts DEF Holds
  <1>4. Joining(r, j) /\ \A k : Joining(r, k)' <=> Joining(r, k) /\ k # j
    BY <1>2, <1>3 DEF Joining, seq, new
  <1>5. \A q \in RoomKeys \ {r} : (\A k : Joining(q, k)' <=> Joining(q, k)) /\ (OnceIn(rooms[q].tasks, "JOIN") => OnceIn(rooms'[q].tasks, "JOIN"))
    BY DEF Joining
  <1>6. j \in Key
    <2>1. Head(seq) \in RoomTask
      BY <1>1, QueueFacts
    <2> QED
      BY <1>1, <2>1 DEF RoomTask
  <1>7. \A q \in RoomKeys \ {r} : ~Joining(q, j)
    BY <1>4, <1>6 DEF Single, OneJoin
  <1>8. OneJoin'
    <2>1. \A q \in RoomKeys : OnceIn(rooms'[q].tasks, "JOIN")
      BY <1>2, <1>5 DEF Single, OneJoin, new
    <2>2. \A k \in Key : \A p, q \in RoomKeys : Joining(p, k)' /\ Joining(q, k)' => p = q
      BY <1>4, <1>5 DEF Single, OneJoin
    <2> QED
      BY <2>1, <2>2 DEF OneJoin
  <1>9. WayLoses("join", j)
    BY <1>4, <1>5, <1>7 DEF WayLoses, Under
  <1> QED
    BY <1>4, <1>8, <1>9 DEF Single, Under, j

----------------------------------------------------------------------------
(* Steps that move no transition, and entries that stay. *)

LEMMA WaysFrame ==
  ASSUME Answered
  PROVE  /\ UNCHANGED lifeTasks => WayRests("create") /\ Single("create")'
         /\ UNCHANGED <<gpc, gkey>> => WayRests("make") /\ Single("make")'
         /\ UNCHANGED rooms => WayRests("join") /\ Single("join")'
         /\ UNCHANGED <<lobbyTasks, lpc, ltask>> => WayRests("answer") /\ Single("answer")'
         /\ UNCHANGED <<lpc, ltask>> => WayRests("enter") /\ Single("enter")'
  <1>1. \A p \in Ways : Single(p)
    BY DEF Answered
  <1>2. Single("create") /\ Single("make") /\ Single("join") /\ Single("answer") /\ Single("enter")
    BY <1>1 DEF Ways
  <1>3. ASSUME UNCHANGED lifeTasks PROVE WayRests("create") /\ Single("create")'
    BY <1>2, <1>3 DEF WayRests, Under, Single
  <1>4. ASSUME UNCHANGED <<gpc, gkey>> PROVE WayRests("make") /\ Single("make")'
    BY <1>2, <1>4, MakersRest DEF Making
  <1>5. ASSUME UNCHANGED rooms PROVE WayRests("join") /\ Single("join")'
    BY <1>2, <1>5 DEF WayRests, Under, Single, OneJoin, Joining
  <1>6. ASSUME UNCHANGED <<lobbyTasks, lpc, ltask>> PROVE WayRests("answer") /\ Single("answer")'
    BY <1>2, <1>6 DEF WayRests, Under, Single, Once, HasTask, Flying, Waiting
  <1>7. ASSUME UNCHANGED <<lpc, ltask>> PROVE WayRests("enter") /\ Single("enter")'
    BY <1>2, <1>7, EntersRest DEF Entering
  <1> QED
    BY <1>3, <1>4, <1>5, <1>6, <1>7

LEMMA AllRest ==
  ASSUME WayRests("create") /\ Single("create")', WayRests("make") /\ Single("make")', WayRests("join") /\ Single("join")',
         WayRests("answer") /\ Single("answer")', WayRests("enter") /\ Single("enter")'
  PROVE  WaysRest
  BY DEF WaysRest, Ways

\* Tasks are posted while the threads rest, and none of them is an answer.
LEMMA AnswersQuiet ==
  ASSUME Typed, Answered, UNCHANGED <<lpc, ltask>>, NEW q, Posting(q), \A x \in TasksOf(q) : x.type # "ROOM_TRANSITION_RESULT"
  PROVE  WayRests("answer") /\ Single("answer")'
  <1>1. TasksRest("ROOM_TRANSITION_RESULT") /\ Single("answer") /\ QueueOK
    BY DEF TasksRest, HasTask, Answered, Ways, Typed
  <1> QED
    BY <1>1, AnswersRest

\* A thread whose task is no answer, and that does not run ENTER_LOBBY, goes on or is done.
LEMMA ThreadWays ==
  ASSUME Typed, Answered, NEW t \in LobbyThreads, \A u \in LobbyThreads \ {t} : lpc'[u] = lpc[u] /\ ltask'[u] = ltask[u],
         ~HasTask(t, "ROOM_TRANSITION_RESULT"), lpc[t] # "enter", lpc'[t] \notin {"task", "enter"}
  PROVE  WayRests("enter") /\ Single("enter")' /\ TasksRest("ROOM_TRANSITION_RESULT")
  <1>1. \A u \in LobbyThreads, k \in Key : Entering(u, k)' <=> Entering(u, k)
    BY DEF Entering
  <1>2. Single("enter")
    BY DEF Answered, Ways
  <1>3. TasksRest("ROOM_TRANSITION_RESULT")
    BY DEF TasksRest, HasTask
  <1> QED
    BY <1>1, <1>2, <1>3, EntersRest

LEMMA ThreadAnswers ==
  ASSUME Typed, Answered, TasksRest("ROOM_TRANSITION_RESULT"), NEW q, Posting(q),
         \A x \in TasksOf(q) : x.type # "ROOM_TRANSITION_RESULT"
  PROVE  WayRests("answer") /\ Single("answer")'
  BY AnswersRest DEF Answered, Ways, Typed

\* The thread t is done with a task, and the game threads and the rooms rest.
LEMMA DoneRests ==
  ASSUME Typed, Answered, NEW t \in LobbyThreads, ~HasTask(t, "ROOM_TRANSITION_RESULT"), lpc[t] # "enter",
         DoneLobby(t) \/ \E p \in {"forget", "finalize"} : GotoLobby(t, p), UNCHANGED <<gameVars>>,
         NEW q, Posting(q), \A x \in TasksOf(q) : x.type # "ROOM_TRANSITION_RESULT"
  PROVE  \A p \in Ways \ {"join"} : WayRests(p) /\ Single(p)'
  <1>1. (\A u \in LobbyThreads \ {t} : lpc'[u] = lpc[u] /\ ltask'[u] = ltask[u]) /\ lpc'[t] \notin {"task", "enter"}
    BY DoneOthers DEF Typed
  <1>2. WayRests("enter") /\ Single("enter")' /\ WayRests("answer") /\ Single("answer")'
    BY <1>1, ThreadWays, ThreadAnswers
  <1>3. WayRests("create") /\ Single("create")' /\ WayRests("make") /\ Single("make")'
    BY WaysFrame DEF gameVars
  <1> QED
    BY <1>2, <1>3 DEF Ways

\* No session begins to be alive.
LivesRest ==
  \A s \in Slots : sess'[s].life \in {"ACTIVE", "DISCONNECT_PENDING"} =>
                     sess[s].life \in {"ACTIVE", "DISCONNECT_PENDING"} /\ sess'[s].id = sess[s].id

LEMMA LivesStay ==
  /\ UNCHANGED sess => LivesRest
  /\ \A s \in Slots, b \in BOOLEAN : SessOK /\ sess' = [sess EXCEPT ![s].right = b] => LivesRest
  /\ \A s \in Slots : \A x : SessOK /\ sess' = [sess EXCEPT ![s] = x] /\ x.id = sess[s].id
         /\ (x.life = sess[s].life \/ x.life \notin {"ACTIVE", "DISCONNECT_PENDING"}
             \/ sess[s].life \in {"ACTIVE", "DISCONNECT_PENDING"}) => LivesRest
  <1>1. UNCHANGED sess => LivesRest
    BY DEF LivesRest
  <1>2. ASSUME NEW s \in Slots, NEW x, SessOK, sess' = [sess EXCEPT ![s] = x], x.id = sess[s].id,
               x.life = sess[s].life \/ x.life \notin {"ACTIVE", "DISCONNECT_PENDING"} \/ sess[s].life \in {"ACTIVE", "DISCONNECT_PENDING"}
        PROVE  LivesRest
    <2>1. sess'[s] = x /\ \A q \in Slots \ {s} : sess'[q] = sess[q]
      BY <1>2, RightIn
    <2> QED
      BY <1>2, <2>1 DEF LivesRest
  <1>3. ASSUME NEW s \in Slots, NEW b \in BOOLEAN, SessOK, sess' = [sess EXCEPT ![s].right = b] PROVE LivesRest
    <2> DEFINE x == [sess[s] EXCEPT !.right = b]
    <2>1. x.id = sess[s].id /\ x.life = sess[s].life /\ sess' = [sess EXCEPT ![s] = x]
      BY <1>3 DEF SessOK, Session
    <2> HIDE DEF x
    <2> QED
      BY <1>2, <1>3, <2>1
  <1> QED
    BY <1>1, <1>2, <1>3

LEMMA EntriesRest ==
  ASSUME UNCHANGED entry, LivesRest
  PROVE  \A k \in Key : EntryRests(k)
  <1>1. \A k \in Key : k[1] \in Slots
    BY KeyFacts
  <1> QED
    BY <1>1 DEF EntryRests, EntryIs, LivesRest, Alive, Found

LEMMA SameConn ==
  ASSUME UNCHANGED conn
  PROVE  ConnRests
  BY DEF ConnRests

\* Nothing about the transitions changes.
LEMMA StillAnswered ==
  ASSUME Answered, WaysRest, UNCHANGED <<conn, entry>>, LivesRest
  PROVE  Answered'
  BY AnsweredRests, EntriesRest, SameConn

\* The entry of j is set, and its session lives on; no other connection of its slot has an entry.
LEMMA EntrySet ==
  ASSUME Typed, NEW j \in Key, NEW x, entry' = [entry EXCEPT ![j[1]] = x], LivesRest,
         entry[j[1]].state = "EMPTY" \/ entry[j[1]].id = j[2],
         x.state = "EMPTY" \/ x.id = j[2]
  PROVE  (\A k \in Key \ {j} : EntryRests(k)) /\ \A st \in {"PENDING", "ACTIVE"} : EntryIs(j, st)' <=> x.state = st /\ x.id = j[2]
  <1>1. entry'[j[1]] = x /\ \A q \in Slots \ {j[1]} : entry'[q] = entry[q]
    BY KeyFacts DEF Typed, LobbyOK
  <1>2. \A k \in Key : k[1] \in Slots /\ (k[1] = j[1] /\ k[2] = j[2] => k = j)
    BY KeyFacts
  <1>3. ASSUME NEW k \in Key \ {j} PROVE EntryRests(k)
    <2>1. CASE k[1] = j[1]
      <3>1. ~EntryIs(k, "ACTIVE")' /\ ~EntryIs(k, "PENDING")' /\ ~EntryIs(k, "PENDING")
        BY <1>1, <1>2, <2>1 DEF EntryIs
      <3> QED
        BY <1>2, <3>1 DEF EntryRests, LivesRest, Alive, Found
    <2>2. CASE k[1] # j[1]
      BY <1>1, <1>2, <2>2 DEF EntryRests, EntryIs, LivesRest, Alive, Found
    <2> QED
      BY <2>1, <2>2
  <1> QED
    BY <1>1, <1>3 DEF EntryIs

\* j has no transition, before the step or after it.
LEMMA NoneRests ==
  ASSUME WaysRest, NEW j \in Key, ~Moving(j)
  PROVE  WaysTo(j, "none")
  <1>1. "none" \notin Ways
    BY DEF Ways
  <1> QED
    BY <1>1 DEF WaysTo, WaysRest, WayRests, Moving

LEMMA NoneLeft ==
  ASSUME NEW j \in Key, WaysTo(j, "none"), ~EntryIs(j, "PENDING")'
  PROVE  EntryFits(j)'
  <1>1. "none" \notin Ways
    BY DEF Ways
  <1>2. ~Moving(j)'
    BY <1>1 DEF WaysTo, Moving
  <1> QED
    BY <1>2 DEF EntryFits

----------------------------------------------------------------------------
(* The steps of the network and of the lobby's queue. *)

LEMMA NetworkAnswers ==
  ASSUME Typed, Answered, NEW s \in Slots, AcquireSession(s) \/ CompleteSessionIO(s)
  PROVE  Answered'
  <1>1. UNCHANGED <<entry, active, lpc, ltask, rooms, lifeTasks, gpc, gkey>>
    BY DEF AcquireSession, CompleteSessionIO, lobbyVars, threadVars, gameVars
  <1>2. \E x \in LobbyTask : x.type # "ROOM_TRANSITION_RESULT" /\ lobbyTasks' = Append(lobbyTasks, x)
    <2>1. CASE AcquireSession(s)
      <3>1. <<s, conn[s] + 1>> \in Key
        BY <2>1, IdsLeft, KeyFacts DEF Typed, AcquireSession
      <3> QED
        BY <2>1, <3>1, TaskTypes DEF AcquireSession, LobbyTaskType
    <2>2. CASE CompleteSessionIO(s)
      BY <2>2, OccupantKey, TaskTypes DEF Typed, CompleteSessionIO, LobbyTaskType
    <2> QED
      BY <2>1, <2>2
  <1>3. WaysRest
    <2>1. PICK x \in LobbyTask : x.type # "ROOM_TRANSITION_RESULT" /\ lobbyTasks' = Append(lobbyTasks, x)
      BY <1>2
    <2>2. Posting(<<x>>) /\ TasksOf(<<x>>) = {x}
      BY <2>1, PostOne DEF Typed
    <2> DEFINE q == <<x>>
    <2>3. Posting(q) /\ \A y \in TasksOf(q) : y.type # "ROOM_TRANSITION_RESULT"
      BY <2>1, <2>2
    <2> HIDE DEF q
    <2>4. WayRests("answer") /\ Single("answer")'
      BY <1>1, <2>3, AnswersQuiet
    <2> QED
      BY <1>1, <2>4, WaysFrame, AllRest
  <1>4. CASE CompleteSessionIO(s)
    <2> DEFINE x == [sess[s] EXCEPT !.life = "DISCONNECTING"]
    <2>1. x.id = sess[s].id /\ x.life = "DISCONNECTING" /\ sess' = [sess EXCEPT ![s] = x] /\ UNCHANGED conn
      BY <1>4 DEF CompleteSessionIO, Typed, SessOK, Session
    <2> HIDE DEF x
    <2>2. LivesRest
      BY <2>1, LivesStay DEF Typed
    <2> QED
      BY <1>1, <1>3, <2>1, <2>2, StillAnswered
  <1>5. CASE AcquireSession(s)
    <2>1. PICK j \in Key : j[1] = s /\ j[2] = conn[s] + 1 /\ conn[s] \in Nat
      BY <1>5, IdsLeft, KeyFacts DEF Typed, AcquireSession, SessOK
    <2>2. conn'[s] = conn[s] + 1 /\ \A q \in Slots \ {s} : conn'[q] = conn[q] /\ sess'[q] = sess[q]
      BY <1>5 DEF AcquireSession, Typed, SessOK
    <2>3. sess'[s].id = conn[s] + 1
      BY <1>5 DEF AcquireSession, Typed, SessOK, Session
    <2>4. \A k \in Key : k[1] \in Slots /\ k[2] \in Nat /\ (k[1] = j[1] /\ k[2] = j[2] => k = j)
      BY <2>1, KeyFacts
    <2>5. ConnRests
      BY <2>1, <2>2, <2>4 DEF ConnRests
    <2>6. ~Moving(j) /\ ~EntryIs(j, "PENDING")
      BY <2>1 DEF Answered, EntryFits
    <2>7. WaysTo(j, "none")
      BY <1>3, <2>6, NoneRests
    <2>8. EntryFits(j)'
      BY <1>1, <2>6, <2>7, NoneLeft DEF EntryIs
    <2>9. \A k \in Key \ {j} : EntryRests(k)
      BY <1>1, <2>1, <2>2, <2>3, <2>4 DEF EntryRests, EntryIs, Alive, Found
    <2>10. \A p \in Ways : Single(p)'
      BY <1>3 DEF WaysRest
    <2> QED
      BY <2>1, <2>5, <2>7, <2>8, <2>9, <2>10, AnsweredMoves
  <1> QED
    BY <1>4, <1>5

LEMMA PhaseAnswers ==
  ASSUME Typed, Answered, StartLobbyPhase \/ EndLobbyTasks \/ UNCHANGED vars
  PROVE  Answered'
  <1>1. UNCHANGED <<sess, conn, entry, lobbyTasks, lpc, ltask, rooms, lifeTasks, gpc, gkey>>
    BY DEF StartLobbyPhase, EndLobbyTasks, vars, sessVars, lobbyVars, threadVars, gameVars
  <1>2. LivesRest
    BY <1>1, LivesStay
  <1>3. WaysRest
    BY <1>1, WaysFrame, AllRest
  <1> QED
    BY <1>1, <1>2, <1>3, StillAnswered

LEMMA DequeueAnswers ==
  ASSUME Typed, Answered, NEW t \in LobbyThreads, DequeueLobbyTask(t)
  PROVE  Answered'
  <1>1. UNCHANGED <<sess, conn, entry, rooms, lifeTasks, gpc, gkey>>
    BY DEF DequeueLobbyTask, sessVars, lobbyVars, gameVars
  <1>2. lpc[t] = "idle" /\ lpc'[t] = "task" /\ \A u \in LobbyThreads \ {t} : lpc'[u] = lpc[u] /\ ltask'[u] = ltask[u]
    BY DEF DequeueLobbyTask, Typed, ThreadOK
  <1>3. Single("answer") /\ Single("enter") /\ Once("ROOM_TRANSITION_RESULT")
    BY DEF Answered, Ways, Single
  <1>4. WayRests("answer") /\ Single("answer")'
    BY <1>3, FlyingTaken, DequeueOnce DEF WayRests, Under, Single
  <1>5. WayRests("enter") /\ Single("enter")'
    BY <1>2, <1>3, EntersRest DEF Entering
  <1>6. WaysRest
    BY <1>1, <1>4, <1>5, WaysFrame, AllRest
  <1> QED
    BY <1>1, <1>6, LivesStay, StillAnswered

----------------------------------------------------------------------------
(* The transitions in the tasks of the lobby. *)

\* A transition of j ends, or none of j begins.
LEMMA AnsweredDone ==
  ASSUME Answered, NEW j \in Key, WaysTo(j, "none"), \A p \in Ways : Single(p)', UNCHANGED conn,
         \A k \in Key \ {j} : EntryRests(k), ~EntryIs(j, "PENDING")'
  PROVE  Answered'
  BY NoneLeft, SameConn, AnsweredMoves

\* The answer to j is at hand, and the thread is done with it.
LEMMA AnswerTaken ==
  ASSUME Typed, Answered, NEW t \in LobbyThreads, HasTask(t, "ROOM_TRANSITION_RESULT"),
         DoneLobby(t) \/ GotoLobby(t, "forget"), UNCHANGED gameVars
  PROVE  /\ ltask[t].key \in Key /\ Under(ltask[t].key, "answer")
         /\ UNCHANGED lobbyTasks => WayLoses("answer", ltask[t].key) /\ Single("answer")'
         /\ \A p \in Ways \ {"join", "answer"} : WayRests(p) /\ Single(p)'
  <1>1. (\A u \in LobbyThreads \ {t} : lpc'[u] = lpc[u] /\ ltask'[u] = ltask[u]) /\ lpc'[t] \notin {"task", "enter"}
    BY DoneOthers DEF Typed
  <1>2. Single("answer") /\ Single("enter") /\ QueueOK
    BY DEF Answered, Ways, Typed
  <1>3. lpc[t] = "task" /\ ltask[t].key \in Key
    BY ThreadKey DEF HasTask, Typed
  <1>4. UNCHANGED lobbyTasks => WayLoses("answer", ltask[t].key) /\ Single("answer")'
    BY <1>1, <1>2, AnswerEnded
  <1>5. WayRests("enter") /\ Single("enter")'
    BY <1>1, <1>2, <1>3, EntersRest DEF Entering
  <1>6. Under(ltask[t].key, "answer")
    BY FlyingIs DEF Under
  <1>7. WayRests("create") /\ Single("create")' /\ WayRests("make") /\ Single("make")'
    BY WaysFrame DEF gameVars
  <1> QED
    BY <1>3, <1>4, <1>5, <1>6, <1>7 DEF Ways

LEMMA AnswerGone ==
  ASSUME Typed, Answered, NEW t \in LobbyThreads, HasTask(t, "ROOM_TRANSITION_RESULT"),
         DoneLobby(t) \/ GotoLobby(t, "forget"), UNCHANGED <<gameVars, lobbyTasks, rooms>>
  PROVE  WaysTo(ltask[t].key, "none") /\ \A p \in Ways : Single(p)'
  <1> DEFINE j == ltask[t].key
             a == "answer"
             b == "none"
  <1>1. UNCHANGED gameVars /\ UNCHANGED lobbyTasks /\ UNCHANGED rooms
    OBVIOUS
  <1>2. j \in Key /\ Under(j, a) /\ WayLoses(a, j) /\ Single(a)'
        /\ \A p \in Ways \ {"join", "answer"} : WayRests(p) /\ Single(p)'
    BY <1>1, AnswerTaken
  <1>3. WayRests("join") /\ Single("join")'
    BY <1>1, WaysFrame
  <1>4. a \in Ways \cup {"none"} /\ b \in Ways \cup {"none"} /\ a # b /\ b = "none" /\ a # "none" /\ a = "answer"
    BY DEF Ways
  <1>5. \A p \in Ways : p \notin {a, b} => WayRests(p)
    BY <1>2, <1>3
  <1>6. \A p \in Ways : Single(p)'
    BY <1>2, <1>3
  <1>7. Exclusive
    BY DEF Answered
  <1> HIDE DEF j, a, b
  <1>8. WaysTo(j, b)
    BY <1>2, <1>4, <1>5, <1>7, WaysMoved
  <1> QED
    BY <1>6, <1>8 DEF j, b

LEMMA QueueAnswers ==
  ASSUME Typed, Answered, NEW t \in LobbyThreads, AddSession(t) \/ ForgetSession(t) \/ RemoveActiveSession(t)
  PROVE  Answered'
  <1>1. UNCHANGED <<sess, conn>> /\ UNCHANGED lobbyTasks /\ UNCHANGED rooms /\ UNCHANGED gameVars
    BY DEF AddSession, ForgetSession, RemoveActiveSession, sessVars, gameVars
  <1>2. PICK k \in Key : k = ltask[t].key /\ k[1] \in Slots
    BY ThreadKey, KeyFacts DEF Typed, AddSession, ForgetSession, RemoveActiveSession
  <1>3. LivesRest
    BY <1>1, LivesStay
  <1>4. ASSUME ~HasTask(t, "ROOM_TRANSITION_RESULT"), lpc[t] # "enter", DoneLobby(t) PROVE WaysRest
    <2>1. PICK q : Posting(q) /\ \A x \in TasksOf(q) : x.type # "ROOM_TRANSITION_RESULT"
      BY <1>1, PostNothing DEF Typed
    <2>2. \A p \in Ways \ {"join"} : WayRests(p) /\ Single(p)'
      BY <1>1, <1>4, <2>1, DoneRests
    <2> QED
      BY <1>1, <2>2, WaysFrame DEF WaysRest
  <1>5. CASE AddSession(t)
    <2>1. WaysRest
      BY <1>4, <1>5 DEF AddSession, HasTask
    <2>2. CASE UNCHANGED entry
      BY <1>1, <1>3, <2>1, <2>2, StillAnswered
    <2>3. CASE IsActive(k) /\ entry[k[1]].state = "EMPTY" /\ entry' = [entry EXCEPT ![k[1]] = [state |-> "ACTIVE", id |-> k[2]]]
      <3>1. (\A j \in Key \ {k} : EntryRests(j)) /\ ~EntryIs(k, "PENDING")'
        <4> DEFINE x == [state |-> "ACTIVE", id |-> k[2]]
        <4>1. entry' = [entry EXCEPT ![k[1]] = x] /\ x.id = k[2] /\ x.state # "PENDING"
          BY <2>3
        <4> HIDE DEF x
        <4> QED
          BY <1>3, <2>3, <4>1, EntrySet
      <3>2. ~Moving(k)
        BY <2>3 DEF Answered, EntryFits, EntryIs, Alive, IsActive
      <3>3. WaysTo(k, "none") /\ \A p \in Ways : Single(p)'
        BY <2>1, <3>2, NoneRests DEF WaysRest
      <3> QED
        BY <1>1, <3>1, <3>3, AnsweredDone
    <2> QED
      BY <1>2, <1>5, <2>2, <2>3 DEF AddSession, lobbyVars
  <1>6. CASE ForgetSession(t)
    <2>1. HasTask(t, "ROOM_TRANSITION_RESULT") /\ (DoneLobby(t) \/ GotoLobby(t, "forget")) /\ entry' = ClearEntry(k)
      BY <1>2, <1>6 DEF ForgetSession, HasTask
    <2>2. WaysTo(k, "none") /\ \A p \in Ways : Single(p)'
      BY <1>1, <1>2, <2>1, AnswerGone
    <2>3. (\A j \in Key \ {k} : EntryRests(j)) /\ ~EntryIs(k, "PENDING")'
      <3>1. CASE EntryMatches(k)
        <4> DEFINE x == EmptyEntry
        <4>1. entry' = [entry EXCEPT ![k[1]] = x] /\ x.state = "EMPTY" /\ entry[k[1]].id = k[2]
          BY <2>1, <3>1 DEF ClearEntry, EntryMatches, EmptyEntry
        <4> HIDE DEF x
        <4> QED
          BY <1>3, <4>1, EntrySet
      <3>2. CASE ~EntryMatches(k)
        <4>1. UNCHANGED entry
          BY <2>1, <3>2 DEF ClearEntry
        <4>2. ~EntryIs(k, "PENDING")'
          BY <3>2, <4>1 DEF EntryIs, EntryMatches
        <4> QED
          BY <1>3, <4>1, <4>2, EntriesRest
      <3> QED
        BY <3>1, <3>2
    <2> QED
      BY <1>1, <2>2, <2>3, AnsweredDone
  <1>7. CASE RemoveActiveSession(t)
    <2>1. WaysRest /\ UNCHANGED entry
      BY <1>4, <1>7 DEF RemoveActiveSession, HasTask
    <2> QED
      BY <1>1, <1>3, <2>1, StillAnswered
  <1> QED
    BY <1>5, <1>6, <1>7

\* What JoinTask does to the transitions.
LEMMA JoinAsked ==
  ASSUME Typed, Answered, NEW k \in Key, ~Under(k, "join"), NEW r \in RoomKeys, NEW match \in BOOLEAN, JoinTask(r, k, match)
  PROVE  \/ WayTakes("join", k) /\ Single("join")' /\ UNCHANGED lobbyTasks
         \/ WayRests("join") /\ Single("join")' /\ lobbyTasks' = Append(lobbyTasks, TransitionResult(k, FALSE, match))
  <1>1. CASE UNCHANGED rooms /\ lobbyTasks' = Append(lobbyTasks, TransitionResult(k, FALSE, match))
    BY <1>1, WaysFrame
  <1>2. CASE rooms' = AddRoomTask(rooms, r, [RTask("JOIN", k) EXCEPT !.match = match]) /\ UNCHANGED lobbyTasks
    <2> DEFINE x == [RTask("JOIN", k) EXCEPT !.match = match]
    <2>1. x \in RoomTask /\ x.key = k /\ x.type = "JOIN"
      BY RoomTaskTypes DEF RTask
    <2>2. rooms' = AddRoomTask(rooms, r, x) /\ Single("join") /\ RoomsOK
      BY <1>2 DEF Answered, Ways, Typed
    <2> HIDE DEF x
    <2> QED
      BY <1>2, <2>1, <2>2, JoinQueued
  <1> QED
    BY <1>1, <1>2 DEF JoinTask, JoinRefused

LEMMA ReturnAnswers ==
  ASSUME Typed, Answered, NEW t \in LobbyThreads, ReturnToLobby(t)
  PROVE  Answered'
  <1>1. UNCHANGED <<sess, conn>> /\ UNCHANGED gameVars /\ DoneLobby(t)
    BY DEF ReturnToLobby, sessVars
  <1>2. HasTask(t, "ROOM_TRANSITION_RESULT")
    BY DEF ReturnToLobby, HasTask
  <1>3. PICK k \in Key : k = ltask[t].key /\ k[1] \in Slots
    BY <1>2, ThreadKey, KeyFacts DEF Typed, HasTask
  <1>4. LivesRest
    BY <1>1, LivesStay
  <1>5. ASSUME UNCHANGED lobbyTasks, UNCHANGED rooms PROVE WaysTo(k, "none") /\ \A p \in Ways : Single(p)'
    BY <1>1, <1>2, <1>3, <1>5, AnswerGone
  <1>6. CASE UNCHANGED <<lobbyTasks, rooms>> /\ EntryMatches(k) /\ entry' = [entry EXCEPT ![k[1]].state = "ACTIVE"]
    <2> DEFINE x == [entry[k[1]] EXCEPT !.state = "ACTIVE"]
    <2>1. entry' = [entry EXCEPT ![k[1]] = x] /\ x.id = k[2] /\ x.state # "PENDING" /\ entry[k[1]].id = k[2]
      BY <1>3, <1>6 DEF Typed, LobbyOK, EntryMatches
    <2> HIDE DEF x
    <2>2. (\A j \in Key \ {k} : EntryRests(j)) /\ ~EntryIs(k, "PENDING")'
      BY <1>4, <2>1, EntrySet
    <2> QED
      BY <1>1, <1>5, <1>6, <2>2, AnsweredDone
  <1>7. CASE UNCHANGED <<entry, lobbyTasks, rooms>> /\ ~(EntryMatches(k) /\ entry[k[1]].state = "PENDING")
    <2>1. (\A j \in Key \ {k} : EntryRests(j)) /\ ~EntryIs(k, "PENDING")'
      BY <1>4, <1>7, EntriesRest DEF EntryIs, EntryMatches
    <2> QED
      BY <1>1, <1>5, <1>7, <2>1, AnsweredDone
  <1>8. ASSUME NEW r \in RoomKeys, JoinTask(r, k, TRUE), UNCHANGED entry PROVE Answered'
    <2>1. Under(k, "answer") /\ \A p \in Ways \ {"join", "answer"} : WayRests(p) /\ Single(p)'
      BY <1>1, <1>2, <1>3, AnswerTaken
    <2>2. ~Under(k, "join") /\ Moving(k)
      BY <2>1 DEF Answered, Exclusive, Ways, Moving
    <2>3. CASE WayTakes("join", k) /\ Single("join")' /\ UNCHANGED lobbyTasks
      <3>1. WayLoses("answer", k) /\ Single("answer")'
        BY <1>1, <1>2, <1>3, <2>3, AnswerTaken
      <3>2. WaysTo(k, "join")
        <4> DEFINE a == "answer"
                   b == "join"
        <4>1. a \in Ways /\ b \in Ways /\ a # b /\ a # "none" /\ b # "none" /\ Under(k, a) /\ WayLoses(a, k) /\ WayTakes(b, k)
          BY <2>1, <2>3, <3>1 DEF Ways
        <4>2. \A p \in Ways \ {a, b} : WayRests(p)
          BY <2>1
        <4>3. Exclusive
          BY DEF Answered
        <4> HIDE DEF a, b
        <4>4. WaysTo(k, b)
          BY <4>1, <4>2, <4>3, WaysMoved
        <4> QED
          BY <4>4 DEF b
      <3>3. \A p \in Ways : Single(p)'
        BY <2>1, <2>3, <3>1
      <3>4. "join" \in Ways
        BY DEF Ways
      <3>5. \A j \in Key : EntryRests(j)
        BY <1>4, <1>8, EntriesRest
      <3> QED
        BY <1>1, <2>2, <3>2, <3>3, <3>4, <3>5, SameConn, AnsweredGoesOn
    <2>4. CASE WayRests("join") /\ Single("join")' /\ lobbyTasks' = Append(lobbyTasks, TransitionResult(k, FALSE, TRUE))
      <3>1. PICK x \in LobbyTask : lobbyTasks' = Append(lobbyTasks, x) /\ x.type = "ROOM_TRANSITION_RESULT" /\ x.key = k
        BY <2>4, TaskTypes
      <3>2. (\A u \in LobbyThreads \ {t} : lpc'[u] = lpc[u] /\ ltask'[u] = ltask[u]) /\ lpc'[t] # "task"
        BY <1>1, DoneOthers DEF Typed
      <3>3. Once("ROOM_TRANSITION_RESULT") /\ QueueOK
        BY DEF Answered, Ways, Single, Typed
      <3>4. (\A j : Flying("ROOM_TRANSITION_RESULT", j)' <=> Flying("ROOM_TRANSITION_RESULT", j))
            /\ Once("ROOM_TRANSITION_RESULT")'
        BY <1>2, <1>3, <3>1, <3>2, <3>3, FlyingBack
      <3>5. WayRests("answer") /\ Single("answer")'
        BY <3>4 DEF WayRests, Under, Single
      <3>6. WaysRest
        BY <2>1, <2>4, <3>5 DEF WaysRest
      <3> QED
        BY <1>1, <1>4, <1>8, <3>6, StillAnswered
    <2>5. TRUE \in BOOLEAN
      OBVIOUS
    <2> QED
      BY <1>8, <2>2, <2>3, <2>4, <2>5, JoinAsked
  <1> QED
    BY <1>3, <1>6, <1>7, <1>8 DEF ReturnToLobby

----------------------------------------------------------------------------
(* The transitions in ENTER_LOBBY, and in the visits. *)

\* A transition of j begins at b, and its entry becomes PENDING.
LEMMA AnsweredBegins ==
  ASSUME Answered, NEW j \in Key, j[2] <= conn[j[1]], NEW b \in Ways, WaysTo(j, b), \A p \in Ways : Single(p)', UNCHANGED conn,
         \A k \in Key \ {j} : EntryRests(k), EntryIs(j, "PENDING")'
  PROVE  Answered'
  <1>1. Moving(j)'
    BY DEF WaysTo, Moving
  <1>2. EntryFits(j)'
    BY <1>1 DEF EntryFits, EntryIs
  <1> QED
    BY <1>2, SameConn, AnsweredMoves

\* A transition of j, which has none, begins.
LEMMA WaysBegin ==
  ASSUME Answered, NEW j \in Key, ~Moving(j), NEW b \in Ways, WayTakes(b, j), \A p \in Ways \ {b} : WayRests(p)
  PROVE  WaysTo(j, b)
  <1> DEFINE a == "none"
  <1>1. a \notin Ways /\ a \in Ways \cup {"none"} /\ a = "none" /\ a # b /\ b \in Ways \cup {"none"}
        /\ (\A p \in Ways \ {a, b} : WayRests(p)) /\ Exclusive
    BY DEF Ways, Answered
  <1> HIDE DEF a
  <1> QED
    BY <1>1, WaysMoved

LEMMA EnterAnswers ==
  ASSUME Typed, Owned, Answered, NEW t \in LobbyThreads, EnterLobby(t)
  PROVE  Answered'
  <1>1. UNCHANGED conn /\ UNCHANGED rooms /\ UNCHANGED gameVars /\ HasTask(t, "ENTER_LOBBY") /\ lpc[t] = "task"
    BY DEF EnterLobby, HasTask
  <1>2. PICK k \in Key : k = ltask[t].key /\ k[1] \in Slots /\ ltask[t] \in LobbyTask
    BY <1>1, ThreadKey, KeyFacts DEF Typed
  <1>3. ~HasTask(t, "ROOM_TRANSITION_RESULT") /\ lpc[t] # "enter"
    BY <1>1 DEF HasTask
  <1>4. CASE DoneLobby(t) /\ UNCHANGED <<sess, entry>> /\ (UNCHANGED lobbyTasks \/ lobbyTasks' = Requeued(ltask[t]))
    <2>1. PICK q : Posting(q) /\ \A x \in TasksOf(q) : x.type # "ROOM_TRANSITION_RESULT"
      <3>1. CASE UNCHANGED lobbyTasks
        BY <3>1, PostNothing DEF Typed
      <3>2. CASE lobbyTasks' = Append(lobbyTasks, ltask[t])
        <4>1. Posting(<<ltask[t]>>) /\ TasksOf(<<ltask[t]>>) = {ltask[t]} /\ ltask[t].type = "ENTER_LOBBY"
          BY <1>1, <1>2, <3>2, PostOne DEF Typed, HasTask
        <4> QED
          BY <4>1
      <3> QED
        BY <1>4, <3>1, <3>2 DEF Requeued
    <2>2. \A p \in Ways \ {"join"} : WayRests(p) /\ Single(p)'
      BY <1>1, <1>3, <1>4, <2>1, DoneRests
    <2>3. WaysRest
      BY <1>1, <2>2, WaysFrame DEF WaysRest
    <2> QED
      BY <1>1, <1>4, <2>3, LivesStay, StillAnswered
  <1>5. CASE /\ IsActive(k) /\ entry[k[1]].state = "EMPTY"
             /\ entry' = [entry EXCEPT ![k[1]] = [state |-> "PENDING", id |-> k[2]]]
             /\ sess' = [sess EXCEPT ![k[1]] = [@ EXCEPT !.right = TRUE, !.mode = "LOBBY", !.room = NoIndex]]
             /\ GotoLobby(t, "enter") /\ UNCHANGED lobbyTasks
    <2>1. LivesRest
      <3> DEFINE x == [sess[k[1]] EXCEPT !.right = TRUE, !.mode = "LOBBY", !.room = NoIndex]
      <3>1. x.id = sess[k[1]].id /\ x.life = sess[k[1]].life /\ sess' = [sess EXCEPT ![k[1]] = x]
        BY <1>2, <1>5 DEF Typed, SessOK, Session
      <3> HIDE DEF x
      <3> QED
        BY <1>2, <3>1, LivesStay DEF Typed
    <2>2. (\A j \in Key \ {k} : EntryRests(j)) /\ EntryIs(k, "PENDING")'
      <3> DEFINE x == [state |-> "PENDING", id |-> k[2]]
      <3>1. entry' = [entry EXCEPT ![k[1]] = x] /\ x.id = k[2] /\ x.state = "PENDING"
        BY <1>5
      <3> HIDE DEF x
      <3> QED
        BY <1>5, <2>1, <3>1, EntrySet
    <2>3. ~Moving(k) /\ k[2] <= conn[k[1]]
      <3>1. ~Moving(k)
        BY <1>5 DEF Answered, EntryFits, EntryIs, Alive, IsActive
      <3>2. k[2] <= conn[k[1]]
        BY <1>2, <1>5 DEF Owned, Issued, IsActive, Found
      <3> QED
        BY <3>1, <3>2
    <2>4. (\A u \in LobbyThreads \ {t} : lpc'[u] = lpc[u] /\ ltask'[u] = ltask[u]) /\ lpc'[t] = "enter" /\ ltask'[t] = ltask[t]
      BY <1>5, DoneOthers DEF Typed
    <2>5. WayTakes("enter", k) /\ Single("enter")'
      <3>1. Single("enter") /\ ~Under(k, "enter")
        BY <2>3 DEF Answered, Ways, Moving
      <3>2. \A j \in Key : ~Entering(t, j) /\ (Entering(t, j)' <=> j = k)
        BY <1>2, <1>3, <2>4 DEF Entering
      <3>3. \A u \in LobbyThreads \ {t}, j \in Key : Entering(u, j)' <=> Entering(u, j)
        BY <2>4 DEF Entering
      <3> QED
        BY <3>1, <3>2, <3>3, EnterBegins
    <2>6. WayRests("answer") /\ Single("answer")'
      <3>1. TasksRest("ROOM_TRANSITION_RESULT")
        BY <1>3, <2>4 DEF TasksRest, HasTask
      <3>2. PICK q : Posting(q) /\ \A x \in TasksOf(q) : x.type # "ROOM_TRANSITION_RESULT"
        BY <1>5, PostNothing DEF Typed
      <3> QED
        BY <3>1, <3>2, ThreadAnswers
    <2>7. WayRests("create") /\ Single("create")' /\ WayRests("make") /\ Single("make")' /\ WayRests("join") /\ Single("join")'
      BY <1>1, WaysFrame DEF gameVars
    <2>8. WaysTo(k, "enter")
      <3> DEFINE b == "enter"
      <3>1. b \in Ways /\ WayTakes(b, k) /\ \A p \in Ways \ {b} : WayRests(p)
        BY <2>5, <2>6, <2>7 DEF Ways
      <3> HIDE DEF b
      <3>2. WaysTo(k, b)
        BY <2>3, <3>1, WaysBegin
      <3> QED
        BY <3>2 DEF b
    <2>9. (\A p \in Ways : Single(p)') /\ "enter" \in Ways
      BY <2>5, <2>6, <2>7 DEF Ways
    <2> QED
      BY <1>1, <2>2, <2>3, <2>8, <2>9, AnsweredBegins
  <1> QED
    BY <1>2, <1>4, <1>5 DEF EnterLobby

LEMMA ActivateAnswers ==
  ASSUME Typed, Answered, NEW t \in LobbyThreads, ActivateEntry(t)
  PROVE  Answered'
  <1>1. UNCHANGED conn /\ UNCHANGED lobbyTasks /\ UNCHANGED rooms /\ UNCHANGED gameVars /\ DoneLobby(t) /\ lpc[t] = "enter"
    BY DEF ActivateEntry
  <1>2. PICK k \in Key : k = ltask[t].key /\ k[1] \in Slots
    BY <1>1, ThreadKey, KeyFacts DEF Typed
  <1>3. LivesRest
    BY <1>2, LivesStay DEF Typed, ActivateEntry
  <1>4. (\A u \in LobbyThreads \ {t} : lpc'[u] = lpc[u] /\ ltask'[u] = ltask[u]) /\ lpc'[t] = "idle"
    BY <1>1, DoneOthers DEF Typed
  <1>5. Under(k, "enter") /\ WayLoses("enter", k) /\ Single("enter")'
    <2>1. Single("enter") /\ Entering(t, k)
      BY <1>1, <1>2 DEF Answered, Ways, Entering
    <2>2. (\A j \in Key : ~Entering(t, j)') /\ \A u \in LobbyThreads \ {t}, j \in Key : Entering(u, j)' <=> Entering(u, j)
      BY <1>4 DEF Entering
    <2> QED
      BY <2>1, <2>2, EnterEnds
  <1>6. WayRests("answer") /\ Single("answer")'
    <2>1. TasksRest("ROOM_TRANSITION_RESULT")
      BY <1>1, <1>4 DEF TasksRest, HasTask
    <2>2. PICK q : Posting(q) /\ \A x \in TasksOf(q) : x.type # "ROOM_TRANSITION_RESULT"
      BY <1>1, PostNothing DEF Typed
    <2> QED
      BY <2>1, <2>2, ThreadAnswers
  <1>7. WayRests("create") /\ Single("create")' /\ WayRests("make") /\ Single("make")' /\ WayRests("join") /\ Single("join")'
    BY <1>1, WaysFrame DEF gameVars
  <1>8. WaysTo(k, "none")
    <2> DEFINE a == "enter"
               b == "none"
    <2>1. a \in Ways \cup {"none"} /\ b \in Ways \cup {"none"} /\ a # b /\ b = "none" /\ a # "none" /\ Under(k, a) /\ WayLoses(a, k)
      BY <1>5 DEF Ways
    <2>2. \A p \in Ways \ {a, b} : WayRests(p)
      BY <1>6, <1>7 DEF Ways
    <2>3. Exclusive
      BY DEF Answered
    <2> HIDE DEF a, b
    <2>4. WaysTo(k, b)
      BY <2>1, <2>2, <2>3, WaysMoved
    <2> QED
      BY <2>4 DEF b
  <1>9. \A p \in Ways : Single(p)'
    BY <1>5, <1>6, <1>7 DEF Ways
  <1>10. (\A j \in Key \ {k} : EntryRests(j)) /\ ~EntryIs(k, "PENDING")'
    <2>1. CASE EntryMatches(k) /\ (entry' = [entry EXCEPT ![k[1]].state = "ACTIVE"] \/ entry' = ClearEntry(k))
      <3>1. PICK x : entry' = [entry EXCEPT ![k[1]] = x] /\ (x.state = "EMPTY" \/ (x.state = "ACTIVE" /\ x.id = k[2]))
        <4>1. CASE entry' = ClearEntry(k)
          <5> DEFINE x == EmptyEntry
          <5>1. entry' = [entry EXCEPT ![k[1]] = x] /\ x.state = "EMPTY"
            BY <2>1, <4>1 DEF ClearEntry, EmptyEntry
          <5> HIDE DEF x
          <5> QED
            BY <5>1
        <4>2. CASE entry' = [entry EXCEPT ![k[1]].state = "ACTIVE"]
          <5> DEFINE x == [entry[k[1]] EXCEPT !.state = "ACTIVE"]
          <5>1. entry' = [entry EXCEPT ![k[1]] = x] /\ x.state = "ACTIVE" /\ x.id = k[2]
            BY <1>2, <2>1, <4>2 DEF Typed, LobbyOK, EntryMatches
          <5> HIDE DEF x
          <5> QED
            BY <5>1
        <4> QED
          BY <2>1, <4>1, <4>2
      <3>2. entry[k[1]].id = k[2] /\ x.state # "PENDING"
        BY <2>1, <3>1 DEF EntryMatches
      <3> QED
        BY <1>3, <3>1, <3>2, EntrySet
    <2>2. CASE UNCHANGED entry /\ ~(EntryMatches(k) /\ entry[k[1]].state = "PENDING")
      BY <1>3, <2>2, EntriesRest DEF EntryIs, EntryMatches
    <2> QED
      BY <1>2, <2>1, <2>2 DEF ActivateEntry
  <1> QED
    BY <1>1, <1>8, <1>9, <1>10, AnsweredDone

\* A visit begins or ends; a session is finalized.
LEMMA VisitAnswers ==
  ASSUME Typed, Answered, NEW t \in LobbyThreads, EndVisit(t) \/ \E s \in Slots : VisitSession(t, s)
  PROVE  Answered'
  <1>1. UNCHANGED <<conn, entry>> /\ UNCHANGED lobbyTasks /\ UNCHANGED rooms /\ UNCHANGED gameVars
    BY DEF EndVisit, VisitSession, lobbyVars
  <1>2. LivesRest
    <2>1. CASE EndVisit(t)
      <3>1. ltask[t].key[1] \in Slots
        BY <2>1, ThreadKey DEF Typed, EndVisit
      <3> QED
        BY <2>1, <3>1, LivesStay DEF Typed, EndVisit
    <2>2. ASSUME NEW s \in Slots, VisitSession(t, s) PROVE LivesRest
      BY <2>2, LivesStay DEF Typed, VisitSession
    <2> QED
      BY <2>1, <2>2
  <1>3. /\ \A u \in LobbyThreads \ {t} : lpc'[u] = lpc[u] /\ ltask'[u] = ltask[u]
        /\ lpc[t] \notin {"task", "enter"} /\ lpc'[t] \notin {"task", "enter"}
    BY DEF EndVisit, VisitSession, DoneLobby, Typed, ThreadOK
  <1>4. WayRests("enter") /\ Single("enter")' /\ TasksRest("ROOM_TRANSITION_RESULT")
    BY <1>3, ThreadWays DEF HasTask
  <1>5. WayRests("answer") /\ Single("answer")'
    <2>1. PICK q : Posting(q) /\ \A x \in TasksOf(q) : x.type # "ROOM_TRANSITION_RESULT"
      BY <1>1, PostNothing DEF Typed
    <2> QED
      BY <1>4, <2>1, ThreadAnswers
  <1>6. WayRests("create") /\ Single("create")' /\ WayRests("make") /\ Single("make")' /\ WayRests("join") /\ Single("join")'
    BY <1>1, WaysFrame DEF gameVars
  <1>7. WaysRest
    BY <1>4, <1>5, <1>6, AllRest
  <1> QED
    BY <1>1, <1>2, <1>7, StillAnswered

LEMMA RequestAnswers ==
  ASSUME Typed, Owned, Answered, NEW t \in LobbyThreads, LobbyRequest(t)
  PROVE  Answered'
  <1>1. UNCHANGED conn /\ UNCHANGED <<lpc, ltask>> /\ Visiting(t)
    BY DEF LobbyRequest, Login, RequestCreate, DisconnectInLobby, RequestJoin, Transition, threadVars, sessVars
  <1>2. PICK k \in Key : k = ltask[t].key /\ k[1] \in Slots
    BY <1>1, ThreadKey, KeyFacts DEF Typed, Visiting
  <1>3. IsActive(k) /\ EntryIs(k, "ACTIVE") /\ EntryMatches(k)
    BY <1>1, <1>2 DEF Visiting, InLobby, EntryIs, EntryMatches
  <1>4. ~Moving(k) /\ k[2] <= conn[k[1]]
    BY <1>2, <1>3 DEF Answered, EntryFits, Owned, Issued, IsActive, Found
  <1>5. WayRests("enter") /\ Single("enter")'
    BY <1>1, WaysFrame
  <1>6. CASE Login(t) \/ DisconnectInLobby(t)
    <2>1. UNCHANGED entry /\ UNCHANGED lobbyTasks /\ UNCHANGED rooms /\ UNCHANGED gameVars
      BY <1>6 DEF Login, DisconnectInLobby, lobbyVars
    <2>2. WaysRest
      BY <1>1, <2>1, WaysFrame, AllRest DEF gameVars
    <2>3. LivesRest
      <3> DEFINE x == [sess[k[1]] EXCEPT !.mode = "LOBBY"]
                 y == [sess[k[1]] EXCEPT !.life = "DISCONNECT_PENDING"]
      <3>1. x.id = sess[k[1]].id /\ y.id = sess[k[1]].id /\ x.life = sess[k[1]].life
            /\ (sess' = [sess EXCEPT ![k[1]] = x] \/ sess' = [sess EXCEPT ![k[1]] = y])
        BY <1>2, <1>6 DEF Login, DisconnectInLobby, BeginDisconnect, Typed, SessOK, Session
      <3> HIDE DEF x, y
      <3> QED
        BY <1>2, <1>3, <3>1, LivesStay DEF Typed, IsActive
    <2> QED
      BY <1>1, <2>1, <2>2, <2>3, StillAnswered
  <1>7. ASSUME UNCHANGED sess, entry' = PendingEntry(k) PROVE (\A j \in Key \ {k} : EntryRests(j)) /\ EntryIs(k, "PENDING")'
    <2> DEFINE x == [entry[k[1]] EXCEPT !.state = "PENDING"]
    <2>1. entry' = [entry EXCEPT ![k[1]] = x] /\ x.id = k[2] /\ x.state = "PENDING" /\ entry[k[1]].id = k[2]
      BY <1>2, <1>3, <1>7 DEF Typed, LobbyOK, EntryMatches, PendingEntry
    <2>2. LivesRest
      BY <1>7, LivesStay
    <2> HIDE DEF x
    <2> QED
      BY <2>1, <2>2, EntrySet
  <1>8. CASE RequestCreate(t)
    <2>1. entry' = PendingEntry(k) /\ UNCHANGED sess /\ UNCHANGED lobbyTasks /\ UNCHANGED rooms /\ UNCHANGED <<gpc, gkey>>
          /\ lifeTasks' = Append(lifeTasks, [type |-> "CREATE", key |-> k])
      BY <1>2, <1>8 DEF RequestCreate, sessVars
    <2>2. WayTakes("create", k) /\ Single("create")'
      <3>1. Single("create") /\ ~Under(k, "create") /\ GameOK
        BY <1>4 DEF Answered, Ways, Moving, Typed
      <3> QED
        BY <2>1, <3>1, CreateQueued
    <2>3. WayRests("make") /\ Single("make")' /\ WayRests("join") /\ Single("join")' /\ WayRests("answer") /\ Single("answer")'
      BY <1>1, <2>1, WaysFrame
    <2>4. WaysTo(k, "create")
      <3> DEFINE b == "create"
      <3>1. b \in Ways /\ WayTakes(b, k) /\ \A p \in Ways \ {b} : WayRests(p)
        BY <1>5, <2>2, <2>3 DEF Ways
      <3> HIDE DEF b
      <3>2. WaysTo(k, b)
        BY <1>4, <3>1, WaysBegin
      <3> QED
        BY <3>2 DEF b
    <2>5. (\A p \in Ways : Single(p)') /\ "create" \in Ways
      BY <1>5, <2>2, <2>3 DEF Ways
    <2> QED
      BY <1>1, <1>4, <1>7, <2>1, <2>4, <2>5, AnsweredBegins
  <1>9. ASSUME NEW r \in RoomKeys, NEW match \in BOOLEAN, RequestJoin(t, r, match) PROVE Answered'
    <2>1. entry' = PendingEntry(k) /\ UNCHANGED sess /\ UNCHANGED gameVars /\ JoinTask(r, k, match)
      BY <1>2, <1>9 DEF RequestJoin, sessVars
    <2>2. ~Under(k, "join") /\ ~Under(k, "answer") /\ Single("answer") /\ QueueOK /\ "join" \in Ways /\ "answer" \in Ways
      BY <1>4 DEF Answered, Ways, Moving, Typed
    <2>3. WayRests("create") /\ Single("create")' /\ WayRests("make") /\ Single("make")'
      BY <2>1, WaysFrame DEF gameVars
    <2>4. ASSUME NEW b \in {"join", "answer"}, WayTakes(b, k), \A p \in {"join", "answer"} \ {b} : WayRests(p),
                 Single("join")', Single("answer")'
          PROVE  Answered'
      <3>1. b \in Ways /\ \A p \in Ways \ {b} : WayRests(p)
        BY <1>5, <2>3, <2>4 DEF Ways
      <3>2. WaysTo(k, b)
        BY <1>4, <2>4, <3>1, WaysBegin
      <3>3. \A p \in Ways : Single(p)'
        BY <1>5, <2>3, <2>4 DEF Ways
      <3> QED
        BY <1>1, <1>4, <1>7, <2>1, <3>1, <3>2, <3>3, AnsweredBegins
    <2>5. CASE WayTakes("join", k) /\ Single("join")' /\ UNCHANGED lobbyTasks
      <3>1. WayRests("answer") /\ Single("answer")'
        BY <1>1, <2>5, WaysFrame
      <3> QED
        BY <2>4, <2>5, <3>1
    <2>6. CASE WayRests("join") /\ Single("join")' /\ lobbyTasks' = Append(lobbyTasks, TransitionResult(k, FALSE, match))
      <3>1. TasksRest("ROOM_TRANSITION_RESULT")
        BY <1>1 DEF TasksRest, HasTask
      <3>2. WayTakes("answer", k) /\ Single("answer")'
        BY <2>2, <2>6, <3>1, AnswerPosted
      <3> QED
        BY <2>4, <2>6, <3>2
    <2> QED
      BY <2>1, <2>2, <2>5, <2>6, JoinAsked
  <1> QED
    BY <1>6, <1>8, <1>9 DEF LobbyRequest

----------------------------------------------------------------------------
(* The transitions in the steps of a disconnection. *)

\* A task that asks for no join is queued for a room.
LEMMA OtherQueued ==
  ASSUME Typed, Answered, NEW r \in RoomKeys, NEW x \in RoomTask, x.type # "JOIN", rooms' = AddRoomTask(rooms, r, x)
  PROVE  WayRests("join") /\ Single("join")'
  <1>1. \A p \in RoomKeys : rooms'[p].tasks = IF p = r THEN Append(rooms[p].tasks, x) ELSE rooms[p].tasks
    BY DEF AddRoomTask, Typed, RoomsOK, Room
  <1>2. Single("join") /\ RoomsOK
    BY DEF Answered, Ways, Typed
  <1> QED
    BY <1>1, <1>2, JoinsRest

LEMMA FinalizeAnswers ==
  ASSUME Typed, Sorted, Owned, Answered, NEW t \in LobbyThreads, BeginFinalize(t) \/ FinalizeInRoom(t)
  PROVE  Answered'
  <1>1. UNCHANGED <<conn, entry>> /\ UNCHANGED gameVars /\ lpc[t] \in {"task", "finalize"}
    BY DEF BeginFinalize, FinalizeInRoom, lobbyVars
  <1>2. ltask[t].type = "DISCONNECT" /\ ltask[t] \in LobbyTask
    <2>1. ltask[t].type = "DISCONNECT"
      BY DEF Sorted, BeginFinalize, FinalizeInRoom
    <2> QED
      BY <1>1, <2>1, ThreadKey DEF Typed
  <1>3. PICK s \in Slots : s = ltask[t].key[1]
    BY <1>1, ThreadKey DEF Typed
  <1>4. Occupant(s) \in Key /\ Occupant(s)[1] = s
    BY OccupantKey DEF Typed
  <1>5. \E q : Posting(q) /\ \A x \in TasksOf(q) : x.type # "ROOM_TRANSITION_RESULT"
    <2>1. CASE UNCHANGED lobbyTasks
      BY <2>1, PostNothing DEF Typed
    <2>2. CASE lobbyTasks' = Append(lobbyTasks, ltask[t])
      <3>1. Posting(<<ltask[t]>>) /\ TasksOf(<<ltask[t]>>) = {ltask[t]}
        BY <1>2, <2>2, PostOne DEF Typed
      <3> QED
        BY <1>2, <3>1
    <2>3. CASE lobbyTasks' = lobbyTasks \o RoomDisconnectNotice(Occupant(s))
      <3> DEFINE q == RoomDisconnectNotice(Occupant(s))
      <3>1. Posting(q) /\ \A x \in TasksOf(q) : x = LTask("DISCONNECT", Occupant(s))
        BY <1>4, <2>3, NoticePosted DEF Posting
      <3>2. LTask("DISCONNECT", Occupant(s)).type = "DISCONNECT"
        BY <1>4, TaskTypes DEF LobbyTaskType
      <3> HIDE DEF q
      <3> QED
        BY <3>1, <3>2
    <2> QED
      BY <1>3, <2>1, <2>2, <2>3 DEF BeginFinalize, FinalizeInRoom, Requeued
  <1>6. DoneLobby(t) \/ \E p \in {"forget", "finalize"} : GotoLobby(t, p)
    BY DEF BeginFinalize, FinalizeInRoom
  <1>7. \A p \in Ways \ {"join"} : WayRests(p) /\ Single(p)'
    <2>1. ~HasTask(t, "ROOM_TRANSITION_RESULT") /\ lpc[t] # "enter"
      BY <1>1, <1>2 DEF HasTask
    <2> QED
      BY <1>1, <1>5, <1>6, <2>1, DoneRests
  <1>8. WayRests("join") /\ Single("join")'
    <2>1. CASE UNCHANGED rooms
      BY <2>1, WaysFrame
    <2>2. ASSUME NEW r \in RoomKeys, rooms' = AddRoomTask(rooms, r, RTask("REMOVE_PLAYER", Occupant(s)))
          PROVE  WayRests("join") /\ Single("join")'
      <3> DEFINE x == RTask("REMOVE_PLAYER", Occupant(s))
      <3>1. x \in RoomTask /\ x.type = "REMOVE_PLAYER"
        BY <1>4, RoomTaskTypes
      <3> HIDE DEF x
      <3> QED
        BY <2>2, <3>1, OtherQueued DEF x
    <2>3. FinalizeInRoom(t) => roomAt[sess[s].room] \in RoomKeys \cup {NoRoom}
      BY <1>3 DEF FinalizeInRoom, Typed, SessOK, TableOK
    <2> QED
      BY <1>3, <2>1, <2>2, <2>3 DEF BeginFinalize, FinalizeInRoom
  <1>9. LivesRest
    <2>1. ASSUME NEW b \in BOOLEAN, sess' = [sess EXCEPT ![s].right = b] PROVE LivesRest
      BY <2>1, LivesStay DEF Typed
    <2>2. CASE sess' = AfterRoomDisconnect([sess EXCEPT ![s].right = FALSE], Occupant(s))
      <3> DEFINE k == Occupant(s)
      <3>1. (\A q \in Slots \ {s} : sess'[q] = sess[q]) /\ sess'[s].id = sess[s].id /\ sess'[s].life = sess[s].life
        BY <1>4, <2>2 DEF AfterRoomDisconnect, Typed, SessOK, Session
      <3> QED
        BY <3>1 DEF LivesRest
    <2>3. UNCHANGED sess => LivesRest
      BY LivesStay
    <2> QED
      BY <1>3, <2>1, <2>2, <2>3 DEF BeginFinalize, FinalizeInRoom
  <1>10. WaysRest
    BY <1>7, <1>8 DEF WaysRest
  <1> QED
    BY <1>1, <1>9, <1>10, StillAnswered

\* The entry that is cleared, and the slot that becomes free, are of nobody who is alive.
LEMMA SlotAnswers ==
  ASSUME Typed, Owned, Answered, NEW t \in LobbyThreads, FinalizeOutsideRoom(t) \/ FreeSlot(t)
  PROVE  Answered'
  <1>1. UNCHANGED conn /\ UNCHANGED lobbyTasks /\ UNCHANGED rooms /\ UNCHANGED gameVars /\ lpc[t] \in {"finalize", "free"}
    BY DEF FinalizeOutsideRoom, FreeSlot
  <1>2. PICK s \in Slots : s = ltask[t].key[1] /\ ltask[t].key \in Key
    BY <1>1, ThreadKey DEF Typed
  <1>3. (\A u \in LobbyThreads \ {t} : lpc'[u] = lpc[u] /\ ltask'[u] = ltask[u]) /\ lpc'[t] \notin {"task", "enter"}
    BY DEF FinalizeOutsideRoom, FreeSlot, DoneLobby, Typed, ThreadOK
  <1>4. WayRests("enter") /\ Single("enter")' /\ WayRests("answer") /\ Single("answer")'
    <2>1. ~HasTask(t, "ROOM_TRANSITION_RESULT") /\ lpc[t] # "enter"
      BY <1>1 DEF HasTask
    <2>2. PICK q : Posting(q) /\ \A x \in TasksOf(q) : x.type # "ROOM_TRANSITION_RESULT"
      BY <1>1, PostNothing DEF Typed
    <2> QED
      BY <1>3, <2>1, <2>2, ThreadWays, ThreadAnswers
  <1>5. WaysRest
    BY <1>1, <1>4, WaysFrame, AllRest DEF gameVars
  <1>6. CASE FreeSlot(t)
    <2>1. LivesRest
      <3>1. CASE UNCHANGED sess
        BY <3>1, LivesStay
      <3>2. CASE sess' = [sess EXCEPT ![s] = [EmptySession EXCEPT !.right = sess[s].right]]
        <4> DEFINE x == [EmptySession EXCEPT !.right = sess[s].right]
        <4>2. x.life = "NONE" /\ sess' = [sess EXCEPT ![s] = x]
          BY <3>2 DEF EmptySession
        <4> HIDE DEF x
        <4>1. sess'[s].life = "NONE" /\ \A q \in Slots \ {s} : sess'[q] = sess[q]
          BY <1>2, <4>2, RightIn DEF Typed
        <4> QED
          BY <4>1 DEF LivesRest
      <3> QED
        BY <1>2, <1>6, <3>1, <3>2 DEF FreeSlot
    <2> QED
      BY <1>1, <1>5, <1>6, <2>1, StillAnswered DEF FreeSlot, lobbyVars
  <1>7. CASE FinalizeOutsideRoom(t)
    <2>1. PICK k \in Key : k = Occupant(s) /\ k[1] = s /\ k[2] = sess[s].id
      BY OccupantKey DEF Typed
    <2>2. entry' = ClearEntry(k) /\ lpc[t] = "finalize"
      BY <1>2, <1>7, <2>1 DEF FinalizeOutsideRoom
    <2>3. sess[s].life \notin {"ACTIVE", "DISCONNECT_PENDING"} \/ entry[s].state = "EMPTY"
      <3>1. Closing(ltask[t].key) \/ Replaced(s)
        BY <1>2, <2>2 DEF Owned, FinalizeOwned
      <3> QED
        BY <1>2, <3>1 DEF Closing, Replaced, Fresh
    <2>4. LivesRest
      BY <1>2, <1>7, LivesStay DEF Typed, FinalizeOutsideRoom
    <2>5. (\A q \in Slots \ {s} : entry'[q] = entry[q]) /\ (entry'[s].state # "EMPTY" => entry'[s] = entry[s])
      BY <2>1, <2>2, ClearedEntry DEF Typed
    <2>6. \A j \in Key : j[1] \in Slots /\ (Alive(j) /\ j[1] = s => ~EntryIs(j, "PENDING"))
      BY <2>3, KeyFacts DEF Alive, Found, EntryIs
    <2>7. \A j \in Key : EntryRests(j)
      <3>1. \A j \in Key : Alive(j)' => Alive(j)
        BY <2>4, <2>6 DEF LivesRest, Alive, Found
      <3>2. \A j \in Key, st \in {"PENDING", "ACTIVE"} : EntryIs(j, st)' => EntryIs(j, st)
        BY <2>5, <2>6 DEF EntryIs
      <3>3. \A j \in Key : j[1] # s /\ EntryIs(j, "PENDING") => EntryIs(j, "PENDING")'
        BY <2>5, <2>6 DEF EntryIs
      <3> QED
        BY <2>6, <3>1, <3>2, <3>3 DEF EntryRests
    <2> QED
      BY <1>1, <1>5, <2>7, SameConn, AnsweredRests
  <1> QED
    BY <1>6, <1>7

----------------------------------------------------------------------------
(* The transitions in the steps of the game threads. *)

\* A transition of j goes on to b.
LEMMA WaysGoOn ==
  ASSUME Answered, NEW j \in Key, NEW a \in Ways, NEW b \in Ways, a # b, Under(j, a), WayLoses(a, j), WayTakes(b, j),
         \A p \in Ways \ {a, b} : WayRests(p), \A p \in Ways : Single(p)', UNCHANGED <<conn, entry>>, LivesRest
  PROVE  Answered'
  <1>1. "none" \notin Ways /\ Exclusive /\ Moving(j)
    BY DEF Answered, Ways, Moving
  <1>2. WaysTo(j, b)
    BY <1>1, WaysMoved
  <1> QED
    BY <1>1, <1>2, AnsweredGoesOn, EntriesRest, SameConn

LEMMA AnswerTo ==
  ASSUME Typed, Answered, NEW j \in Key, ~Under(j, "answer"), NEW ok \in BOOLEAN, NEW match \in BOOLEAN, UNCHANGED <<lpc, ltask>>,
         lobbyTasks' = Append(lobbyTasks, TransitionResult(j, ok, match))
  PROVE  WayTakes("answer", j) /\ Single("answer")'
  <1>1. TasksRest("ROOM_TRANSITION_RESULT") /\ Single("answer") /\ QueueOK
    BY DEF TasksRest, HasTask, Answered, Ways, Typed
  <1> QED
    BY <1>1, AnswerPosted

LEMMA BeginCreateAnswers ==
  ASSUME Typed, Answered, NEW g \in GameThreads, BeginCreate(g)
  PROVE  Answered'
  <1>1. UNCHANGED <<sess, conn, entry>> /\ UNCHANGED <<lpc, ltask>> /\ UNCHANGED rooms
    BY DEF BeginCreate, sessVars, lobbyVars, threadVars
  <1>2. gpc[g] = "idle" /\ lifeTasks # <<>> /\ Head(lifeTasks).type = "CREATE" /\ lifeTasks' = Tail(lifeTasks)
    BY DEF BeginCreate
  <1>3. Single("create") /\ Single("make") /\ GameOK
    BY DEF Answered, Ways, Typed
  <1>4. PICK k \in Key : k = Head(lifeTasks).key /\ Under(k, "create") /\ WayLoses("create", k) /\ Single("create")'
    BY <1>2, <1>3, CreateTaken
  <1>5. ~Under(k, "make") /\ ~Under(k, "answer")
    BY <1>4 DEF Answered, Exclusive, Ways
  <1>6. LivesRest /\ WayRests("join") /\ Single("join")' /\ WayRests("enter") /\ Single("enter")'
    BY <1>1, LivesStay, WaysFrame
  <1>7. CASE gpc' = [gpc EXCEPT ![g] = "wait"] /\ gkey' = [gkey EXCEPT ![g] = k] /\ UNCHANGED lobbyTasks
    <2>1. gpc'[g] = "wait" /\ gkey'[g] = k /\ \A h \in GameThreads \ {g} : gpc'[h] = gpc[h] /\ gkey'[h] = gkey[h]
      BY <1>3, <1>7 DEF GameOK
    <2>2. \A j \in Key : ~Making(g, j) /\ (Making(g, j)' <=> j = k)
      BY <1>2, <2>1 DEF Making
    <2>3. \A h \in GameThreads \ {g}, j \in Key : Making(h, j)' <=> Making(h, j)
      BY <2>1 DEF Making
    <2>4. WayTakes("make", k) /\ Single("make")'
      BY <1>3, <1>5, <2>2, <2>3, MakerBegins
    <2>5. WayRests("answer") /\ Single("answer")'
      BY <1>1, <1>7, WaysFrame
    <2> DEFINE a == "create"
               b == "make"
    <2>6. a \in Ways /\ b \in Ways /\ a # b /\ Under(k, a) /\ WayLoses(a, k) /\ WayTakes(b, k)
          /\ (\A p \in Ways \ {a, b} : WayRests(p)) /\ \A p \in Ways : Single(p)'
      BY <1>4, <1>6, <2>4, <2>5 DEF Ways
    <2> HIDE DEF a, b
    <2> QED
      BY <1>1, <1>6, <2>6, WaysGoOn
  <1>8. CASE lobbyTasks' = CreateRefused(k) /\ UNCHANGED <<gpc, gkey>>
    <2>1. WayTakes("answer", k) /\ Single("answer")'
      BY <1>1, <1>5, <1>8, AnswerTo DEF CreateRefused
    <2>2. WayRests("make") /\ Single("make")'
      BY <1>8, WaysFrame
    <2> DEFINE a == "create"
               b == "answer"
    <2>3. a \in Ways /\ b \in Ways /\ a # b /\ Under(k, a) /\ WayLoses(a, k) /\ WayTakes(b, k)
          /\ (\A p \in Ways \ {a, b} : WayRests(p)) /\ \A p \in Ways : Single(p)'
      BY <1>4, <1>6, <2>1, <2>2 DEF Ways
    <2> HIDE DEF a, b
    <2> QED
      BY <1>1, <1>6, <2>3, WaysGoOn
  <1> QED
    BY <1>4, <1>7, <1>8 DEF BeginCreate

LEMMA MakerAnswers ==
  ASSUME Typed, Answered, NEW g \in GameThreads, RefuseCreate(g) \/ AnswerCreate(g)
  PROVE  Answered'
  <1>1. UNCHANGED <<sess, conn, entry>> /\ UNCHANGED <<lpc, ltask>> /\ UNCHANGED rooms /\ UNCHANGED lifeTasks
    BY DEF RefuseCreate, AnswerCreate, sessVars, lobbyVars, threadVars
  <1>2. gpc[g] \in {"wait", "created"} /\ Single("make")
    BY DEF RefuseCreate, AnswerCreate, Answered, Ways
  <1>3. PICK k \in Key : k = gkey[g]
    BY <1>2 DEF Typed, GameOK
  <1>4. gpc'[g] \in {"idle", "init"} /\ \A h \in GameThreads \ {g} : gpc'[h] = gpc[h] /\ gkey'[h] = gkey[h]
    BY DEF RefuseCreate, AnswerCreate, DoneGame, Typed, GameOK
  <1>5. Under(k, "make") /\ WayLoses("make", k) /\ Single("make")'
    <2>1. Making(g, k) /\ (\A j \in Key : ~Making(g, j)') /\ \A h \in GameThreads \ {g}, j \in Key : Making(h, j)' <=> Making(h, j)
      BY <1>2, <1>3, <1>4 DEF Making
    <2> QED
      BY <1>2, <2>1, MakerEnds
  <1>6. \E ok \in BOOLEAN : lobbyTasks' = Append(lobbyTasks, TransitionResult(k, ok, FALSE))
    BY <1>3 DEF RefuseCreate, AnswerCreate, CreateRefused
  <1>7. ~Under(k, "answer")
    BY <1>5 DEF Answered, Exclusive, Ways
  <1>8. WayTakes("answer", k) /\ Single("answer")'
    BY <1>1, <1>6, <1>7, AnswerTo
  <1>9. LivesRest /\ WayRests("create") /\ Single("create")' /\ WayRests("join") /\ Single("join")'
        /\ WayRests("enter") /\ Single("enter")'
    BY <1>1, LivesStay, WaysFrame
  <1> DEFINE a == "make"
             b == "answer"
  <1>10. a \in Ways /\ b \in Ways /\ a # b /\ Under(k, a) /\ WayLoses(a, k) /\ WayTakes(b, k)
         /\ (\A p \in Ways \ {a, b} : WayRests(p)) /\ \A p \in Ways : Single(p)'
    BY <1>5, <1>8, <1>9 DEF Ways
  <1> HIDE DEF a, b
  <1> QED
    BY <1>1, <1>9, <1>10, WaysGoOn

LEMMA CreateAnswers ==
  ASSUME Typed, Answered, NEW g \in GameThreads, CreateStep(g)
  PROVE  Answered'
  <1>1. CASE DeleteRoom(g)
    <2>1. UNCHANGED <<sess, conn, entry, rooms>> /\ UNCHANGED <<lobbyTasks, lpc, ltask>> /\ UNCHANGED <<gpc, gkey>>
          /\ UNCHANGED <<lpc, ltask>>
      BY <1>1 DEF DeleteRoom, sessVars, lobbyVars, threadVars
    <2>2. WayRests("create") /\ Single("create")'
      <3>1. GameOK /\ Single("create")
        BY DEF Typed, Answered, Ways
      <3> QED
        BY <1>1, <3>1, CreatesRest DEF DeleteRoom
    <2>3. WaysRest
      BY <2>1, <2>2, WaysFrame, AllRest
    <2> QED
      BY <2>1, <2>3, LivesStay, StillAnswered
  <1>2. CASE BeginCreate(g)
    BY <1>2, BeginCreateAnswers
  <1>3. CASE RefuseCreate(g) \/ AnswerCreate(g)
    BY <1>3, MakerAnswers
  <1>4. CASE CompleteRoomInitialization(g)
    <2>1. UNCHANGED <<conn, entry>> /\ UNCHANGED <<lobbyTasks, lpc, ltask>> /\ UNCHANGED <<lpc, ltask>> /\ UNCHANGED lifeTasks
          /\ gpc[g] = "init" /\ DoneGame(g)
      BY <1>4 DEF CompleteRoomInitialization, lobbyVars, threadVars
    <2>2. WayRests("make") /\ Single("make")'
      <3>1. \A h \in GameThreads, j \in Key : Making(h, j)' <=> Making(h, j)
        BY <2>1 DEF DoneGame, Typed, GameOK, Making
      <3> QED
        BY <3>1, MakersRest DEF Answered, Ways
    <2>3. groom[g] \in RoomKeys /\ rooms[groom[g]].pc = "init" /\ gkey[g] \in Key /\ gkey[g][1] \in Slots
      BY <2>1, KeyFacts DEF Typed, MakersOK, GameOK
    <2>4. \A r \in RoomKeys : rooms'[r].tasks = rooms[r].tasks
      <3>1. rooms' = [rooms EXCEPT ![groom[g]] = ReadyRoom(rooms[groom[g]])]
        BY <1>4, <2>3, CompleteStep DEF Typed
      <3>2. ReadyRoom(rooms[groom[g]]).tasks = rooms[groom[g]].tasks
        BY <2>3, ReadyRoomOK DEF Typed, RoomsOK
      <3> QED
        BY <2>3, <3>1, <3>2 DEF Typed, RoomsOK
    <2>5. WayRests("join") /\ Single("join")'
      BY <2>4, JoinsRest DEF Typed, Answered, Ways
    <2>6. WaysRest
      BY <2>1, <2>2, <2>5, WaysFrame, AllRest
    <2>7. LivesRest
      BY <1>4, <2>3, LivesStay DEF CompleteRoomInitialization, Typed
    <2> QED
      BY <2>1, <2>6, <2>7, StillAnswered
  <1>5. ASSUME NEW r \in RoomKeys, NEW i \in RoomIndices, NEW max \in {1, Cardinality(Seats)}, CreateRoom(g, r, i, max)
        PROVE  Answered'
    <2>1. UNCHANGED <<conn, entry>> /\ UNCHANGED <<lobbyTasks, lpc, ltask>> /\ UNCHANGED <<lpc, ltask>> /\ UNCHANGED lifeTasks
          /\ gpc[g] = "wait" /\ UNCHANGED gkey /\ gpc' = [gpc EXCEPT ![g] = "created"]
      BY <1>5 DEF CreateRoom, lobbyVars, threadVars
    <2>2. WayRests("make") /\ Single("make")'
      <3>1. \A h \in GameThreads, j \in Key : Making(h, j)' <=> Making(h, j)
        BY <2>1 DEF Typed, GameOK, Making
      <3> QED
        BY <3>1, MakersRest DEF Answered, Ways
    <2>3. gkey[g] \in Key /\ gkey[g][1] \in Slots
      BY <2>1, KeyFacts DEF Typed, GameOK
    <2>4. \A p \in RoomKeys : rooms'[p].tasks = rooms[p].tasks
      <3>1. rooms' = [rooms EXCEPT ![r] = MadeRoom(i, max, gkey[g])] /\ rooms[r] = NewRoom
        BY <1>5, <2>3, CreateRoomStep DEF Typed
      <3>2. MadeRoom(i, max, gkey[g]).tasks = <<>> /\ NewRoom.tasks = <<>>
        BY DEF MadeRoom, NewRoom
      <3> QED
        BY <3>1, <3>2 DEF Typed, RoomsOK
    <2>5. WayRests("join") /\ Single("join")'
      BY <2>4, JoinsRest DEF Typed, Answered, Ways
    <2>6. WaysRest
      BY <2>1, <2>2, <2>5, WaysFrame, AllRest
    <2>7. LivesRest
      <3> DEFINE s == gkey[g][1]
                 x == [sess[s] EXCEPT !.mode = "ROOM", !.room = i, !.right = TRUE]
      <3>1. x.id = sess[s].id /\ x.life = sess[s].life /\ sess' = [sess EXCEPT ![s] = x] /\ s \in Slots
        BY <1>5, <2>3 DEF CreateRoom, Typed, SessOK, Session
      <3> HIDE DEF s, x
      <3> QED
        BY <3>1, LivesStay DEF Typed
    <2> QED
      BY <2>1, <2>6, <2>7, StillAnswered
  <1> QED
    BY <1>1, <1>2, <1>3, <1>4, <1>5 DEF CreateStep

----------------------------------------------------------------------------
(* The transitions in the steps of the rooms. *)

\* A room that moves no join: its queue stays, gains another task or loses one.
LEMMA RoomJoins ==
  ASSUME Typed, Answered, NEW r \in RoomKeys, NEW v, rooms' = [rooms EXCEPT ![r] = v],
         \/ v.tasks = rooms[r].tasks
         \/ \E x \in RoomTask : x.type # "JOIN" /\ v.tasks = Append(rooms[r].tasks, x)
         \/ AtTask(r) /\ Head(rooms[r].tasks).type # "JOIN" /\ v.tasks = AfterTask(rooms[r]).tasks
  PROVE  WayRests("join") /\ Single("join")'
  <1>1. rooms'[r] = v /\ \A q \in RoomKeys \ {r} : rooms'[q] = rooms[q]
    BY DEF Typed, RoomsOK
  <1>2. AtTask(r) => rooms[r].tasks # <<>> /\ AfterTask(rooms[r]).tasks = Tail(rooms[r].tasks)
    BY AfterTail, AfterTaskOK DEF Typed, RoomsOK, AtTask
  <1>3. Single("join") /\ RoomsOK
    BY DEF Answered, Ways, Typed
  <1>4. \/ v.tasks = rooms[r].tasks
        \/ \E x \in RoomTask : x.type # "JOIN" /\ v.tasks = Append(rooms[r].tasks, x)
        \/ rooms[r].tasks # <<>> /\ Head(rooms[r].tasks).type # "JOIN" /\ v.tasks = Tail(rooms[r].tasks)
    BY <1>2
  <1>5. ASSUME NEW q \in RoomKeys
        PROVE  \/ rooms'[q].tasks = rooms[q].tasks
               \/ \E x \in RoomTask : x.type # "JOIN" /\ rooms'[q].tasks = Append(rooms[q].tasks, x)
               \/ rooms[q].tasks # <<>> /\ Head(rooms[q].tasks).type # "JOIN" /\ rooms'[q].tasks = Tail(rooms[q].tasks)
    <2>1. CASE q = r
      BY <1>1, <1>4, <2>1
    <2>2. CASE q # r
      BY <1>1, <2>2
    <2> QED
      BY <2>1, <2>2
  <1> QED
    BY <1>3, <1>5, JoinsRest

\* A step of a room that moves no transition.
LEMMA RoomRests ==
  ASSUME Typed, Answered, UNCHANGED <<conn, entry, lpc, ltask, gpc, gkey>>, LivesRest,
         WayRests("create") /\ Single("create")', WayRests("join") /\ Single("join")',
         NEW q, Posting(q), \A x \in TasksOf(q) : x.type # "ROOM_TRANSITION_RESULT"
  PROVE  Answered'
  <1>1. UNCHANGED <<lpc, ltask>> /\ UNCHANGED <<gpc, gkey>>
    OBVIOUS
  <1>2. WayRests("answer") /\ Single("answer")'
    BY AnswersQuiet
  <1>3. WaysRest
    BY <1>1, <1>2, WaysFrame, AllRest
  <1> QED
    BY <1>3, StillAnswered

\* Whoever leaves ROOM mode lives on as before.
LEMMA LeftLives ==
  ASSUME Typed, NEW k \in Key, sess' = AfterRoomDisconnect(sess, k)
  PROVE  LivesRest
  <1>1. k[1] \in Slots
    BY KeyFacts
  <1>2. (\A q \in Slots \ {k[1]} : sess'[q] = sess[q]) /\ sess'[k[1]].id = sess[k[1]].id /\ sess'[k[1]].life = sess[k[1]].life
    BY <1>1 DEF AfterRoomDisconnect, Typed, SessOK, Session
  <1> QED
    BY <1>2 DEF LivesRest

\* The steps of a tick that answer nothing.
LEMMA TickAnswers ==
  ASSUME Typed, Answered, NEW r \in RoomKeys,
         \/ BeginTick(r) \/ ClaimTasks(r) \/ KeepPending(r) \/ VisitSeat(r) \/ EndSeatVisit(r) \/ EndRoomTasks(r)
         \/ PlayTick(r) \/ ProcessStart(r) \/ ProcessGiveUp(r)
         \/ \E type \in {"START", "KICK", "GIVE_UP"}, target \in Key \cup {NoKey} : RequestRoomTask(r, type, target)
  PROVE  Answered'
  <1>1. UNCHANGED <<conn, entry, lobbyTasks, lpc, ltask, gpc, gkey>>
    BY DEF BeginTick, ClaimTasks, KeepPending, VisitSeat, EndSeatVisit, EndRoomTasks, PlayTick, ProcessStart,
           ProcessGiveUp, RequestRoomTask, threadVars, lobbyVars, gameVars, sessVars
  <1>2. PICK q : Posting(q) /\ \A x \in TasksOf(q) : x.type # "ROOM_TRANSITION_RESULT"
    BY <1>1, PostNothing DEF Typed
  <1>3. LivesRest
    <2>1. CASE UNCHANGED sess
      BY <2>1, LivesStay
    <2>2. CASE VisitSeat(r)
      <3>1. SeatKey(r) \in Key => SeatKey(r)[1] \in Slots
        BY KeyFacts
      <3>2. ASSUME NEW s \in Slots, sess' = [sess EXCEPT ![s].right = TRUE] PROVE LivesRest
        BY <3>2, LivesStay DEF Typed
      <3> QED
        BY <2>1, <2>2, <3>1, <3>2, VisitSeatSteps DEF Typed
    <2>3. CASE EndSeatVisit(r)
      <3>1. PICK s \in Slots : s = rooms[r].held[1]
        BY <2>3, EndSeatVisitStep, KeyFacts DEF Typed
      <3>2. sess' = [sess EXCEPT ![s].right = FALSE]
        BY <2>3, <3>1 DEF EndSeatVisit
      <3> QED
        BY <3>2, LivesStay DEF Typed
    <2> QED
      BY <2>1, <2>2, <2>3 DEF BeginTick, ClaimTasks, KeepPending, EndRoomTasks, PlayTick, ProcessStart, ProcessGiveUp,
                              RequestRoomTask, sessVars
  <1>4. WayRests("create") /\ Single("create")'
    <2>1. CASE EndRoomTasks(r)
      <3>1. GameOK /\ Single("create")
        BY DEF Typed, Answered, Ways
      <3>2. rooms[r].index \in RoomIndices \/ UNCHANGED lifeTasks
        BY <2>1, EndRoomTasksStep, MadeIndex DEF Typed, RoomsOK, EndRoomTasks
      <3>3. \A i \in RoomIndices : [type |-> "DELETE_ROOM", index |-> i] \in LifecycleTask
        BY DEF LifecycleTask
      <3>4. UNCHANGED lifeTasks \/ lifeTasks' = Append(lifeTasks, [type |-> "DELETE_ROOM", index |-> rooms[r].index])
        BY <2>1 DEF EndRoomTasks
      <3>5. UNCHANGED lifeTasks \/ \E x \in LifecycleTask : x.type # "CREATE" /\ lifeTasks' = Append(lifeTasks, x)
        BY <3>2, <3>3, <3>4
      <3> QED
        BY <3>1, <3>5, CreatesRest
    <2>2. CASE ~EndRoomTasks(r)
      <3>1. UNCHANGED lifeTasks
        BY <2>2 DEF BeginTick, ClaimTasks, KeepPending, VisitSeat, EndSeatVisit, PlayTick, ProcessStart,
                    ProcessGiveUp, RequestRoomTask, gameVars
      <3> QED
        BY <3>1, WaysFrame
    <2> QED
      BY <2>1, <2>2
  <1>5. WayRests("join") /\ Single("join")'
    <2>1. CASE BeginTick(r) \/ ClaimTasks(r) \/ KeepPending(r) \/ VisitSeat(r) \/ EndSeatVisit(r) \/ EndRoomTasks(r)
      <3>1. PICK v : rooms' = [rooms EXCEPT ![r] = v] /\ v.tasks = rooms[r].tasks
        BY <2>1, TickKeeps DEF Typed
      <3> QED
        BY <3>1, RoomJoins
    <2>2. CASE PlayTick(r)
      <3>1. PICK v : /\ rooms' = [rooms EXCEPT ![r] = v]
                     /\ \/ v.tasks = rooms[r].tasks
                        \/ \E x \in RoomTask : x.type = "REMOVE_PLAYER" /\ v.tasks = Append(rooms[r].tasks, x)
        BY <2>2, PlayKeeps DEF Typed
      <3>2. \/ v.tasks = rooms[r].tasks
            \/ \E x \in RoomTask : x.type # "JOIN" /\ v.tasks = Append(rooms[r].tasks, x)
        BY <3>1
      <3> QED
        BY <3>1, <3>2, RoomJoins
    <2>3. CASE ProcessStart(r) \/ ProcessGiveUp(r)
      <3>1. AtTask(r) /\ Head(rooms[r].tasks).type # "JOIN"
        BY <2>3, GameKeeps DEF Typed
      <3>2. PICK v : rooms' = [rooms EXCEPT ![r] = v] /\ v.tasks = AfterTask(rooms[r]).tasks
        BY <2>3, GameKeeps DEF Typed
      <3> QED
        BY <3>1, <3>2, RoomJoins
    <2>4. ASSUME NEW type \in {"START", "KICK", "GIVE_UP"}, NEW target \in Key \cup {NoKey}, RequestRoomTask(r, type, target)
          PROVE  WayRests("join") /\ Single("join")'
      <3>1. PICK k \in Key : k = SeatKey(r)
        BY <2>4, VisitedKey DEF Typed, RequestRoomTask
      <3> DEFINE x == [RTask(type, k) EXCEPT !.target = target]
      <3>2. x \in RoomTask /\ x.type # "JOIN"
        BY RoomTaskTypes DEF RTask
      <3>3. rooms' = AddRoomTask(rooms, r, x)
        BY <2>4, <3>1 DEF RequestRoomTask
      <3> HIDE DEF x
      <3> QED
        BY <3>2, <3>3, OtherQueued
    <2> QED
      BY <2>1, <2>2, <2>3, <2>4
  <1> QED
    BY <1>1, <1>2, <1>3, <1>4, <1>5, RoomRests

\* A player leaves its room, or begins its disconnection in it.
LEMMA SeatedAnswers ==
  ASSUME Typed, Answered, NEW r \in RoomKeys, LeaveRoom(r) \/ DisconnectInRoom(r)
  PROVE  Answered'
  <1>1. UNCHANGED <<conn, entry, lpc, ltask, gpc, gkey>> /\ UNCHANGED lifeTasks /\ Holding(r)
    BY DEF LeaveRoom, DisconnectInRoom, threadVars, lobbyVars, gameVars, sessVars
  <1>2. WayRests("create") /\ Single("create")'
    BY <1>1, WaysFrame
  <1>3. PICK k \in Key : k = SeatKey(r) /\ k[1] \in Slots
    BY <1>1, VisitedKey DEF Typed
  <1>4. CASE LeaveRoom(r)
    <2>1. LivesRest
      BY <1>4, LivesStay DEF LeaveRoom, sessVars
    <2>2. WayRests("join") /\ Single("join")'
      <3> DEFINE w == RemovedFrom(rooms[r], k)
      <3>1. RoomOK(rooms[r]) /\ rooms[r].pc = "hold"
        BY <1>1 DEF Typed, RoomsOK, Holding
      <3>2. w.tasks = rooms[r].tasks
        BY <3>1, RemovedFromOK
      <3>3. rooms' = [rooms EXCEPT ![r] = w]
        BY <1>3, <1>4 DEF LeaveRoom
      <3> HIDE DEF w
      <3> QED
        BY <3>2, <3>3, RoomJoins
    <2>3. PICK q : Posting(q) /\ \A x \in TasksOf(q) : x.type # "ROOM_TRANSITION_RESULT"
      <3> DEFINE y == [LTask("ENTER_LOBBY", k) EXCEPT !.room = rooms[r].index]
      <3>1. rooms[r].index \in RoomIndices
        BY <1>1, VisitedKey, SeatOf DEF Typed, RoomsOK, RoomOK, LifeOK, Used, Sits
      <3>2. y \in LobbyTask /\ y.type = "ENTER_LOBBY"
        BY <3>1, TaskTypes DEF LobbyTaskType
      <3>3. lobbyTasks' = Append(lobbyTasks, y)
        BY <1>3, <1>4 DEF LeaveRoom
      <3> HIDE DEF y
      <3>4. Posting(<<y>>) /\ TasksOf(<<y>>) = {y}
        BY <3>2, <3>3, PostOne DEF Typed
      <3> QED
        BY <3>2, <3>4
    <2> QED
      BY <1>1, <1>2, <2>1, <2>2, <2>3, RoomRests
  <1>5. CASE DisconnectInRoom(r)
    <2> DEFINE x == [sess[k[1]] EXCEPT !.life = "DISCONNECT_PENDING"]
    <2>1. sess[k[1]].life = "ACTIVE"
      BY <1>1, <1>3 DEF Holding, Visitable, IsActive
    <2>2. x.id = sess[k[1]].id /\ sess' = [sess EXCEPT ![k[1]] = x]
      BY <1>3, <1>5 DEF DisconnectInRoom, BeginDisconnect, Typed, SessOK, Session
    <2> HIDE DEF x
    <2>3. LivesRest
      BY <1>3, <2>1, <2>2, LivesStay DEF Typed
    <2>4. WayRests("join") /\ Single("join")'
      BY <1>5, WaysFrame DEF DisconnectInRoom
    <2>5. PICK q : Posting(q) /\ \A y \in TasksOf(q) : y.type # "ROOM_TRANSITION_RESULT"
      BY <1>5, PostNothing DEF DisconnectInRoom, Typed
    <2> QED
      BY <1>1, <1>2, <2>3, <2>4, <2>5, RoomRests
  <1> QED
    BY <1>4, <1>5

\* A join becomes its answer.
LEMMA SeatAnswers ==
  ASSUME Typed, Answered, NEW r \in RoomKeys, ProcessJoin(r)
  PROVE  Answered'
  <1>1. AtTask(r) /\ UNCHANGED <<conn, entry>> /\ UNCHANGED <<lpc, ltask>> /\ UNCHANGED <<gpc, gkey>> /\ UNCHANGED lifeTasks
        /\ Head(rooms[r].tasks).type = "JOIN"
    BY DEF ProcessJoin, TaskReady, threadVars, lobbyVars, gameVars
  <1>2. PICK task \in RoomTask : task = Head(rooms[r].tasks) /\ task.key \in Key
    BY <1>1, TaskAtHand DEF Typed
  <1>3. PICK k \in Key : k = task.key /\ k[1] \in Slots
    BY <1>2, KeyFacts
  <1>4. rooms[r].tasks # <<>> /\ AfterTask(rooms[r]).tasks = Tail(rooms[r].tasks)
    BY <1>1, AfterTail, AfterTaskOK DEF Typed, RoomsOK, AtTask
  <1>5. rooms'[r].tasks = Tail(rooms[r].tasks) /\ (\A p \in RoomKeys \ {r} : rooms'[p] = rooms[p]) /\ LivesRest
    <2>1. CASE UNCHANGED sess /\ rooms' = [rooms EXCEPT ![r] = AfterTask(@)]
      BY <1>4, <2>1, LivesStay DEF Typed, RoomsOK
    <2>2. CASE /\ MayJoin(r, k)
               /\ rooms' = [rooms EXCEPT ![r] = SeatPlayer(AfterTask(rooms[r]), k)]
               /\ sess' = [sess EXCEPT ![k[1]] = [@ EXCEPT !.mode = "ROOM", !.room = rooms[r].index]]
      <3> DEFINE u == AfterTask(rooms[r])
                 w == SeatPlayer(u, k)
      <3>1. RoomOK(u) /\ u.state = rooms[r].state /\ u.seats = rooms[r].seats /\ u.max = rooms[r].max /\ u.pc \in {"claim", "tasks"}
        BY <1>1, AfterTaskOK DEF Typed, RoomsOK, AtTask
      <3> HIDE DEF u
      <3>2. u.state = "WAIT" /\ FreeSeats(u) # {} /\ \A n \in Taken(u.seats) : u.seats[n].key # k
        BY <2>2, <3>1 DEF MayJoin, FreeSeats, Seated, Taken
      <3>3. w.tasks = u.tasks
        BY <3>1, <3>2, SeatPlayerOK
      <3>4. rooms' = [rooms EXCEPT ![r] = w]
        BY <2>2 DEF u
      <3> HIDE DEF w
      <3>5. rooms'[r] = w /\ \A p \in RoomKeys \ {r} : rooms'[p] = rooms[p]
        BY <3>4 DEF Typed, RoomsOK
      <3> DEFINE x == [sess[k[1]] EXCEPT !.mode = "ROOM", !.room = rooms[r].index]
      <3>6. x.life = sess[k[1]].life /\ x.id = sess[k[1]].id /\ sess' = [sess EXCEPT ![k[1]] = x]
        BY <1>3, <2>2 DEF Session, Typed, SessOK
      <3> HIDE DEF x
      <3>7. LivesRest
        BY <1>3, <3>6, LivesStay DEF Typed
      <3> QED
        BY <1>4, <3>3, <3>5, <3>7 DEF u
    <2> QED
      BY <1>2, <1>3, <2>1, <2>2 DEF ProcessJoin
  <1>6. RoomsOK /\ Single("join")
    BY DEF Typed, Answered, Ways
  <1>7. Under(k, "join") /\ WayLoses("join", k) /\ Single("join")'
    BY <1>1, <1>2, <1>3, <1>4, <1>5, <1>6, JoinTaken
  <1>8. ~Under(k, "answer")
    BY <1>7 DEF Answered, Exclusive, Ways
  <1>9. WayTakes("answer", k) /\ Single("answer")'
    <2>1. PICK ok \in BOOLEAN : lobbyTasks' = Append(lobbyTasks, TransitionResult(k, ok, task.match))
      BY <1>2, <1>3 DEF ProcessJoin
    <2>2. task.match \in BOOLEAN
      BY DEF RoomTask
    <2> QED
      BY <1>1, <1>8, <2>1, <2>2, AnswerTo
  <1>10. WayRests("create") /\ Single("create")' /\ WayRests("make") /\ Single("make")' /\ WayRests("enter") /\ Single("enter")'
    BY <1>1, WaysFrame
  <1>11. (\A p \in Ways \ {"join", "answer"} : WayRests(p)) /\ \A p \in Ways : Single(p)'
    BY <1>7, <1>9, <1>10 DEF Ways
  <1>12. "join" \in Ways /\ "answer" \in Ways
    BY DEF Ways
  <1> QED
    BY <1>1, <1>5, <1>7, <1>9, <1>11, <1>12, WaysGoOn

\* A room that removes k, or does not, answers no transition.
LEMMA RemovalAnswers ==
  ASSUME Typed, Answered, NEW r \in RoomKeys, ProcessRemove(r) \/ ProcessKick(r)
  PROVE  Answered'
  <1>1. AtTask(r) /\ UNCHANGED <<conn, entry, lpc, ltask, gpc, gkey>> /\ UNCHANGED lifeTasks
        /\ Head(rooms[r].tasks).type # "JOIN"
    BY DEF ProcessRemove, ProcessKick, TaskReady, threadVars, lobbyVars, gameVars
  <1>2. WayRests("create") /\ Single("create")'
    BY <1>1, WaysFrame
  <1>3. ASSUME NEW k \in Key,
               \/ ToLobby(r, AfterTask(rooms[r]), k)
               \/ /\ rooms' = [rooms EXCEPT ![r] = RemovedFrom(AfterTask(rooms[r]), k)]
                  /\ sess' = AfterRoomDisconnect(sess, k)
                  /\ lobbyTasks' = lobbyTasks \o RoomDisconnectNotice(k)
        PROVE  Answered'
    <2>1. sess' = AfterRoomDisconnect(sess, k) /\ rooms' = [rooms EXCEPT ![r] = RemovedFrom(AfterTask(rooms[r]), k)]
      BY <1>3 DEF ToLobby
    <2>2. LivesRest
      BY <2>1, LeftLives
    <2>3. WayRests("join") /\ Single("join")'
      <3> DEFINE u == AfterTask(rooms[r])
                 w == RemovedFrom(u, k)
      <3>1. RoomOK(u) /\ u.pc \in {"claim", "tasks"}
        BY <1>1, AfterTaskOK DEF Typed, RoomsOK, AtTask
      <3> HIDE DEF u
      <3>2. w.tasks = u.tasks
        BY <3>1, RemovedFromOK
      <3>3. rooms' = [rooms EXCEPT ![r] = w]
        BY <2>1 DEF u
      <3> HIDE DEF w
      <3> QED
        BY <1>1, <3>2, <3>3, RoomJoins DEF u
    <2>4. LTask("DISCONNECT", k).type = "DISCONNECT"
      BY TaskTypes DEF LobbyTaskType
    <2>5. \A x \in TasksOf(RoomDisconnectNotice(k)) : x.type # "ROOM_TRANSITION_RESULT"
      BY <2>4, NoticePosted
    <2>6. PICK q : Posting(q) /\ \A x \in TasksOf(q) : x.type # "ROOM_TRANSITION_RESULT"
      <3>1. CASE ToLobby(r, AfterTask(rooms[r]), k)
        <4>0. AtTask(r)
          BY <1>1
        <4>1. PICK x \in LobbyTask : /\ x.type = "ENTER_LOBBY" /\ Posting(RoomDisconnectNotice(k) \o <<x>>)
                                    /\ TasksOf(RoomDisconnectNotice(k) \o <<x>>) = TasksOf(RoomDisconnectNotice(k)) \cup {x}
          BY <3>1, <4>0, ToLobbyPosts
        <4> DEFINE p == RoomDisconnectNotice(k) \o <<x>>
        <4>2. Posting(p) /\ \A y \in TasksOf(p) : y.type # "ROOM_TRANSITION_RESULT"
          BY <2>5, <4>1
        <4> HIDE DEF p
        <4> QED
          BY <4>2
      <3>2. CASE lobbyTasks' = lobbyTasks \o RoomDisconnectNotice(k)
        BY <2>5, <3>2, NoticePosted DEF Posting
      <3> QED
        BY <1>3, <3>1, <3>2
    <2> QED
      BY <1>1, <1>2, <2>2, <2>3, <2>6, RoomRests
  <1>4. CASE rooms' = [rooms EXCEPT ![r] = AfterTask(@)] /\ UNCHANGED <<sess, lobbyTasks>>
    <2>1. LivesRest
      BY <1>4, LivesStay
    <2>2. WayRests("join") /\ Single("join")'
      BY <1>1, <1>4, RoomJoins
    <2>3. PICK q : Posting(q) /\ \A x \in TasksOf(q) : x.type # "ROOM_TRANSITION_RESULT"
      BY <1>4, PostNothing DEF Typed
    <2> QED
      BY <1>1, <1>2, <2>1, <2>2, <2>3, RoomRests
  <1>5. CASE ProcessRemove(r)
    <2>1. Head(rooms[r].tasks).key \in Key
      BY <1>1, TaskAtHand DEF Typed
    <2> QED
      BY <1>3, <1>4, <1>5, <2>1 DEF ProcessRemove
  <1>6. CASE ProcessKick(r)
    <2>1. \A c \in KickTarget(r, Head(rooms[r].tasks)) : c \in Key
      BY TargetKey DEF Typed
    <2> QED
      BY <1>3, <1>4, <1>6, <2>1 DEF ProcessKick
  <1> QED
    BY <1>5, <1>6

----------------------------------------------------------------------------
(* Every transition is answered, once. *)

LEMMA AnsweredInit == Init => Answered
  <1> SUFFICES ASSUME Init PROVE Answered
    OBVIOUS
  <1>1. lifeTasks = <<>> /\ lobbyTasks = <<>> /\ (\A g \in GameThreads : gpc[g] = "idle")
        /\ (\A t \in LobbyThreads : lpc[t] = "idle") /\ (\A s \in Slots : entry[s].state = "EMPTY")
        /\ \A r \in RoomKeys : rooms[r].tasks = <<>>
    BY DEF Init, NewRoom, EmptyEntry
  <1>2. TasksOf(<<>>) = {} /\ \A type : OnceIn(<<>>, type)
    BY DEF TasksOf, OnceIn
  <1>3. Waiting = {}
    BY <1>1, <1>2 DEF Waiting
  <1>4. \A k, p : ~Under(k, p)
    BY <1>1, <1>2, <1>3 DEF Under, Holds, Making, Joining, Flying, Entering
  <1>5. \A p \in Ways : Single(p)
    BY <1>1, <1>2 DEF Single, OneMaker, OneJoin, OneEntering, Once, HasTask, Joining, Holds, Making, Entering
  <1>6. \A k \in Key : EntryFits(k)
    BY <1>1, <1>4, KeyFacts DEF EntryFits, Moving, EntryIs
  <1> QED
    BY <1>4, <1>5, <1>6 DEF Answered, Exclusive

LEMMA AnsweredNext == Typed /\ Sorted /\ Owned /\ Answered /\ [Next]_vars => Answered'
  <1> SUFFICES ASSUME Typed, Sorted, Owned, Answered, [Next]_vars PROVE Answered'
    OBVIOUS
  <1>1. CASE UNCHANGED vars \/ StartLobbyPhase \/ EndLobbyTasks
    BY <1>1, PhaseAnswers
  <1>2. ASSUME NEW s \in Slots, AcquireSession(s) \/ CompleteSessionIO(s) PROVE Answered'
    BY <1>2, NetworkAnswers
  <1>3. ASSUME NEW t \in LobbyThreads, LobbyTaskStep(t) PROVE Answered'
    BY <1>3, DequeueAnswers, QueueAnswers, ReturnAnswers, EnterAnswers, ActivateAnswers, FinalizeAnswers, SlotAnswers
       DEF LobbyTaskStep
  <1>4. ASSUME NEW t \in LobbyThreads, LobbyRequest(t) PROVE Answered'
    BY <1>4, RequestAnswers
  <1>5. ASSUME NEW t \in LobbyThreads, EndVisit(t) \/ \E s \in Slots : VisitSession(t, s) PROVE Answered'
    BY <1>5, VisitAnswers
  <1>6. ASSUME NEW g \in GameThreads, CreateStep(g) PROVE Answered'
    BY <1>6, CreateAnswers, BeginCreateAnswers, MakerAnswers
  <1>7. ASSUME NEW r \in RoomKeys, ProcessRoomTask(r) PROVE Answered'
    BY <1>7, SeatAnswers, RemovalAnswers, TickAnswers DEF ProcessRoomTask
  <1>8. ASSUME NEW r \in RoomKeys,
               \/ BeginTick(r) \/ ClaimTasks(r) \/ KeepPending(r) \/ VisitSeat(r) \/ EndSeatVisit(r) \/ PlayTick(r)
               \/ EndRoomTasks(r)
        PROVE  Answered'
    BY <1>8, TickAnswers
  <1>9. ASSUME NEW r \in RoomKeys, RoomRequest(r) PROVE Answered'
    BY <1>9, SeatedAnswers, TickAnswers DEF RoomRequest
  <1> QED
    BY <1>1, <1>2, <1>3, <1>4, <1>5, <1>6, <1>7, <1>8, <1>9 DEF Next, RoomTaskStep

LEMMA QueuedForFacts ==
  ASSUME NEW seq, NEW type, NEW k
  PROVE  /\ QueuedFor(seq, type, k) # {} <=> Holds(seq, type, k)
         /\ OnceIn(seq, type) => \A m, n \in QueuedFor(seq, type, k) : m = n
  BY DEF QueuedFor, Holds, TasksOf, OnceIn

\* Something with a name put before it.
LEMMA Named ==
  ASSUME NEW name, NEW S
  PROVE  /\ {name} \X S # {} <=> S # {}
         /\ (\A m, n \in S : m = n) => \A x, y \in {name} \X S : x = y
  <1> DEFINE P == {name} \X S
  <1>1. \A x : x \in P <=> \E n \in S : x = <<name, n>>
    OBVIOUS
  <1> HIDE DEF P
  <1>2. P # {} <=> S # {}
    BY <1>1
  <1>3. ASSUME \A m, n \in S : m = n, NEW x \in P, NEW y \in P PROVE x = y
    BY <1>1, <1>3
  <1> QED
    BY <1>1, <1>2, <1>3 DEF P

\* The places of the transitions of k, by the way they go.
Places(k, p) ==
  CASE p = "create" -> {"create"} \X QueuedFor(lifeTasks, "CREATE", k)
    [] p = "make" -> {"make"} \X {g \in GameThreads : Making(g, k)}
    [] p = "join" -> UNION {{"join"} \X {r} \X QueuedFor(rooms[r].tasks, "JOIN", k) : r \in RoomKeys}
    [] p = "answer" -> ({"answer"} \X QueuedFor(lobbyTasks, "ROOM_TRANSITION_RESULT", k))
                       \cup ({"hand"} \X {t \in LobbyThreads : HasTask(t, "ROOM_TRANSITION_RESULT") /\ ltask[t].key = k})
    [] p = "enter" -> {"enter"} \X {t \in LobbyThreads : Entering(t, k)}

LEMMA TransitionPlaces ==
  ASSUME NEW k \in Key
  PROVE  \A x : x \in Transitions(k) <=> \E p \in Ways : x \in Places(k, p)
  <1> DEFINE C == {"create"} \X QueuedFor(lifeTasks, "CREATE", k)
             M == {"make"} \X {g \in GameThreads : gpc[g] \in {"wait", "created"} /\ gkey[g] = k}
             J == UNION {{"join"} \X {r} \X QueuedFor(rooms[r].tasks, "JOIN", k) : r \in RoomKeys}
             Q == {"answer"} \X QueuedFor(lobbyTasks, "ROOM_TRANSITION_RESULT", k)
             H == {"hand"} \X {t \in LobbyThreads :
                               lpc[t] = "task" /\ ltask[t].type = "ROOM_TRANSITION_RESULT" /\ ltask[t].key = k}
             E == {"enter"} \X {t \in LobbyThreads : lpc[t] = "enter" /\ ltask[t].key = k}
  <1>1. Transitions(k) = C \cup M \cup J \cup Q \cup H \cup E
    BY DEF Transitions
  <1>2. Places(k, "create") = C /\ Places(k, "join") = J
    BY DEF Places
  <1>3. Places(k, "make") = M /\ Places(k, "enter") = E
    BY DEF Places, Making, Entering
  <1>4. Places(k, "answer") = Q \cup H
    BY DEF Places, HasTask
  <1> HIDE DEF C, M, J, Q, H, E
  <1> QED
    BY <1>1, <1>2, <1>3, <1>4 DEF Ways

\* Someone is under way exactly where there is a place of a transition, and there is one place only.
LEMMA PlacesUnder ==
  ASSUME NEW k \in Key, NEW p \in Ways, Single(p)
  PROVE  /\ Places(k, p) # {} <=> Under(k, p)
         /\ \A x, y \in Places(k, p) : x = y
  <1>1. CASE p = "create"
    <2>1. Places(k, p) = {"create"} \X QueuedFor(lifeTasks, "CREATE", k)
      BY <1>1 DEF Places
    <2>2. OnceIn(lifeTasks, "CREATE") /\ (Under(k, p) <=> Holds(lifeTasks, "CREATE", k))
      BY <1>1 DEF Single, Under
    <2>3. (QueuedFor(lifeTasks, "CREATE", k) # {} <=> Under(k, p)) /\ \A m, n \in QueuedFor(lifeTasks, "CREATE", k) : m = n
      BY <2>2, QueuedForFacts
    <2> QED
      BY <2>1, <2>3, Named
  <1>2. CASE p = "make"
    <2>1. Places(k, p) = {"make"} \X {g \in GameThreads : Making(g, k)}
      BY <1>2 DEF Places
    <2>2. OneMaker /\ (Under(k, p) <=> \E g \in GameThreads : Making(g, k))
      BY <1>2 DEF Single, Under
    <2>3. \A g, h \in {f \in GameThreads : Making(f, k)} : g = h
      BY <2>2 DEF OneMaker
    <2> QED
      BY <2>1, <2>2, <2>3, Named
  <1>3. CASE p = "join"
    <2>1. Places(k, p) = UNION {{"join"} \X {r} \X QueuedFor(rooms[r].tasks, "JOIN", k) : r \in RoomKeys}
      BY <1>3 DEF Places
    <2>2. OneJoin /\ (Under(k, p) <=> \E r \in RoomKeys : Joining(r, k))
      BY <1>3 DEF Single, Under
    <2>3. \A r \in RoomKeys : /\ QueuedFor(rooms[r].tasks, "JOIN", k) # {} <=> Joining(r, k)
                              /\ \A m, n \in QueuedFor(rooms[r].tasks, "JOIN", k) : m = n
      BY <2>2, QueuedForFacts DEF OneJoin, Joining
    <2>4. \A x : x \in Places(k, p) <=> \E r \in RoomKeys : \E n \in QueuedFor(rooms[r].tasks, "JOIN", k) : x = <<"join", r, n>>
      BY <2>1
    <2>5. Places(k, p) # {} <=> Under(k, p)
      BY <2>2, <2>3, <2>4
    <2>6. ASSUME NEW x \in Places(k, p), NEW y \in Places(k, p) PROVE x = y
      <3>1. PICK q \in RoomKeys : \E m \in QueuedFor(rooms[q].tasks, "JOIN", k) : x = <<"join", q, m>>
        BY <2>4
      <3>2. PICK r \in RoomKeys : \E n \in QueuedFor(rooms[r].tasks, "JOIN", k) : y = <<"join", r, n>>
        BY <2>4
      <3>3. q = r
        BY <2>2, <2>3, <3>1, <3>2 DEF OneJoin
      <3> QED
        BY <2>3, <3>1, <3>2, <3>3
    <2> QED
      BY <2>5, <2>6
  <1>4. CASE p = "answer"
    <2> DEFINE type == "ROOM_TRANSITION_RESULT"
               Q == QueuedFor(lobbyTasks, type, k)
               H == {t \in LobbyThreads : HasTask(t, type) /\ ltask[t].key = k}
    <2>1. Places(k, p) = ({"answer"} \X Q) \cup ({"hand"} \X H)
      BY <1>4 DEF Places
    <2>2. Once(type) /\ (Under(k, p) <=> Flying(type, k))
      BY <1>4 DEF Single, Under
    <2> HIDE DEF type
    <2>3. (Q # {} <=> Holds(lobbyTasks, type, k)) /\ (\A m, n \in Q : m = n)
      BY <2>2, QueuedForFacts DEF Once
    <2>4. \A t, u \in H : t = u
      BY <2>2 DEF Once
    <2>5. Q = {} \/ H = {}
      BY <2>2, <2>3 DEF Once, Holds
    <2>6. Under(k, p) <=> Q # {} \/ H # {}
      BY <2>2, <2>3, FlyingIs
    <2> HIDE DEF Q, H
    <2>7. ({"answer"} \X Q # {} <=> Q # {}) /\ \A x, y \in {"answer"} \X Q : x = y
      BY <2>3, Named
    <2>8. ({"hand"} \X H # {} <=> H # {}) /\ \A x, y \in {"hand"} \X H : x = y
      BY <2>4, Named
    <2> DEFINE A == {"answer"} \X Q
               B == {"hand"} \X H
    <2>9. Places(k, p) = A \cup B
      BY <2>1
    <2> HIDE DEF A, B
    <2> QED
      BY <2>5, <2>6, <2>7, <2>8, <2>9 DEF A, B
  <1>5. CASE p = "enter"
    <2>1. Places(k, p) = {"enter"} \X {t \in LobbyThreads : Entering(t, k)}
      BY <1>5 DEF Places
    <2>2. OneEntering /\ (Under(k, p) <=> \E t \in LobbyThreads : Entering(t, k))
      BY <1>5 DEF Single, Under
    <2>3. \A t, u \in {v \in LobbyThreads : Entering(v, k)} : t = u
      BY <2>2 DEF OneEntering
    <2> QED
      BY <2>1, <2>2, <2>3, Named
  <1> QED
    BY <1>1, <1>2, <1>3, <1>4, <1>5 DEF Ways

LEMMA AnsweredOnce == Typed /\ Answered => OneTransition
  <1> SUFFICES ASSUME Typed, Answered, NEW s \in Slots
               PROVE  /\ entry[s].state = "PENDING" => Cardinality(Transitions(<<s, entry[s].id>>)) = 1
                      /\ entry[s].state = "ACTIVE" => Transitions(<<s, entry[s].id>>) = {}
    BY DEF OneTransition
  <1>0. entry[s].id \in Ids
    BY DEF Typed, LobbyOK
  <1>1. PICK k \in Key : k = <<s, entry[s].id>> /\ k[1] = s /\ k[2] = entry[s].id
    <2>1. <<s, entry[s].id>> \in Key /\ <<s, entry[s].id>>[1] = s /\ <<s, entry[s].id>>[2] = entry[s].id
      BY <1>0, KeyFacts
    <2> QED
      BY <2>1
  <1>2. \A p \in Ways : Single(p)
    BY DEF Answered
  <1>3. \A x \in Transitions(k) : \E p \in Ways : Under(k, p) /\ x \in Places(k, p)
    BY <1>2, TransitionPlaces, PlacesUnder
  <1>4. \A x, y \in Transitions(k) : x = y
    BY <1>2, <1>3, PlacesUnder DEF Answered, Exclusive
  <1>5. Moving(k) => Transitions(k) # {}
    BY <1>2, TransitionPlaces, PlacesUnder DEF Moving
  <1>6. CASE entry[s].state = "PENDING"
    <2>1. Moving(k)
      BY <1>1, <1>6 DEF Answered, EntryFits, EntryIs
    <2>2. PICK x : Transitions(k) = {x}
      BY <1>4, <1>5, <2>1
    <2>3. Cardinality(Transitions(k)) = 1
      BY <2>2, FS_Singleton
    <2> QED
      BY <1>1, <1>6, <2>3
  <1>7. CASE entry[s].state = "ACTIVE"
    <2>1. ~Moving(k)
      BY <1>1, <1>7 DEF Answered, EntryFits, EntryIs
    <2> QED
      BY <1>1, <1>3, <1>7, <2>1 DEF Moving
  <1> QED
    BY <1>6, <1>7

\* An entry that waits for the answer to a room transition waits for exactly one, wherever it is
\* between the lobby, the game threads and the rooms, and an entry that waits for none gets none:
\* no transition is lost or asked for twice, whatever is overtaken, refused or ended meanwhile.
THEOREM TransitionsAreAnswered == Spec => []OneTransition
  <1>1. Init => Answered
    BY AnsweredInit
  <1>2. (Typed /\ HoldOK /\ Sorted /\ Owned /\ Placed) /\ Answered /\ [Next]_vars => Answered'
    BY AnsweredNext
  <1>3. Typed /\ Answered => OneTransition
    BY AnsweredOnce
  <1> QED
    BY <1>1, <1>2, <1>3, AlwaysPlaced, PTL DEF Spec

----------------------------------------------------------------------------
(* Who looks after a connection. *)

\* Its entry has it visited; whoever is being forgotten has no entry, unless it comes back already.
Listed(k) ==
  /\ EntryIs(k, "ACTIVE") => k \in active
  /\ EntryIs(k, "PENDING") /\ ~Under(k, "enter") => k \in active
Forgets(k) ==
  Forgetting(k) => /\ k \in active /\ k[2] <= conn[k[1]] /\ ~Flying("ADD_SESSION", k)
                   /\ \A st \in {"PENDING", "ACTIVE"} : EntryIs(k, st) => Under(k, "enter")

\* Only a session that is in its room is told to the lobby as taken.
Accepted(k) == \E task \in Waiting : task.type = "ROOM_TRANSITION_RESULT" /\ task.key = k /\ task.ok
AcceptedIn(k) == Accepted(k) /\ IsActive(k) => sess[k[1]].mode = "ROOM"

\* Somebody sees an active session: as Cared, with the places of the transitions.
Seen(k) ==
  \/ k \in overtaken \/ Flying("ADD_SESSION", k) \/ Flying("ENTER_LOBBY", k) \/ Under(k, "enter")
  \/ EntryIs(k, "ACTIVE") /\ sess[k[1]].mode \in {"LOGIN", "LOBBY"}
  \/ EntryIs(k, "PENDING") /\ sess[k[1]].mode = "LOBBY"
  \/ \E r \in RoomKeys : Sits(r, k)

Watched(k) == Listed(k) /\ Forgets(k) /\ AcceptedIn(k) /\ (IsActive(k) => Seen(k))

\* A session is forgotten by one thread at a time, and a thread between the halves of ENTER_LOBBY
\* has such a task.
OneForgets ==
  \A t, u \in LobbyThreads : lpc[t] = "forget" /\ lpc[u] = "forget" /\ ltask[t].key = ltask[u].key => t = u
EnterSorted == \A t \in LobbyThreads : lpc[t] = "enter" => ltask[t].type = "ENTER_LOBBY"

Watch == (\A k \in Key : Watched(k)) /\ OneForgets /\ EnterSorted

\* The lobby, the session, the tasks and the seat of k stay, as far as somebody sees k.
EntryKept(k) ==
  /\ \A st \in {"PENDING", "ACTIVE"} : EntryIs(k, st)' <=> EntryIs(k, st)
  /\ k \in active' <=> k \in active
  /\ Under(k, "enter")' <=> Under(k, "enter")
  /\ Forgetting(k)' <=> Forgetting(k)
ModeKept(k) == IsActive(k)' => IsActive(k) /\ sess'[k[1]].mode = sess[k[1]].mode
TasksKept(k) ==
  /\ Flying("ADD_SESSION", k)' => Flying("ADD_SESSION", k)
  /\ Accepted(k)' => Accepted(k)
  /\ IsActive(k)' => \A type \in {"ADD_SESSION", "ENTER_LOBBY"} : Flying(type, k) => Flying(type, k)'
SeatKept(k) ==
  /\ k \in overtaken => k \in overtaken'
  /\ IsActive(k)' => \A r \in RoomKeys : Sits(r, k) => Sits(r, k)'
KeyKept(k) == EntryKept(k) /\ ModeKept(k) /\ TasksKept(k) /\ SeatKept(k)

LEMMA ListedKept ==
  ASSUME ConnRests, NEW k \in Key, Watched(k), EntryKept(k), TasksKept(k)
  PROVE  Listed(k)' /\ Forgets(k)'
  <1>1. Listed(k)'
    BY DEF Watched, Listed, EntryKept
  <1>2. SUFFICES ASSUME Forgetting(k)'
                 PROVE  /\ k \in active' /\ k[2] <= conn'[k[1]] /\ ~Flying("ADD_SESSION", k)'
                        /\ \A st \in {"PENDING", "ACTIVE"} : EntryIs(k, st)' => Under(k, "enter")'
    BY <1>1 DEF Forgets
  <1>3. /\ k \in active /\ k[2] <= conn[k[1]] /\ ~Flying("ADD_SESSION", k)
        /\ \A st \in {"PENDING", "ACTIVE"} : EntryIs(k, st) => Under(k, "enter")
    BY <1>2 DEF Watched, Forgets, EntryKept
  <1>4. k[2] <= conn'[k[1]]
    BY <1>3 DEF ConnRests
  <1> QED
    BY <1>3, <1>4 DEF EntryKept, TasksKept

LEMMA AcceptedKept ==
  ASSUME NEW k, Watched(k), ModeKept(k), TasksKept(k)
  PROVE  AcceptedIn(k)'
  BY DEF Watched, ModeKept, TasksKept, AcceptedIn

LEMMA SeenKept ==
  ASSUME NEW k, Watched(k), IsActive(k)', EntryKept(k), ModeKept(k), TasksKept(k), SeatKept(k)
  PROVE  Seen(k)'
  <1>1. Seen(k) /\ sess'[k[1]].mode = sess[k[1]].mode
    BY DEF Watched, ModeKept
  <1>2. CASE k \in overtaken \/ \E r \in RoomKeys : Sits(r, k)
    BY <1>2 DEF SeatKept, Seen
  <1>3. CASE Flying("ADD_SESSION", k) \/ Flying("ENTER_LOBBY", k)
    BY <1>3 DEF TasksKept, Seen
  <1>4. CASE Under(k, "enter") \/ (EntryIs(k, "ACTIVE") /\ sess[k[1]].mode \in {"LOGIN", "LOBBY"})
             \/ (EntryIs(k, "PENDING") /\ sess[k[1]].mode = "LOBBY")
    BY <1>1, <1>4 DEF EntryKept, Seen
  <1> QED
    BY <1>1, <1>2, <1>3, <1>4 DEF Seen

LEMMA WatchedKept ==
  ASSUME ConnRests, NEW k \in Key, Watched(k), KeyKept(k)
  PROVE  Watched(k)'
  <1>1. Listed(k)' /\ Forgets(k)'
    BY ListedKept DEF KeyKept
  <1>2. AcceptedIn(k)'
    BY AcceptedKept DEF KeyKept
  <1>3. IsActive(k)' => Seen(k)'
    BY SeenKept DEF KeyKept
  <1> QED
    BY <1>1, <1>2, <1>3 DEF Watched

----------------------------------------------------------------------------
(* What keeps them. *)

\* No session becomes active, or changes where an active one is.
ModesRest ==
  \A s \in Slots : sess'[s].life = "ACTIVE" =>
     sess[s].life = "ACTIVE" /\ sess'[s].id = sess[s].id /\ sess'[s].mode = sess[s].mode

LEMMA ModesKept ==
  ASSUME ModesRest
  PROVE  \A k \in Key : ModeKept(k)
  <1>1. \A k \in Key : k[1] \in Slots
    BY KeyFacts
  <1> QED
    BY <1>1 DEF ModesRest, ModeKept, IsActive, Found

LEMMA ModesAre ==
  /\ UNCHANGED sess => ModesRest
  /\ \A s \in Slots, b \in BOOLEAN : SessOK /\ sess' = [sess EXCEPT ![s].right = b] => ModesRest
  /\ \A s \in Slots : \A x : SessOK /\ sess' = [sess EXCEPT ![s] = x] /\ x.life # "ACTIVE" => ModesRest
  /\ \A k \in Key : SessOK /\ sess' = AfterRoomDisconnect(sess, k) => ModesRest
  <1>1. UNCHANGED sess => ModesRest
    BY DEF ModesRest
  <1>2. ASSUME NEW s \in Slots, NEW x, SessOK, sess' = [sess EXCEPT ![s] = x],
               x.life # "ACTIVE" \/ (x.life = sess[s].life /\ x.id = sess[s].id /\ x.mode = sess[s].mode)
        PROVE  ModesRest
    <2>1. sess'[s] = x /\ \A q \in Slots \ {s} : sess'[q] = sess[q]
      BY <1>2, RightIn
    <2> QED
      BY <1>2, <2>1 DEF ModesRest
  <1>3. ASSUME NEW s \in Slots, NEW b \in BOOLEAN, SessOK, sess' = [sess EXCEPT ![s].right = b] PROVE ModesRest
    <2> DEFINE x == [sess[s] EXCEPT !.right = b]
    <2>1. x.id = sess[s].id /\ x.life = sess[s].life /\ x.mode = sess[s].mode /\ sess' = [sess EXCEPT ![s] = x]
      BY <1>3 DEF SessOK, Session
    <2> HIDE DEF x
    <2> QED
      BY <1>2, <1>3, <2>1
  <1>4. ASSUME NEW k \in Key, SessOK, sess' = AfterRoomDisconnect(sess, k) PROVE ModesRest
    <2>1. CASE LeavesRoom(k)
      <3> DEFINE x == [sess[k[1]] EXCEPT !.mode = "NONE", !.room = NoIndex]
      <3>1. k[1] \in Slots /\ sess[k[1]] \in Session
        BY <1>4, KeyFacts DEF SessOK
      <3>2. sess' = [sess EXCEPT ![k[1]] = x] /\ x.life = sess[k[1]].life
        BY <1>4, <2>1, <3>1 DEF AfterRoomDisconnect, Session
      <3>3. sess[k[1]].life # "ACTIVE"
        BY <2>1 DEF LeavesRoom, Disconnecting
      <3> HIDE DEF x
      <3> QED
        BY <1>2, <1>4, <3>1, <3>2, <3>3
    <2> QED
      BY <1>1, <1>4, <2>1 DEF AfterRoomDisconnect
  <1> QED
    BY <1>1, <1>2, <1>3, <1>4

\* Threads that stay, or go on without beginning or ending to forget a session or to enter one.
LEMMA ThreadsSame ==
  ASSUME UNCHANGED <<lpc, ltask>>, Watch
  PROVE  /\ \A k \in Key : (Under(k, "enter")' <=> Under(k, "enter")) /\ (Forgetting(k)' <=> Forgetting(k))
         /\ OneForgets' /\ EnterSorted'
  <1>1. \A k \in Key : (Under(k, "enter")' <=> Under(k, "enter")) /\ (Forgetting(k)' <=> Forgetting(k))
    BY DEF Under, Entering, Forgetting
  <1> QED
    BY <1>1 DEF Watch, OneForgets, EnterSorted

LEMMA ThreadElse ==
  ASSUME Watch, NEW t \in LobbyThreads, \A u \in LobbyThreads \ {t} : lpc'[u] = lpc[u] /\ ltask'[u] = ltask[u],
         lpc[t] \notin {"forget", "enter"}, lpc'[t] \notin {"forget", "enter"}
  PROVE  /\ \A k \in Key : (Under(k, "enter")' <=> Under(k, "enter")) /\ (Forgetting(k)' <=> Forgetting(k))
         /\ OneForgets' /\ EnterSorted'
  <1>1. \A k \in Key : Under(k, "enter")' <=> Under(k, "enter")
    BY DEF Under, Entering
  <1>2. \A k \in Key : Forgetting(k)' <=> Forgetting(k)
    BY DEF Forgetting
  <1>3. OneForgets' /\ EnterSorted'
    BY DEF Watch, OneForgets, EnterSorted
  <1> QED
    BY <1>1, <1>2, <1>3

\* Tasks are posted, none of them ADD_SESSION or an answer that accepts; no task of these or of
\* ENTER_LOBBY ends for an active session.
Plain(x) == x.type # "ADD_SESSION" /\ (x.type = "ROOM_TRANSITION_RESULT" => ~x.ok)

LEMMA FlyingStays ==
  ASSUME QueueOK, NEW q, Posting(q), NEW type, NEW k, Flying(type, k),
         \A t \in LobbyThreads : HasTask(t, type) /\ ltask[t].key = k => HasTask(t, type)' /\ ltask'[t] = ltask[t]
  PROVE  Flying(type, k)'
  <1>1. TasksOf(lobbyTasks') = TasksOf(lobbyTasks) \cup TasksOf(q)
    BY TasksOfConcat DEF QueueOK, Posting
  <1>2. CASE Holds(lobbyTasks, type, k)
    <2>1. Holds(lobbyTasks, type, k)'
      BY <1>1, <1>2 DEF Holds
    <2> QED
      BY <2>1 DEF Holds, Flying, Waiting
  <1>3. ASSUME NEW t \in LobbyThreads, HasTask(t, type), ltask[t].key = k PROVE Flying(type, k)'
    <2>1. lpc'[t] = "task" /\ ltask'[t].type = type /\ ltask'[t].key = k
      BY <1>3 DEF HasTask
    <2> QED
      BY <2>1 DEF Flying, Waiting
  <1> QED
    BY <1>2, <1>3, FlyingIs

LEMMA PostsKept ==
  ASSUME QueueOK, NoneTaken, NEW q, Posting(q), \A x \in TasksOf(q) : Plain(x), NEW k,
         \A t \in LobbyThreads, type \in {"ADD_SESSION", "ENTER_LOBBY"} :
            IsActive(k)' /\ HasTask(t, type) /\ ltask[t].key = k => HasTask(t, type)' /\ ltask'[t] = ltask[t]
  PROVE  TasksKept(k)
  <1>1. Waiting' \subseteq Waiting \cup TasksOf(q)
    BY WaitingKept
  <1>2. Flying("ADD_SESSION", k)' => Flying("ADD_SESSION", k)
    BY <1>1 DEF Flying, Plain
  <1>3. Accepted(k)' => Accepted(k)
    BY <1>1 DEF Accepted, Plain
  <1>4. ASSUME IsActive(k)', NEW type \in {"ADD_SESSION", "ENTER_LOBBY"}, Flying(type, k) PROVE Flying(type, k)'
    BY <1>4, FlyingStays
  <1> QED
    BY <1>2, <1>3, <1>4 DEF TasksKept

\* The tasks of the threads stay.
LEMMA PostsSame ==
  ASSUME ThreadOK, QueueOK, UNCHANGED <<lpc, ltask>>, NEW q, Posting(q), \A x \in TasksOf(q) : Plain(x)
  PROVE  \A k \in Key : TasksKept(k)
  <1>1. NoneTaken
    BY NoneTakenBy
  <1>2. \A t \in LobbyThreads, type \in {"ADD_SESSION", "ENTER_LOBBY"} :
          HasTask(t, type) => HasTask(t, type)' /\ ltask'[t] = ltask[t]
    BY DEF HasTask
  <1> QED
    BY <1>1, <1>2, PostsKept

\* Thread t goes on, and has no task that somebody is seen by.
LEMMA PostsElse ==
  ASSUME QueueOK, NEW t \in LobbyThreads, \A u \in LobbyThreads \ {t} : lpc'[u] = lpc[u] /\ ltask'[u] = ltask[u],
         lpc'[t] # "task", NEW q, Posting(q), \A x \in TasksOf(q) : Plain(x)
  PROVE  \A k \in Key : (\A type \in {"ADD_SESSION", "ENTER_LOBBY"} : ~(IsActive(k)' /\ HasTask(t, type) /\ ltask[t].key = k))
                        => TasksKept(k)
  <1>1. NoneTaken
    BY DEF NoneTaken
  <1>2. SUFFICES ASSUME NEW k \in Key, \A type \in {"ADD_SESSION", "ENTER_LOBBY"} : ~(IsActive(k)' /\ HasTask(t, type) /\ ltask[t].key = k)
                 PROVE  TasksKept(k)
    OBVIOUS
  <1>3. \A u \in LobbyThreads, type \in {"ADD_SESSION", "ENTER_LOBBY"} :
          IsActive(k)' /\ HasTask(u, type) /\ ltask[u].key = k => HasTask(u, type)' /\ ltask'[u] = ltask[u]
    BY <1>2 DEF HasTask
  <1> QED
    BY <1>1, <1>3, PostsKept

LEMMA SeatsKeptBy ==
  ASSUME overtaken \subseteq overtaken', \A r \in RoomKeys : rooms'[r].seats = rooms[r].seats
  PROVE  \A k \in Key : SeatKept(k)
  <1>1. \A r \in RoomKeys : \A k : Sits(r, k)' <=> Sits(r, k)
    BY SitsStays
  <1> QED
    BY <1>1 DEF SeatKept

\* The entry of j is set; the other connections of its slot have none before and after.
LEMMA OthersRest ==
  ASSUME LobbyOK, NEW j \in Key, NEW x, entry' = [entry EXCEPT ![j[1]] = x],
         entry[j[1]].state = "EMPTY" \/ entry[j[1]].id = j[2], x.state = "EMPTY" \/ x.id = j[2]
  PROVE  /\ \A k \in Key \ {j}, st \in {"PENDING", "ACTIVE"} : EntryIs(k, st)' <=> EntryIs(k, st)
         /\ \A st \in {"PENDING", "ACTIVE"} : EntryIs(j, st)' <=> x.state = st /\ x.id = j[2]
  <1>1. j[1] \in Slots /\ \A k \in Key : k[1] \in Slots
    BY KeyFacts
  <1>2. entry'[j[1]] = x /\ \A s \in Slots \ {j[1]} : entry'[s] = entry[s]
    BY <1>1 DEF LobbyOK
  <1>3. ASSUME NEW k \in Key \ {j}, NEW st \in {"PENDING", "ACTIVE"}, k[1] = j[1]
        PROVE  EntryIs(k, st)' <=> EntryIs(k, st)
    <2>1. k[2] # j[2]
      BY <1>3, KeyFacts
    <2> QED
      BY <1>2, <1>3, <2>1 DEF EntryIs
  <1>4. ASSUME NEW k \in Key \ {j}, NEW st \in {"PENDING", "ACTIVE"}, k[1] # j[1]
        PROVE  EntryIs(k, st)' <=> EntryIs(k, st)
    BY <1>1, <1>2, <1>4 DEF EntryIs
  <1>5. \A st \in {"PENDING", "ACTIVE"} : EntryIs(j, st)' <=> x.state = st /\ x.id = j[2]
    BY <1>2 DEF EntryIs
  <1> QED
    BY <1>3, <1>4, <1>5

\* Nothing is different for anybody.
LEMMA WatchRests ==
  ASSUME Watch, UNCHANGED <<entry, active>>, ConnRests, ModesRest,
         \A k \in Key : (Under(k, "enter")' <=> Under(k, "enter")) /\ (Forgetting(k)' <=> Forgetting(k)),
         OneForgets' /\ EnterSorted', \A k \in Key : TasksKept(k) /\ SeatKept(k)
  PROVE  Watch'
  <1>1. \A k \in Key : EntryKept(k)
    BY DEF EntryKept, EntryIs
  <1>2. \A k \in Key : KeyKept(k)
    BY <1>1, ModesKept DEF KeyKept
  <1>3. \A k \in Key : Watched(k)'
    BY <1>2, WatchedKept DEF Watch
  <1> QED
    BY <1>3 DEF Watch

\* Something is different for j only.
LEMMA WatchExcept ==
  ASSUME Watch, NEW j \in Key, ConnRests, \A k \in Key \ {j} : KeyKept(k), Watched(j)', OneForgets' /\ EnterSorted'
  PROVE  Watch'
  <1>1. \A k \in Key \ {j} : Watched(k)'
    BY WatchedKept DEF Watch
  <1> QED
    BY <1>1 DEF Watch

----------------------------------------------------------------------------
(* The network, the phases and the tasks of the lobby. *)

\* A new connection waits to be added.
LEMMA AcquireWatch ==
  ASSUME Typed, Owned, Answered, Watch, NEW s \in Slots, AcquireSession(s)
  PROVE  Watch'
  <1>1. UNCHANGED <<entry, active, lpc, ltask, rooms, overtaken>> /\ sess[s].life = "NONE"
    BY DEF AcquireSession, lobbyVars, threadVars
  <1>2. PICK j \in Key : j[1] = s /\ j[2] = conn[s] + 1 /\ conn[s] \in Nat /\ j = <<s, conn[s] + 1>>
    BY IdsLeft, KeyFacts DEF Typed, AcquireSession, SessOK
  <1>3. conn'[s] = conn[s] + 1 /\ \A q \in Slots \ {s} : conn'[q] = conn[q] /\ sess'[q] = sess[q]
    BY DEF AcquireSession, Typed, SessOK
  <1>4. sess'[s].id = conn[s] + 1
    BY DEF AcquireSession, Typed, SessOK, Session
  <1>5. \A k \in Key : k[1] \in Slots /\ k[2] \in Nat /\ (k[1] = j[1] /\ k[2] = j[2] => k = j)
    BY <1>2, KeyFacts
  <1>6. ConnRests
    BY <1>2, <1>3, <1>5 DEF ConnRests
  <1>7. \A k \in Key : (Under(k, "enter")' <=> Under(k, "enter")) /\ (Forgetting(k)' <=> Forgetting(k))
    BY <1>1, ThreadsSame
  <1>8. OneForgets' /\ EnterSorted'
    BY <1>1, ThreadsSame
  <1> DEFINE x == LTask("ADD_SESSION", j)
             q == <<x>>
  <1>9. x \in LobbyTask /\ x.type = "ADD_SESSION" /\ x.key = j /\ lobbyTasks' = Append(lobbyTasks, x)
    BY <1>2, TaskTypes DEF AcquireSession, LobbyTaskType
  <1>10. Posting(q) /\ TasksOf(q) = {x}
    BY <1>9, PostOne DEF Typed
  <1> HIDE DEF x, q
  <1>11. NoneTaken
    BY <1>1, NoneTakenBy DEF Typed
  <1>12. Waiting' \subseteq Waiting \cup {x}
    BY <1>10, <1>11, WaitingKept DEF Typed
  <1>13. \A k \in Key, type \in {"ADD_SESSION", "ENTER_LOBBY"} : Flying(type, k) => Flying(type, k)'
    <2>1. \A t \in LobbyThreads, type \in {"ADD_SESSION", "ENTER_LOBBY"} :
            HasTask(t, type) => HasTask(t, type)' /\ ltask'[t] = ltask[t]
      BY <1>1 DEF HasTask
    <2> QED
      BY <1>10, <2>1, FlyingStays DEF Typed
  <1>14. \A k \in Key : Accepted(k)' => Accepted(k)
    BY <1>9, <1>12 DEF Accepted
  <1>15. \A k \in Key \ {j} : KeyKept(k)
    <2> SUFFICES ASSUME NEW k \in Key \ {j} PROVE KeyKept(k)
      OBVIOUS
    <2>1. EntryKept(k)
      BY <1>1, <1>7 DEF EntryKept, EntryIs
    <2>2. ModeKept(k)
      BY <1>2, <1>3, <1>4, <1>5 DEF ModeKept, IsActive, Found
    <2>3. Flying("ADD_SESSION", k)' => Flying("ADD_SESSION", k)
      BY <1>9, <1>12 DEF Flying
    <2>4. TasksKept(k)
      BY <1>13, <1>14, <2>3 DEF TasksKept
    <2>5. SeatKept(k)
      BY <1>1, SeatsKeptBy
    <2> QED
      BY <2>1, <2>2, <2>4, <2>5 DEF KeyKept
  <1>16. Watched(j)'
    <2>1. \A st \in {"PENDING", "ACTIVE"} : ~EntryIs(j, st)'
      BY <1>1, <1>2 DEF Owned, EntryOwned, EntryIs, Found
    <2>2. ~Forgetting(j)'
      BY <1>2, <1>7 DEF Watch, Watched, Forgets
    <2>3. ~Accepted(j)'
      <3>1. ~Moving(j)
        BY <1>2 DEF Answered, EntryFits
      <3>2. ~Flying("ROOM_TRANSITION_RESULT", j)
        BY <3>1 DEF Moving, Under, Ways
      <3> QED
        BY <1>14, <3>2 DEF Accepted, Flying
    <2>4. Flying("ADD_SESSION", j)'
      <3>1. TasksOf(lobbyTasks') = TasksOf(lobbyTasks) \cup TasksOf(q)
        BY <1>10, <1>11, WaitingKept DEF Typed
      <3> QED
        BY <1>9, <1>10, <3>1 DEF Flying, Waiting
    <2> QED
      BY <2>1, <2>2, <2>3, <2>4 DEF Watched, Listed, Forgets, AcceptedIn, Seen
  <1> QED
    BY <1>6, <1>8, <1>15, <1>16, WatchExcept

\* The threads rest, no connection comes, and the tasks that come are no concern.
LEMMA QuietWatch ==
  ASSUME Typed, Watch, UNCHANGED <<entry, active, conn, lpc, ltask>>, ModesRest,
         NEW q, Posting(q), \A x \in TasksOf(q) : Plain(x), \A k \in Key : SeatKept(k)
  PROVE  Watch'
  <1>1. \A k \in Key : TasksKept(k)
    BY PostsSame DEF Typed
  <1>2. ConnRests
    BY SameConn
  <1>3. /\ \A k \in Key : (Under(k, "enter")' <=> Under(k, "enter")) /\ (Forgetting(k)' <=> Forgetting(k))
        /\ OneForgets' /\ EnterSorted'
    BY ThreadsSame
  <1> QED
    BY <1>1, <1>2, <1>3, WatchRests

\* So do those of a thread that forgets and enters nobody.
LEMMA ThreadWatch ==
  ASSUME Typed, Watch, UNCHANGED <<entry, active, conn>>, ModesRest, NEW t \in LobbyThreads,
         \A u \in LobbyThreads \ {t} : lpc'[u] = lpc[u] /\ ltask'[u] = ltask[u],
         lpc[t] \notin {"forget", "enter"}, lpc'[t] \notin {"task", "forget", "enter"},
         NEW q, Posting(q), \A x \in TasksOf(q) : Plain(x), \A k \in Key : SeatKept(k),
         \A k \in Key, type \in {"ADD_SESSION", "ENTER_LOBBY"} : ~(IsActive(k)' /\ HasTask(t, type) /\ ltask[t].key = k)
  PROVE  Watch'
  <1>1. \A k \in Key : TasksKept(k)
    BY PostsElse DEF Typed
  <1>2. ConnRests
    BY SameConn
  <1>3. /\ \A k \in Key : (Under(k, "enter")' <=> Under(k, "enter")) /\ (Forgetting(k)' <=> Forgetting(k))
        /\ OneForgets' /\ EnterSorted'
    BY ThreadElse
  <1> QED
    BY <1>1, <1>2, <1>3, WatchRests

LEMMA PlainNothing ==
  ASSUME QueueOK, UNCHANGED lobbyTasks
  PROVE  \E q : Posting(q) /\ \A x \in TasksOf(q) : Plain(x)
  BY PostNothing

LEMMA PlainOne ==
  ASSUME QueueOK, NEW y \in LobbyTask, Plain(y), lobbyTasks' = Append(lobbyTasks, y)
  PROVE  \E q : Posting(q) /\ \A x \in TasksOf(q) : Plain(x)
  <1> DEFINE q == <<y>>
  <1>1. Posting(q) /\ TasksOf(q) = {y}
    BY PostOne
  <1> HIDE DEF q
  <1> QED
    BY <1>1

LEMMA PhaseWatch ==
  ASSUME Typed, Watch, StartLobbyPhase \/ EndLobbyTasks \/ UNCHANGED vars
  PROVE  Watch'
  <1>1. UNCHANGED <<sess, conn, entry, active, lobbyTasks, lpc, ltask, rooms, overtaken>>
    BY DEF StartLobbyPhase, EndLobbyTasks, vars, sessVars, lobbyVars, threadVars
  <1>2. ModesRest /\ \A k \in Key : SeatKept(k)
    BY <1>1, ModesAre, SeatsKeptBy
  <1>3. PICK q : Posting(q) /\ \A x \in TasksOf(q) : Plain(x)
    BY <1>1, PlainNothing DEF Typed
  <1> QED
    BY <1>1, <1>2, <1>3, QuietWatch

LEMMA CompleteWatch ==
  ASSUME Typed, Watch, NEW s \in Slots, CompleteSessionIO(s)
  PROVE  Watch'
  <1>1. UNCHANGED <<conn, entry, active, lpc, ltask, rooms, overtaken>>
    BY DEF CompleteSessionIO, lobbyVars, threadVars
  <1>2. ModesRest
    <2> DEFINE x == [sess[s] EXCEPT !.life = "DISCONNECTING"]
    <2>1. x.life # "ACTIVE" /\ sess' = [sess EXCEPT ![s] = x]
      BY DEF CompleteSessionIO, Typed, SessOK, Session
    <2> HIDE DEF x
    <2> QED
      BY <2>1, ModesAre DEF Typed
  <1>3. \E y \in LobbyTask : Plain(y) /\ lobbyTasks' = Append(lobbyTasks, y)
    BY OccupantKey, TaskTypes DEF Typed, CompleteSessionIO, LobbyTaskType, Plain
  <1>4. PICK q : Posting(q) /\ \A x \in TasksOf(q) : Plain(x)
    BY <1>3, PlainOne DEF Typed
  <1> QED
    BY <1>1, <1>2, <1>4, SeatsKeptBy, QuietWatch

LEMMA DequeueWatch ==
  ASSUME Typed, Watch, NEW t \in LobbyThreads, DequeueLobbyTask(t)
  PROVE  Watch'
  <1>1. UNCHANGED <<sess, conn, entry, active, rooms, overtaken>>
    BY DEF DequeueLobbyTask, sessVars, lobbyVars
  <1>2. lpc[t] = "idle" /\ lpc'[t] = "task" /\ \A u \in LobbyThreads \ {t} : lpc'[u] = lpc[u] /\ ltask'[u] = ltask[u]
    BY DEF DequeueLobbyTask, Typed, ThreadOK
  <1>3. Waiting' = Waiting
    BY FlyingTaken
  <1>4. \A k \in Key : TasksKept(k)
    BY <1>3 DEF TasksKept, Flying, Accepted
  <1>5. /\ \A k \in Key : (Under(k, "enter")' <=> Under(k, "enter")) /\ (Forgetting(k)' <=> Forgetting(k))
        /\ OneForgets' /\ EnterSorted'
    BY <1>2, ThreadElse
  <1> QED
    BY <1>1, <1>4, <1>5, SameConn, ModesAre, SeatsKeptBy, WatchRests

\* What a thread does to the entry, the list and the tasks of j, and to nobody else's.
LEMMA OthersKept ==
  ASSUME Typed, Watch, NEW j \in Key, NEW x, entry' = [entry EXCEPT ![j[1]] = x] \/ UNCHANGED entry,
         entry[j[1]].state = "EMPTY" \/ entry[j[1]].id = j[2], x.state = "EMPTY" \/ x.id = j[2],
         \A k \in Key \ {j} : k \in active' <=> k \in active,
         \A k \in Key \ {j} : (Under(k, "enter")' <=> Under(k, "enter")) /\ (Forgetting(k)' <=> Forgetting(k))
  PROVE  \A k \in Key \ {j} : EntryKept(k)
  <1>1. \A k \in Key \ {j}, st \in {"PENDING", "ACTIVE"} : EntryIs(k, st)' <=> EntryIs(k, st)
    <2>1. CASE entry' = [entry EXCEPT ![j[1]] = x]
      BY <2>1, OthersRest DEF Typed
    <2>2. CASE UNCHANGED entry
      BY <2>2 DEF EntryIs
    <2> QED
      BY <2>1, <2>2
  <1> QED
    BY <1>1 DEF EntryKept

\* The entry that is made has the session visited.
LEMMA AddWatch ==
  ASSUME Typed, Owned, Answered, Watch, NEW t \in LobbyThreads, AddSession(t)
  PROVE  Watch'
  <1>1. UNCHANGED <<sess, conn>> /\ UNCHANGED lobbyTasks /\ UNCHANGED <<rooms, overtaken>> /\ DoneLobby(t)
        /\ lpc[t] = "task" /\ HasTask(t, "ADD_SESSION")
    BY DEF AddSession, sessVars, HasTask
  <1>2. PICK j \in Key : j = ltask[t].key /\ j[1] \in Slots
    BY <1>1, ThreadKey, KeyFacts DEF Typed
  <1>3. (\A u \in LobbyThreads \ {t} : lpc'[u] = lpc[u] /\ ltask'[u] = ltask[u]) /\ lpc'[t] = "idle"
    BY <1>1, DoneOthers DEF Typed
  <1>4. ModesRest /\ (\A k \in Key : SeatKept(k)) /\ ConnRests
    BY <1>1, ModesAre, SeatsKeptBy, SameConn
  <1>5. PICK q : Posting(q) /\ \A x \in TasksOf(q) : Plain(x)
    BY <1>1, PlainNothing DEF Typed
  <1>6. CASE UNCHANGED lobbyVars /\ ~(IsActive(j) /\ sess[j[1]].mode \in {"LOGIN", "LOBBY"} /\ entry[j[1]].state = "EMPTY")
    <2>1. ~IsActive(j)
      <3>1. ltask[t] \in Waiting /\ ltask[t].type = "ADD_SESSION"
        BY <1>1 DEF Waiting, HasTask
      <3>2. NotAdded(j)
        BY <1>2, <3>1 DEF Owned, AddOwned
      <3>3. entry[j[1]].state # "EMPTY" /\ Found(j) => EntryMatches(j)
        BY <1>2 DEF Owned, EntryOwned, Found, EntryMatches
      <3> QED
        BY <1>6, <3>2, <3>3 DEF NotAdded, IsActive
    <2>2. \A k \in Key, type \in {"ADD_SESSION", "ENTER_LOBBY"} : ~(IsActive(k)' /\ HasTask(t, type) /\ ltask[t].key = k)
      BY <1>1, <1>2, <2>1 DEF IsActive, Found
    <2>3. UNCHANGED <<entry, active, conn>>
      BY <1>1, <1>6 DEF lobbyVars
    <2> QED
      BY <1>1, <1>3, <1>4, <1>5, <2>2, <2>3, ThreadWatch
  <1>7. CASE /\ IsActive(j) /\ sess[j[1]].mode \in {"LOGIN", "LOBBY"} /\ entry[j[1]].state = "EMPTY"
             /\ entry' = [entry EXCEPT ![j[1]] = [state |-> "ACTIVE", id |-> j[2]]] /\ active' = active \cup {j}
    <2> DEFINE x == [state |-> "ACTIVE", id |-> j[2]]
    <2>1. entry' = [entry EXCEPT ![j[1]] = x] /\ x.id = j[2] /\ x.state = "ACTIVE"
      BY <1>7
    <2> HIDE DEF x
    <2>2. (\A k \in Key : (Under(k, "enter")' <=> Under(k, "enter")) /\ (Forgetting(k)' <=> Forgetting(k)))
          /\ OneForgets' /\ EnterSorted'
      BY <1>1, <1>3, ThreadElse
    <2>3. \A k \in Key \ {j} : EntryKept(k)
      BY <1>7, <2>1, <2>2, OthersKept
    <2>4. \A k \in Key \ {j} : TasksKept(k)
      BY <1>2, <1>3, <1>5, PostsElse DEF Typed
    <2>5. \A k \in Key \ {j} : KeyKept(k)
      BY <1>4, <2>3, <2>4, ModesKept DEF KeyKept
    <2>6. EntryIs(j, "ACTIVE")' /\ ~EntryIs(j, "PENDING")'
      BY <1>7, <2>1, OthersRest DEF Typed
    <2>7. ~Forgetting(j)'
      <3>1. Flying("ADD_SESSION", j)
        BY <1>1, <1>2, FlyingIs
      <3> QED
        BY <2>2, <3>1 DEF Watch, Watched, Forgets
    <2>8. ~Accepted(j)'
      <3>1. ~Moving(j)
        BY <1>7 DEF Answered, EntryFits, EntryIs, Alive, IsActive
      <3>2. ~Flying("ROOM_TRANSITION_RESULT", j)
        BY <3>1 DEF Moving, Under, Ways
      <3>3. Waiting' \subseteq Waiting
        BY <1>1, <1>3 DEF Waiting
      <3> QED
        BY <3>2, <3>3 DEF Accepted, Flying
    <2>9. j \in active' /\ sess'[j[1]].mode \in {"LOGIN", "LOBBY"}
      BY <1>1, <1>7
    <2>10. Watched(j)'
      BY <2>6, <2>7, <2>8, <2>9 DEF Watched, Listed, Forgets, AcceptedIn, Seen
    <2> QED
      BY <1>4, <2>2, <2>5, <2>10, WatchExcept
  <1> QED
    BY <1>2, <1>6, <1>7 DEF AddSession

\* An answer is at hand: the transition of its session is at no other place.
LEMMA AnswerAt ==
  ASSUME Typed, Answered, NEW t \in LobbyThreads, HasTask(t, "ROOM_TRANSITION_RESULT"), NEW j \in Key, j = ltask[t].key
  PROVE  /\ Under(j, "answer") /\ ~Under(j, "enter") /\ Moving(j) /\ ~EntryIs(j, "ACTIVE")
         /\ lpc[t] = "task" /\ ltask[t] \in Waiting
  <1>1. lpc[t] = "task" /\ ltask[t] \in Waiting
    BY DEF HasTask, Waiting
  <1>2. Under(j, "answer")
    BY FlyingIs DEF Under
  <1>3. ~Under(j, "enter") /\ Moving(j)
    BY <1>2 DEF Answered, Exclusive, Ways, Moving
  <1> QED
    BY <1>1, <1>2, <1>3 DEF Answered, EntryFits

\* Whoever is forgotten is in its room, or has ended.
LEMMA ForgetWatch ==
  ASSUME Typed, Owned, Answered, Watch, NEW t \in LobbyThreads, ForgetSession(t)
  PROVE  Watch'
  <1>1. UNCHANGED <<sess, conn>> /\ UNCHANGED lobbyTasks /\ UNCHANGED <<rooms, active, overtaken>>
        /\ lpc[t] = "task" /\ HasTask(t, "ROOM_TRANSITION_RESULT") /\ (DoneLobby(t) \/ GotoLobby(t, "forget"))
    BY DEF ForgetSession, sessVars, HasTask
  <1>2. PICK j \in Key : j = ltask[t].key /\ j[1] \in Slots
    BY <1>1, ThreadKey, KeyFacts DEF Typed
  <1>3. (\A u \in LobbyThreads \ {t} : lpc'[u] = lpc[u] /\ ltask'[u] = ltask[u]) /\ lpc'[t] # "task"
    BY <1>1, DoneOthers DEF Typed
  <1>4. ModesRest /\ (\A k \in Key : SeatKept(k)) /\ ConnRests
    BY <1>1, ModesAre, SeatsKeptBy, SameConn
  <1>5. PICK q : Posting(q) /\ \A x \in TasksOf(q) : Plain(x)
    BY <1>1, PlainNothing DEF Typed
  <1>6. \A k \in Key, type \in {"ADD_SESSION", "ENTER_LOBBY"} : ~(IsActive(k)' /\ HasTask(t, type) /\ ltask[t].key = k)
    BY <1>1 DEF HasTask
  <1>7. \A k \in Key : TasksKept(k)
    BY <1>3, <1>5, <1>6, PostsElse DEF Typed
  <1>8. CASE ~EntryMatches(j)
    <2>1. UNCHANGED entry /\ lpc'[t] = "idle"
      BY <1>1, <1>2, <1>8, DoneOthers DEF ForgetSession, ClearEntry, Typed
    <2> QED
      BY <1>1, <1>3, <1>4, <1>5, <1>6, <2>1, ThreadWatch
  <1>9. CASE EntryMatches(j)
    <2>1. entry' = [entry EXCEPT ![j[1]] = EmptyEntry] /\ GotoLobby(t, "forget")
      BY <1>2, <1>9 DEF ForgetSession, ClearEntry
    <2>2. lpc'[t] = "forget" /\ ltask'[t] = ltask[t]
      BY <2>1, DoneOthers DEF Typed
    <2>3. Moving(j) /\ ~Under(j, "enter") /\ EntryIs(j, "PENDING")
      <3>1. Moving(j) /\ ~Under(j, "enter") /\ ~EntryIs(j, "ACTIVE")
        BY <1>1, <1>2, AnswerAt
      <3> QED
        BY <1>2, <1>9, <3>1 DEF EntryMatches, EntryIs, Typed, LobbyOK
    <2>4. ~Forgetting(j)
      BY <2>3 DEF Watch, Watched, Forgets
    <2>5. \A k \in Key : Under(k, "enter")' <=> Under(k, "enter")
      BY <1>1, <1>3, <2>2 DEF Under, Entering
    <2>6. \A k \in Key : Forgetting(k)' <=> Forgetting(k) \/ k = j
      BY <1>1, <1>2, <1>3, <2>2 DEF Forgetting
    <2>7. OneForgets'
      <3>1. \A u \in LobbyThreads : lpc[u] = "forget" => ltask[u].key # j
        BY <2>4 DEF Forgetting
      <3> QED
        BY <1>2, <1>3, <2>2, <3>1 DEF Watch, OneForgets
    <2>8. EnterSorted'
      BY <1>3, <2>2 DEF Watch, EnterSorted
    <2> DEFINE x == EmptyEntry
    <2>9. entry' = [entry EXCEPT ![j[1]] = x] /\ x.state = "EMPTY" /\ entry[j[1]].id = j[2]
      BY <1>9, <2>1 DEF EntryMatches, EmptyEntry
    <2> HIDE DEF x
    <2>10. \A k \in Key \ {j} : EntryKept(k)
      BY <1>1, <2>5, <2>6, <2>9, OthersKept
    <2>11. \A k \in Key \ {j} : KeyKept(k)
      BY <1>4, <1>7, <2>10, ModesKept DEF KeyKept
    <2>12. \A st \in {"PENDING", "ACTIVE"} : ~EntryIs(j, st)'
      BY <2>9, OthersRest DEF Typed
    <2>13. Watched(j)
      BY DEF Watch
    <2>14. Listed(j)' /\ Forgets(j)'
      <3>1. j \in active' /\ j[2] <= conn'[j[1]]
        BY <1>1, <2>3, <2>13 DEF Watched, Listed, Answered, EntryFits
      <3>2. ~Flying("ADD_SESSION", j)'
        <4>1. Found(j)
          BY <1>2, <1>9 DEF Owned, EntryOwned, EntryMatches, Found
        <4>2. ~Flying("ADD_SESSION", j)
          BY <1>9, <4>1 DEF Flying, Owned, AddOwned, NotAdded
        <4> QED
          BY <1>7, <4>2 DEF TasksKept
      <3> QED
        BY <2>12, <3>1, <3>2 DEF Listed, Forgets
    <2>15. AcceptedIn(j)'
      BY <1>4, <1>7, <2>13, ModesKept, AcceptedKept
    <2>16. IsActive(j)' => Seen(j)'
      <3> SUFFICES ASSUME IsActive(j)' PROVE Seen(j)'
        OBVIOUS
      <3>1. IsActive(j) /\ sess' = sess
        BY <1>1 DEF IsActive, Found
      <3>2. ltask[t].ok
        BY <1>2, <3>1 DEF ForgetSession, IsActive
      <3>3. Accepted(j)
        BY <1>1, <1>2, <3>2, AnswerAt DEF Accepted, HasTask
      <3>4. sess[j[1]].mode = "ROOM"
        BY <2>13, <3>1, <3>3 DEF Watched, AcceptedIn
      <3>5. j \in overtaken \/ Flying("ADD_SESSION", j) \/ Flying("ENTER_LOBBY", j) \/ \E r \in RoomKeys : Sits(r, j)
        BY <2>3, <2>13, <3>1, <3>4 DEF Watched, Seen
      <3>6. CASE j \in overtaken \/ \E r \in RoomKeys : Sits(r, j)
        BY <1>4, <3>6 DEF SeatKept, Seen
      <3>7. CASE Flying("ADD_SESSION", j) \/ Flying("ENTER_LOBBY", j)
        BY <1>7, <3>7 DEF TasksKept, Seen
      <3> QED
        BY <3>5, <3>6, <3>7
    <2> QED
      BY <1>4, <2>7, <2>8, <2>11, <2>14, <2>15, <2>16, WatchExcept DEF Watched
  <1> QED
    BY <1>8, <1>9

\* Nobody but a session without an entry, or one that comes back, is taken from the list.
LEMMA RemoveWatch ==
  ASSUME Typed, Answered, Watch, NEW t \in LobbyThreads, RemoveActiveSession(t)
  PROVE  Watch'
  <1>1. UNCHANGED <<sess, conn>> /\ UNCHANGED lobbyTasks /\ UNCHANGED <<entry, rooms, overtaken>> /\ lpc[t] = "forget" /\ DoneLobby(t)
    BY DEF RemoveActiveSession, sessVars
  <1>2. PICK j \in Key : j = ltask[t].key /\ j[1] \in Slots
    BY <1>1, ThreadKey, KeyFacts DEF Typed
  <1>3. (\A u \in LobbyThreads \ {t} : lpc'[u] = lpc[u] /\ ltask'[u] = ltask[u]) /\ lpc'[t] = "idle"
    BY <1>1, DoneOthers DEF Typed
  <1>4. ModesRest /\ (\A k \in Key : SeatKept(k)) /\ ConnRests
    BY <1>1, ModesAre, SeatsKeptBy, SameConn
  <1>5. PICK q : Posting(q) /\ \A x \in TasksOf(q) : Plain(x)
    BY <1>1, PlainNothing DEF Typed
  <1>6. \A k \in Key : TasksKept(k)
    <2>1. \A type : ~HasTask(t, type)
      BY <1>1 DEF HasTask
    <2> QED
      BY <1>3, <1>5, <2>1, PostsElse DEF Typed
  <1>7. \A k \in Key : Under(k, "enter")' <=> Under(k, "enter")
    BY <1>1, <1>3 DEF Under, Entering
  <1>8. Watched(j) /\ OneForgets
    BY DEF Watch
  <1>9. \A k \in Key : Forgetting(k)' <=> Forgetting(k) /\ k # j
    <2>1. \A u \in LobbyThreads : lpc[u] = "forget" /\ ltask[u].key = j => u = t
      BY <1>1, <1>2, <1>8 DEF OneForgets
    <2> QED
      BY <1>1, <1>2, <1>3, <2>1 DEF Forgetting
  <1>10. OneForgets' /\ EnterSorted'
    BY <1>3 DEF Watch, OneForgets, EnterSorted
  <1>11. active' = active \ {j}
    BY <1>2 DEF RemoveActiveSession
  <1>12. \A k \in Key \ {j} : KeyKept(k)
    <2>1. \A k \in Key \ {j} : EntryKept(k)
      BY <1>1, <1>7, <1>9, <1>11 DEF EntryKept, EntryIs
    <2> QED
      BY <1>4, <1>6, <2>1, ModesKept DEF KeyKept
  <1>13. \A st \in {"PENDING", "ACTIVE"} : EntryIs(j, st)' <=> EntryIs(j, st)
    BY <1>1 DEF EntryIs
  <1>14. Listed(j)' /\ Forgets(j)'
    <2>1. \A st \in {"PENDING", "ACTIVE"} : EntryIs(j, st) => Under(j, "enter")
      <3>1. Forgetting(j)
        BY <1>1, <1>2 DEF Forgetting
      <3> QED
        BY <1>8, <3>1 DEF Watched, Forgets
    <2>2. ~EntryIs(j, "ACTIVE")
      BY <2>1 DEF Answered, EntryFits, Moving, Ways
    <2>3. ~Forgetting(j)'
      BY <1>9
    <2> QED
      BY <1>7, <1>13, <2>1, <2>2, <2>3 DEF Listed, Forgets
  <1>15. AcceptedIn(j)'
    BY <1>4, <1>6, <1>8, ModesKept, AcceptedKept
  <1>16. IsActive(j)' => Seen(j)'
    <2> SUFFICES ASSUME IsActive(j)' PROVE Seen(j)'
      OBVIOUS
    <2>1. Seen(j) /\ sess' = sess
      BY <1>1, <1>8 DEF Watched, IsActive, Found
    <2>2. CASE j \in overtaken \/ \E r \in RoomKeys : Sits(r, j)
      BY <1>4, <2>2 DEF SeatKept, Seen
    <2>3. CASE Flying("ADD_SESSION", j) \/ Flying("ENTER_LOBBY", j)
      BY <1>6, <2>3 DEF TasksKept, Seen
    <2>4. CASE Under(j, "enter") \/ (EntryIs(j, "ACTIVE") /\ sess[j[1]].mode \in {"LOGIN", "LOBBY"})
               \/ (EntryIs(j, "PENDING") /\ sess[j[1]].mode = "LOBBY")
      BY <1>7, <1>13, <2>1, <2>4 DEF Seen
    <2> QED
      BY <2>1, <2>2, <2>3, <2>4 DEF Seen
  <1> QED
    BY <1>4, <1>10, <1>12, <1>14, <1>15, <1>16, WatchExcept DEF Watched

\* What a request to join a room posts, and the seats it leaves alone.
LEMMA JoinPlain ==
  ASSUME Typed, NEW k \in Key, NEW r \in RoomKeys, NEW match \in BOOLEAN, JoinTask(r, k, match)
  PROVE  /\ \A p \in RoomKeys : rooms'[p].seats = rooms[p].seats
         /\ \E q : Posting(q) /\ \A x \in TasksOf(q) : Plain(x)
  <1>1. \A p \in RoomKeys : rooms'[p].seats = rooms[p].seats
    <2>1. UNCHANGED rooms \/ QuietKept(r)
      BY JoinQuiet DEF Typed
    <2> QED
      BY <2>1, RoomsStayed DEF Typed, RoomsStay, RoomStays
  <1>2. CASE UNCHANGED lobbyTasks
    BY <1>1, <1>2, PlainNothing DEF Typed
  <1>3. CASE lobbyTasks' = Append(lobbyTasks, TransitionResult(k, FALSE, match))
    <2>1. ~TransitionResult(k, FALSE, match).ok
      BY DEF TransitionResult, LTask
    <2>2. \E y \in LobbyTask : Plain(y) /\ lobbyTasks' = Append(lobbyTasks, y)
      BY <1>3, <2>1, TaskTypes DEF Plain
    <2> QED
      BY <1>1, <2>2, PlainOne DEF Typed
  <1> QED
    BY <1>2, <1>3 DEF JoinTask, JoinRefused

\* The thread t is done with a task, and the entry stays.
LEMMA DoneWatch ==
  ASSUME Typed, Watch, UNCHANGED <<entry, active, conn>>, ModesRest, NEW t \in LobbyThreads, DoneLobby(t),
         lpc[t] \notin {"forget", "enter"}, NEW q, Posting(q), \A x \in TasksOf(q) : Plain(x), \A k \in Key : SeatKept(k),
         ~HasTask(t, "ADD_SESSION"), ~HasTask(t, "ENTER_LOBBY")
  PROVE  Watch'
  <1>1. (\A u \in LobbyThreads \ {t} : lpc'[u] = lpc[u] /\ ltask'[u] = ltask[u]) /\ lpc'[t] = "idle"
    BY DoneOthers DEF Typed
  <1> QED
    BY <1>1, ThreadWatch

\* A session that is refused is visited again, or waits for the next answer.
LEMMA ReturnWatch ==
  ASSUME Typed, Answered, Watch, NEW t \in LobbyThreads, ReturnToLobby(t)
  PROVE  Watch'
  <1>1. UNCHANGED sess /\ UNCHANGED conn /\ UNCHANGED <<active, overtaken>> /\ DoneLobby(t)
        /\ lpc[t] = "task" /\ HasTask(t, "ROOM_TRANSITION_RESULT")
    BY DEF ReturnToLobby, sessVars, HasTask
  <1>2. PICK j \in Key : j = ltask[t].key /\ j[1] \in Slots
    BY <1>1, ThreadKey, KeyFacts DEF Typed
  <1>3. ModesRest /\ ConnRests
    BY <1>1, ModesAre, SameConn
  <1>4. ~HasTask(t, "ADD_SESSION") /\ ~HasTask(t, "ENTER_LOBBY")
    BY <1>1 DEF HasTask
  <1>5. ASSUME UNCHANGED entry, \A r \in RoomKeys : rooms'[r].seats = rooms[r].seats,
               \E q : Posting(q) /\ \A x \in TasksOf(q) : Plain(x)
        PROVE  Watch'
    <2>1. \A k \in Key : SeatKept(k)
      BY <1>1, <1>5, SeatsKeptBy
    <2> QED
      BY <1>1, <1>3, <1>4, <1>5, <2>1, DoneWatch
  <1>6. CASE UNCHANGED <<entry, lobbyTasks, rooms>>
    BY <1>5, <1>6, PlainNothing DEF Typed
  <1>7. CASE UNCHANGED entry /\ \E r \in RoomKeys : JoinTask(r, j, TRUE)
    BY <1>5, <1>7, JoinPlain
  <1>8. CASE /\ EntryMatches(j) /\ entry[j[1]].state = "PENDING" /\ entry' = [entry EXCEPT ![j[1]].state = "ACTIVE"]
             /\ UNCHANGED <<lobbyTasks, rooms>>
    <2> DEFINE x == [entry[j[1]] EXCEPT !.state = "ACTIVE"]
    <2>1. entry' = [entry EXCEPT ![j[1]] = x] /\ x.id = j[2] /\ x.state = "ACTIVE" /\ entry[j[1]].id = j[2]
      BY <1>2, <1>8 DEF Typed, LobbyOK, EntryMatches
    <2> HIDE DEF x
    <2>2. (\A u \in LobbyThreads \ {t} : lpc'[u] = lpc[u] /\ ltask'[u] = ltask[u]) /\ lpc'[t] = "idle"
      BY <1>1, DoneOthers DEF Typed
    <2>3. (\A k \in Key : (Under(k, "enter")' <=> Under(k, "enter")) /\ (Forgetting(k)' <=> Forgetting(k)))
          /\ OneForgets' /\ EnterSorted'
      BY <1>1, <2>2, ThreadElse
    <2>4. \A k \in Key : TasksKept(k)
      <3>1. PICK q : Posting(q) /\ \A y \in TasksOf(q) : Plain(y)
        BY <1>8, PlainNothing DEF Typed
      <3>2. \A k \in Key, type \in {"ADD_SESSION", "ENTER_LOBBY"} : ~(IsActive(k)' /\ HasTask(t, type) /\ ltask[t].key = k)
        BY <1>4
      <3> QED
        BY <2>2, <3>1, <3>2, PostsElse DEF Typed
    <2>5. \A k \in Key : SeatKept(k)
      BY <1>1, <1>8, SeatsKeptBy
    <2>6. \A k \in Key \ {j} : EntryKept(k)
      BY <1>1, <2>1, <2>3, OthersKept
    <2>7. \A k \in Key \ {j} : KeyKept(k)
      BY <1>3, <2>4, <2>5, <2>6, ModesKept DEF KeyKept
    <2>8. EntryIs(j, "ACTIVE")' /\ ~EntryIs(j, "PENDING")'
      BY <2>1, OthersRest DEF Typed
    <2>9. EntryIs(j, "PENDING") /\ ~EntryIs(j, "ACTIVE") /\ ~Under(j, "enter") /\ Watched(j)
      <3>1. EntryIs(j, "PENDING") /\ ~EntryIs(j, "ACTIVE")
        BY <1>8 DEF EntryIs, EntryMatches
      <3> QED
        BY <1>1, <1>2, <3>1, AnswerAt DEF Watch
    <2>10. Listed(j)' /\ Forgets(j)'
      <3>1. j \in active' /\ ~Forgetting(j)'
        BY <1>1, <2>3, <2>9 DEF Watched, Listed, Forgets
      <3> QED
        BY <2>8, <3>1 DEF Listed, Forgets
    <2>11. AcceptedIn(j)'
      BY <1>3, <2>4, <2>9, ModesKept, AcceptedKept
    <2>12. IsActive(j)' => Seen(j)'
      <3> SUFFICES ASSUME IsActive(j)' PROVE Seen(j)'
        OBVIOUS
      <3>1. Seen(j) /\ sess' = sess
        BY <1>1, <2>9 DEF Watched, IsActive, Found
      <3>2. CASE j \in overtaken \/ \E r \in RoomKeys : Sits(r, j)
        BY <2>5, <3>2 DEF SeatKept, Seen
      <3>3. CASE Flying("ADD_SESSION", j) \/ Flying("ENTER_LOBBY", j)
        BY <2>4, <3>3 DEF TasksKept, Seen
      <3>4. CASE EntryIs(j, "PENDING") /\ sess[j[1]].mode = "LOBBY"
        BY <2>8, <3>1, <3>4 DEF Seen
      <3> QED
        BY <2>9, <3>1, <3>2, <3>3, <3>4 DEF Seen
    <2> QED
      BY <1>3, <2>3, <2>7, <2>10, <2>11, <2>12, WatchExcept DEF Watched
  <1> QED
    BY <1>2, <1>6, <1>7, <1>8 DEF ReturnToLobby

\* A session that comes back is on its way until its entry is set, or has been overtaken.
LEMMA EnterWatch ==
  ASSUME Typed, Owned, Answered, Watch, NEW t \in LobbyThreads, EnterLobby(t)
  PROVE  Watch'
  <1>1. UNCHANGED conn /\ UNCHANGED rooms /\ UNCHANGED active /\ HasTask(t, "ENTER_LOBBY") /\ lpc[t] = "task"
    BY DEF EnterLobby, HasTask
  <1>2. PICK j \in Key : j = ltask[t].key /\ j[1] \in Slots /\ ltask[t] \in LobbyTask
    BY <1>1, ThreadKey, KeyFacts DEF Typed
  <1>3. ConnRests
    BY <1>1, SameConn
  <1>4. ASSUME DoneLobby(t), UNCHANGED <<sess, entry, overtaken>>, ~IsActive(j), UNCHANGED lobbyTasks PROVE Watch'
    <2>1. (\A u \in LobbyThreads \ {t} : lpc'[u] = lpc[u] /\ ltask'[u] = ltask[u]) /\ lpc'[t] = "idle"
      BY <1>4, DoneOthers DEF Typed
    <2>2. \A k \in Key, type \in {"ADD_SESSION", "ENTER_LOBBY"} : ~(IsActive(k)' /\ HasTask(t, type) /\ ltask[t].key = k)
      BY <1>1, <1>2, <1>4 DEF IsActive, Found
    <2>3. PICK q : Posting(q) /\ \A x \in TasksOf(q) : Plain(x)
      BY <1>4, PlainNothing DEF Typed
    <2>4. ModesRest /\ \A k \in Key : SeatKept(k)
      BY <1>1, <1>4, ModesAre, SeatsKeptBy
    <2> QED
      BY <1>1, <1>4, <2>1, <2>2, <2>3, <2>4, ThreadWatch
  <1>5. ASSUME DoneLobby(t), UNCHANGED <<sess, entry, overtaken>>, lobbyTasks' = Append(lobbyTasks, ltask[t]) PROVE Watch'
    <2>1. (\A u \in LobbyThreads \ {t} : lpc'[u] = lpc[u] /\ ltask'[u] = ltask[u]) /\ lpc'[t] = "idle"
      BY <1>5, DoneOthers DEF Typed
    <2>2. (\A k \in Key : (Under(k, "enter")' <=> Under(k, "enter")) /\ (Forgetting(k)' <=> Forgetting(k)))
          /\ OneForgets' /\ EnterSorted'
      BY <1>1, <2>1, ThreadElse
    <2>3. ModesRest /\ \A k \in Key : SeatKept(k)
      BY <1>1, <1>5, ModesAre, SeatsKeptBy
    <2> DEFINE y == ltask[t]
               q == <<y>>
    <2>4. Posting(q) /\ TasksOf(q) = {y} /\ y.type = "ENTER_LOBBY" /\ y.key = j
      BY <1>1, <1>2, <1>5, PostOne DEF Typed, HasTask
    <2> HIDE DEF y, q
    <2>5. \A k \in Key \ {j} : TasksKept(k)
      <3>1. \A k \in Key \ {j} : \A type : ~(HasTask(t, type) /\ ltask[t].key = k)
        BY <1>2
      <3>2. \A x \in TasksOf(q) : Plain(x)
        BY <2>4 DEF Plain
      <3> QED
        BY <2>1, <2>4, <3>1, <3>2, PostsElse DEF Typed
    <2>6. TasksKept(j)
      <3>1. NoneTaken
        BY <1>5, NoneTakenBy DEF Typed
      <3>2. TasksOf(lobbyTasks') = TasksOf(lobbyTasks) \cup TasksOf(q) /\ Waiting' \subseteq Waiting \cup TasksOf(q)
        BY <2>4, <3>1, WaitingKept DEF Typed
      <3>3. Flying("ENTER_LOBBY", j)'
        BY <2>4, <3>2 DEF Flying, Waiting
      <3>4. (Flying("ADD_SESSION", j)' => Flying("ADD_SESSION", j)) /\ (Accepted(j)' => Accepted(j))
        BY <2>4, <3>2 DEF Flying, Accepted
      <3>5. Flying("ADD_SESSION", j) => Flying("ADD_SESSION", j)'
        <4>1. \A u \in LobbyThreads : HasTask(u, "ADD_SESSION") => HasTask(u, "ADD_SESSION")' /\ ltask'[u] = ltask[u]
          BY <1>1, <2>1 DEF HasTask
        <4> QED
          BY <2>4, <4>1, FlyingStays DEF Typed
      <3> QED
        BY <3>3, <3>4, <3>5 DEF TasksKept
    <2> QED
      BY <1>1, <1>3, <1>5, <2>2, <2>3, <2>5, <2>6, WatchRests
  <1>6. CASE /\ IsActive(j) /\ DoneLobby(t) /\ UNCHANGED sess /\ UNCHANGED entry /\ UNCHANGED lobbyTasks
             /\ overtaken' = overtaken \cup {j}
    <2>1. (\A u \in LobbyThreads \ {t} : lpc'[u] = lpc[u] /\ ltask'[u] = ltask[u]) /\ lpc'[t] = "idle"
      BY <1>6, DoneOthers DEF Typed
    <2>2. (\A k \in Key : (Under(k, "enter")' <=> Under(k, "enter")) /\ (Forgetting(k)' <=> Forgetting(k)))
          /\ OneForgets' /\ EnterSorted'
      BY <1>1, <2>1, ThreadElse
    <2>3. ModesRest /\ \A k \in Key : SeatKept(k)
      BY <1>1, <1>6, ModesAre, SeatsKeptBy
    <2>4. \A k \in Key : EntryKept(k)
      BY <1>1, <1>6, <2>2 DEF EntryKept, EntryIs
    <2>5. \A k \in Key \ {j} : TasksKept(k)
      <3>1. \A k \in Key \ {j} : \A type : ~(HasTask(t, type) /\ ltask[t].key = k)
        BY <1>2
      <3>2. PICK q : Posting(q) /\ \A x \in TasksOf(q) : Plain(x)
        BY <1>6, PlainNothing DEF Typed
      <3> QED
        BY <2>1, <3>1, <3>2, PostsElse DEF Typed
    <2>6. \A k \in Key \ {j} : KeyKept(k)
      BY <2>3, <2>4, <2>5, ModesKept DEF KeyKept
    <2>7. Watched(j)'
      <3>1. Waiting' \subseteq Waiting
        BY <1>6, <2>1 DEF Waiting
      <3>2. (Flying("ADD_SESSION", j)' => Flying("ADD_SESSION", j)) /\ (Accepted(j)' => Accepted(j))
        BY <3>1 DEF Flying, Accepted
      <3>3. Watched(j) /\ j \in overtaken' /\ conn' = conn /\ sess' = sess
        BY <1>1, <1>6 DEF Watch
      <3>4. Listed(j)'
        BY <2>4, <3>3 DEF EntryKept, Watched, Listed
      <3>5. Forgets(j)'
        BY <2>4, <3>2, <3>3 DEF EntryKept, Watched, Forgets
      <3>6. AcceptedIn(j)'
        BY <3>2, <3>3 DEF Watched, AcceptedIn, IsActive, Found
      <3> QED
        BY <3>3, <3>4, <3>5, <3>6 DEF Watched, Seen
    <2> QED
      BY <1>3, <2>2, <2>6, <2>7, WatchExcept
  <1>7. CASE /\ IsActive(j) /\ entry[j[1]].state = "EMPTY"
             /\ entry' = [entry EXCEPT ![j[1]] = [state |-> "PENDING", id |-> j[2]]]
             /\ sess' = [sess EXCEPT ![j[1]] = [@ EXCEPT !.right = TRUE, !.mode = "LOBBY", !.room = NoIndex]]
             /\ GotoLobby(t, "enter") /\ UNCHANGED lobbyTasks /\ UNCHANGED overtaken
    <2>1. (\A u \in LobbyThreads \ {t} : lpc'[u] = lpc[u] /\ ltask'[u] = ltask[u]) /\ lpc'[t] = "enter" /\ ltask'[t] = ltask[t]
      BY <1>7, DoneOthers DEF Typed
    <2>2. \A k \in Key : Under(k, "enter")' <=> Under(k, "enter") \/ k = j
      BY <1>1, <1>2, <2>1 DEF Under, Entering
    <2>3. \A k \in Key : Forgetting(k)' <=> Forgetting(k)
      BY <1>1, <2>1 DEF Forgetting
    <2>4. OneForgets' /\ EnterSorted'
      <3>1. OneForgets'
        BY <2>1 DEF Watch, OneForgets
      <3>2. ltask'[t].type = "ENTER_LOBBY"
        BY <1>1, <2>1 DEF HasTask
      <3>3. EnterSorted'
        BY <2>1, <3>2 DEF Watch, EnterSorted
      <3> QED
        BY <3>1, <3>3
    <2> DEFINE x == [state |-> "PENDING", id |-> j[2]]
    <2>5. entry' = [entry EXCEPT ![j[1]] = x] /\ x.id = j[2] /\ x.state = "PENDING"
      BY <1>7
    <2> HIDE DEF x
    <2>6. \A k \in Key \ {j} : EntryKept(k)
      BY <1>1, <1>7, <2>2, <2>3, <2>5, OthersKept
    <2>7. EntryIs(j, "PENDING")' /\ ~EntryIs(j, "ACTIVE")'
      BY <1>7, <2>5, OthersRest DEF Typed
    <2> DEFINE y == [sess[j[1]] EXCEPT !.right = TRUE, !.mode = "LOBBY", !.room = NoIndex]
    <2>8. sess' = [sess EXCEPT ![j[1]] = y] /\ y.id = sess[j[1]].id
      BY <1>2, <1>7 DEF Typed, SessOK, Session
    <2> HIDE DEF y
    <2>9. sess'[j[1]].id = j[2] /\ \A s \in Slots \ {j[1]} : sess'[s] = sess[s]
      BY <1>2, <1>7, <2>8, RightIn DEF Typed, IsActive, Found
    <2>10. \A k \in Key \ {j} : ModeKept(k)
      <3>1. \A k \in Key : k[1] \in Slots /\ (k[1] = j[1] /\ k[2] = j[2] => k = j)
        BY KeyFacts
      <3> QED
        BY <2>9, <3>1 DEF ModeKept, IsActive, Found
    <2>11. \A k \in Key \ {j} : TasksKept(k)
      <3>1. \A k \in Key \ {j} : \A type : ~(HasTask(t, type) /\ ltask[t].key = k)
        BY <1>2
      <3>2. PICK q : Posting(q) /\ \A z \in TasksOf(q) : Plain(z)
        BY <1>7, PlainNothing DEF Typed
      <3> QED
        BY <2>1, <3>1, <3>2, PostsElse DEF Typed
    <2>12. \A k \in Key : SeatKept(k)
      BY <1>1, <1>7, SeatsKeptBy
    <2>13. \A k \in Key \ {j} : KeyKept(k)
      BY <2>6, <2>10, <2>11, <2>12 DEF KeyKept
    <2>14. Watched(j)'
      <3>1. Waiting' \subseteq Waiting
        BY <1>7, <2>1 DEF Waiting
      <3>2. Flying("ADD_SESSION", j)' => Flying("ADD_SESSION", j)
        BY <3>1 DEF Flying
      <3>3. Under(j, "enter")'
        BY <2>2
      <3>4. Listed(j)'
        BY <2>7, <3>3 DEF Listed
      <3>5. Forgets(j)'
        BY <1>1, <2>3, <3>2, <3>3 DEF Watch, Watched, Forgets
      <3>6. ~Accepted(j)'
        <4>1. ~Moving(j)
          BY <1>7 DEF Answered, EntryFits, EntryIs, Alive, IsActive
        <4>2. ~Flying("ROOM_TRANSITION_RESULT", j)
          BY <4>1 DEF Moving, Under, Ways
        <4> QED
          BY <3>1, <4>2 DEF Accepted, Flying
      <3> QED
        BY <3>3, <3>4, <3>5, <3>6 DEF Watched, AcceptedIn, Seen
    <2> QED
      BY <1>3, <2>4, <2>13, <2>14, WatchExcept
  <1> QED
    BY <1>2, <1>4, <1>5, <1>6, <1>7 DEF EnterLobby, Requeued

\* A session that is back in the lobby is visited, or was faster than its removal.
LEMMA ActivateWatch ==
  ASSUME Typed, Owned, Answered, Watch, NEW t \in LobbyThreads, ActivateEntry(t)
  PROVE  Watch'
  <1>1. UNCHANGED conn /\ UNCHANGED lobbyTasks /\ UNCHANGED rooms /\ DoneLobby(t) /\ lpc[t] = "enter"
    BY DEF ActivateEntry
  <1>2. PICK j \in Key : j = ltask[t].key /\ j[1] \in Slots
    BY <1>1, ThreadKey, KeyFacts DEF Typed
  <1>3. (\A u \in LobbyThreads \ {t} : lpc'[u] = lpc[u] /\ ltask'[u] = ltask[u]) /\ lpc'[t] = "idle"
    BY <1>1, DoneOthers DEF Typed
  <1>4. sess' = [sess EXCEPT ![j[1]].right = FALSE] /\ ModesRest /\ ConnRests
    BY <1>1, <1>2, ModesAre, SameConn DEF ActivateEntry, Typed
  <1>5. Under(j, "enter") /\ EntryIs(j, "PENDING") /\ Watched(j) /\ TakenBack(j)
    <2>1. Under(j, "enter") /\ TakenBack(j)
      BY <1>1, <1>2 DEF Under, Entering, Owned, EnterOwned
    <2>2. Moving(j) /\ Alive(j)
      BY <2>1 DEF Moving, Ways, TakenBack, IsActive, Alive
    <2> QED
      BY <2>1, <2>2 DEF Answered, EntryFits, Watch
  <1>6. WayLoses("enter", j)
    <2>1. Single("enter") /\ Entering(t, j)
      BY <1>1, <1>2 DEF Answered, Ways, Entering
    <2>2. (\A k \in Key : ~Entering(t, k)') /\ \A u \in LobbyThreads \ {t}, k \in Key : Entering(u, k)' <=> Entering(u, k)
      BY <1>3 DEF Entering
    <2> QED
      BY <2>1, <2>2, EnterEnds
  <1>7. \A k \in Key : Forgetting(k)' <=> Forgetting(k)
    BY <1>1, <1>3 DEF Forgetting
  <1>8. OneForgets' /\ EnterSorted'
    BY <1>3 DEF Watch, OneForgets, EnterSorted
  <1>9. \A k \in Key : TasksKept(k)
    <2>1. PICK q : Posting(q) /\ \A x \in TasksOf(q) : Plain(x)
      BY <1>1, PlainNothing DEF Typed
    <2>2. \A type : ~HasTask(t, type)
      BY <1>1 DEF HasTask
    <2> QED
      BY <1>3, <2>1, <2>2, PostsElse DEF Typed
  <1>10. \A k \in Key : SeatKept(k)
    BY <1>1, SeatsKeptBy DEF ActivateEntry
  <1>11. ~Accepted(j)'
    <2>1. ~Under(j, "answer")
      BY <1>5 DEF Answered, Exclusive, Ways
    <2>2. ~Accepted(j)
      BY <2>1 DEF Under, Accepted, Flying
    <2> QED
      BY <1>9, <2>2 DEF TasksKept
  <1>12. ASSUME NEW x, entry' = [entry EXCEPT ![j[1]] = x], x.state = "EMPTY" \/ x.id = j[2],
                \A k \in Key \ {j} : k \in active' <=> k \in active
         PROVE  \A k \in Key \ {j} : KeyKept(k)
    <2>1. entry[j[1]].id = j[2]
      BY <1>5 DEF EntryIs
    <2>2. \A k \in Key \ {j} : (Under(k, "enter")' <=> Under(k, "enter")) /\ (Forgetting(k)' <=> Forgetting(k))
      BY <1>6, <1>7 DEF WayLoses
    <2>3. \A k \in Key \ {j} : EntryKept(k)
      BY <1>12, <2>1, <2>2, OthersKept
    <2> QED
      BY <1>4, <1>9, <1>10, <2>3, ModesKept DEF KeyKept
  <1>13. CASE j \notin active /\ entry' = [entry EXCEPT ![j[1]].state = "ACTIVE"] /\ active' = active \cup {j}
    <2> DEFINE x == [entry[j[1]] EXCEPT !.state = "ACTIVE"]
    <2>1. entry' = [entry EXCEPT ![j[1]] = x] /\ x.state = "ACTIVE" /\ x.id = j[2] /\ entry[j[1]].id = j[2]
      BY <1>2, <1>5, <1>13 DEF Typed, LobbyOK, EntryIs
    <2> HIDE DEF x
    <2>2. \A k \in Key \ {j} : KeyKept(k)
      BY <1>12, <1>13, <2>1
    <2>3. EntryIs(j, "ACTIVE")' /\ ~EntryIs(j, "PENDING")'
      BY <2>1, OthersRest DEF Typed
    <2>4. ~Forgetting(j)'
      BY <1>5, <1>7, <1>13 DEF Watched, Forgets
    <2>5. IsActive(j)' => Seen(j)'
      <3>1. sess[j[1]].mode = "LOBBY"
        BY <1>5 DEF TakenBack
      <3>2. IsActive(j)' => sess'[j[1]].mode = "LOBBY"
        BY <1>4, <3>1, ModesKept DEF ModeKept
      <3> QED
        BY <2>3, <3>2 DEF Seen
    <2>6. Watched(j)'
      BY <1>11, <1>13, <2>3, <2>4, <2>5 DEF Watched, Listed, Forgets, AcceptedIn
    <2> QED
      BY <1>4, <1>8, <2>2, <2>6, WatchExcept
  <1>14. CASE j \in active /\ entry' = ClearEntry(j) /\ overtaken' = overtaken \cup {j} /\ UNCHANGED active
    <2> DEFINE x == EmptyEntry
    <2>1. entry' = [entry EXCEPT ![j[1]] = x] /\ x.state = "EMPTY" /\ entry[j[1]].id = j[2]
      BY <1>5, <1>14 DEF ClearEntry, EntryMatches, EntryIs, EmptyEntry
    <2> HIDE DEF x
    <2>2. \A k \in Key \ {j} : KeyKept(k)
      BY <1>12, <1>14, <2>1
    <2>3. \A st \in {"PENDING", "ACTIVE"} : ~EntryIs(j, st)'
      BY <2>1, OthersRest DEF Typed
    <2>4. Forgets(j)'
      <3>1. Flying("ADD_SESSION", j)' => Flying("ADD_SESSION", j)
        BY <1>9 DEF TasksKept
      <3> QED
        BY <1>1, <1>5, <1>7, <1>14, <2>3, <3>1 DEF Watched, Forgets
    <2>5. Watched(j)'
      BY <1>11, <1>14, <2>3, <2>4 DEF Watched, Listed, AcceptedIn, Seen
    <2> QED
      BY <1>4, <1>8, <2>2, <2>5, WatchExcept
  <1> QED
    BY <1>2, <1>5, <1>13, <1>14 DEF ActivateEntry, EntryMatches, EntryIs

\* A visit begins, or ends.
LEMMA VisitWatch ==
  ASSUME Typed, Watch, NEW t \in LobbyThreads, EndVisit(t) \/ \E s \in Slots : VisitSession(t, s)
  PROVE  Watch'
  <1>1. UNCHANGED <<conn, entry, active>> /\ UNCHANGED lobbyTasks /\ UNCHANGED <<rooms, overtaken>>
    BY DEF EndVisit, VisitSession, lobbyVars
  <1>2. ModesRest
    <2>1. CASE EndVisit(t)
      <3>1. ltask[t].key[1] \in Slots
        BY <2>1, ThreadKey DEF Typed, EndVisit
      <3> QED
        BY <2>1, <3>1, ModesAre DEF Typed, EndVisit
    <2>2. ASSUME NEW s \in Slots, VisitSession(t, s) PROVE ModesRest
      BY <2>2, ModesAre DEF Typed, VisitSession
    <2> QED
      BY <2>1, <2>2
  <1>3. /\ \A u \in LobbyThreads \ {t} : lpc'[u] = lpc[u] /\ ltask'[u] = ltask[u]
        /\ lpc[t] \in {"idle", "visit"} /\ lpc'[t] \in {"idle", "visit"}
    BY DEF EndVisit, VisitSession, DoneLobby, Typed, ThreadOK
  <1>4. \A type : ~HasTask(t, type)
    BY <1>3 DEF HasTask
  <1>5. PICK q : Posting(q) /\ \A x \in TasksOf(q) : Plain(x)
    BY <1>1, PlainNothing DEF Typed
  <1>6. \A k \in Key : SeatKept(k)
    BY <1>1, SeatsKeptBy
  <1> QED
    BY <1>1, <1>2, <1>3, <1>4, <1>5, <1>6, ThreadWatch

\* A session that logs in, asks for a room or says good-bye.
LEMMA RequestWatch ==
  ASSUME Typed, Owned, Answered, Watch, NEW t \in LobbyThreads, LobbyRequest(t)
  PROVE  Watch'
  <1>1. UNCHANGED conn /\ UNCHANGED <<active, overtaken>> /\ UNCHANGED <<lpc, ltask>> /\ Visiting(t)
    BY DEF LobbyRequest, Login, RequestCreate, DisconnectInLobby, RequestJoin, Transition, lobbyVars, threadVars, sessVars
  <1>2. PICK j \in Key : j = ltask[t].key /\ j[1] \in Slots
    BY <1>1, ThreadKey, KeyFacts DEF Typed, Visiting
  <1>3. IsActive(j) /\ EntryIs(j, "ACTIVE") /\ ~EntryIs(j, "PENDING") /\ sess[j[1]].mode \in {"LOGIN", "LOBBY"}
    BY <1>1, <1>2 DEF Visiting, InLobby, EntryIs, EntryMatches
  <1>4. ~Moving(j) /\ Watched(j)
    BY <1>3 DEF Answered, EntryFits, Watch
  <1>5. j \in active /\ ~Under(j, "enter") /\ ~Forgetting(j) /\ ~Flying("ROOM_TRANSITION_RESULT", j)
    BY <1>3, <1>4 DEF Watched, Listed, Forgets, Moving, Under, Ways
  <1>6. ConnRests
    BY <1>1, SameConn
  <1>7. (\A k \in Key : (Under(k, "enter")' <=> Under(k, "enter")) /\ (Forgetting(k)' <=> Forgetting(k)))
        /\ OneForgets' /\ EnterSorted'
    BY <1>1, ThreadsSame
  <1>8. CASE DisconnectInLobby(t)
    <2>1. UNCHANGED <<entry, active>> /\ UNCHANGED <<rooms, overtaken>> /\ UNCHANGED lobbyTasks
      BY <1>8 DEF DisconnectInLobby, lobbyVars
    <2>2. ModesRest
      <3> DEFINE x == [sess[j[1]] EXCEPT !.life = "DISCONNECT_PENDING"]
      <3>1. x.life # "ACTIVE" /\ sess' = [sess EXCEPT ![j[1]] = x]
        BY <1>2, <1>8 DEF DisconnectInLobby, BeginDisconnect, Typed, SessOK, Session
      <3> HIDE DEF x
      <3> QED
        BY <1>2, <3>1, ModesAre DEF Typed
    <2>3. PICK q : Posting(q) /\ \A x \in TasksOf(q) : Plain(x)
      BY <2>1, PlainNothing DEF Typed
    <2> QED
      BY <1>1, <2>1, <2>2, <2>3, SeatsKeptBy, QuietWatch
  <1>9. CASE Login(t)
    <2>1. UNCHANGED <<entry, active>> /\ UNCHANGED <<rooms, overtaken>> /\ UNCHANGED lobbyTasks
      BY <1>9 DEF Login, lobbyVars
    <2> DEFINE x == [sess[j[1]] EXCEPT !.mode = "LOBBY"]
    <2>2. x.mode = "LOBBY" /\ sess' = [sess EXCEPT ![j[1]] = x]
      BY <1>2, <1>9 DEF Login, Typed, SessOK, Session
    <2> HIDE DEF x
    <2>3. sess'[j[1]].mode = "LOBBY" /\ \A s \in Slots \ {j[1]} : sess'[s] = sess[s]
      BY <1>2, <2>2, RightIn DEF Typed
    <2>4. \A k \in Key : TasksKept(k) /\ SeatKept(k)
      <3>1. PICK q : Posting(q) /\ \A y \in TasksOf(q) : Plain(y)
        BY <2>1, PlainNothing DEF Typed
      <3> QED
        BY <1>1, <2>1, <3>1, PostsSame, SeatsKeptBy DEF Typed
    <2>5. \A k \in Key \ {j} : ModeKept(k)
      <3>1. \A k \in Key : k[1] \in Slots /\ (k[1] = j[1] => k = j \/ k[2] # j[2])
        BY KeyFacts
      <3>2. \A k \in Key \ {j} : k[1] = j[1] => ~IsActive(k)'
        <4>1. sess'[j[1]].id = j[2]
          <5>1. sess'[j[1]].id = sess[j[1]].id
            BY <1>2, <1>9 DEF Login, Typed, SessOK, Session
          <5> QED
            BY <1>3, <5>1 DEF IsActive, Found
        <4> QED
          BY <3>1, <4>1 DEF IsActive, Found
      <3> QED
        BY <2>3, <3>1, <3>2 DEF ModeKept, IsActive, Found
    <2>6. \A k \in Key : EntryKept(k)
      BY <1>7, <2>1 DEF EntryKept, EntryIs
    <2>7. Watched(j)'
      <3>1. ~Accepted(j)'
        BY <1>5, <2>4 DEF TasksKept, Accepted, Flying
      <3>2. EntryIs(j, "ACTIVE")'
        BY <1>3, <2>1 DEF EntryIs
      <3>3. Listed(j)' /\ Forgets(j)'
        BY <1>4, <1>6, <2>4, <2>6, ListedKept
      <3> QED
        BY <2>3, <3>1, <3>2, <3>3 DEF Watched, AcceptedIn, Seen
    <2> QED
      BY <1>6, <1>7, <2>4, <2>5, <2>6, <2>7, WatchExcept DEF KeyKept
  <1>10. ASSUME UNCHANGED sess, entry' = PendingEntry(j), sess[j[1]].mode = "LOBBY",
                \A r \in RoomKeys : rooms'[r].seats = rooms[r].seats, NEW q, Posting(q), \A y \in TasksOf(q) : Plain(y)
         PROVE  Watch'
    <2> DEFINE x == [entry[j[1]] EXCEPT !.state = "PENDING"]
    <2>1. entry' = [entry EXCEPT ![j[1]] = x] /\ x.id = j[2] /\ x.state = "PENDING" /\ entry[j[1]].id = j[2]
      BY <1>2, <1>3, <1>10 DEF Typed, LobbyOK, EntryIs, PendingEntry
    <2> HIDE DEF x
    <2>2. \A k \in Key \ {j} : EntryKept(k)
      BY <1>1, <1>7, <2>1, OthersKept
    <2>3. \A k \in Key : ModeKept(k) /\ TasksKept(k) /\ SeatKept(k)
      <3>1. ModesRest
        BY <1>10, ModesAre
      <3> QED
        BY <1>1, <1>10, <3>1, ModesKept, PostsSame, SeatsKeptBy DEF Typed
    <2>4. EntryIs(j, "PENDING")' /\ ~EntryIs(j, "ACTIVE")'
      BY <2>1, OthersRest DEF Typed
    <2>5. ~Accepted(j)'
      BY <1>5, <2>3 DEF TasksKept, Accepted, Flying
    <2>6. j \in active' /\ ~Forgetting(j)'
      BY <1>1, <1>5, <1>7
    <2>7. Watched(j)'
      BY <1>10, <2>4, <2>5, <2>6 DEF Watched, Listed, Forgets, AcceptedIn, Seen
    <2> QED
      BY <1>6, <1>7, <2>2, <2>3, <2>7, WatchExcept DEF KeyKept
  <1>11. CASE RequestCreate(t)
    <2>1. UNCHANGED <<sess, conn>> /\ UNCHANGED lobbyTasks /\ UNCHANGED rooms /\ entry' = PendingEntry(j) /\ sess[j[1]].mode = "LOBBY"
      BY <1>2, <1>11 DEF RequestCreate, sessVars, Transition
    <2>2. PICK q : Posting(q) /\ \A x \in TasksOf(q) : Plain(x)
      BY <2>1, PlainNothing DEF Typed
    <2> QED
      BY <1>10, <2>1, <2>2
  <1>12. ASSUME NEW r \in RoomKeys, NEW match \in BOOLEAN, RequestJoin(t, r, match) PROVE Watch'
    <2>1. UNCHANGED <<sess, conn>> /\ entry' = PendingEntry(j) /\ sess[j[1]].mode = "LOBBY" /\ JoinTask(r, j, match)
      BY <1>2, <1>12 DEF RequestJoin, sessVars, Transition
    <2>2. (\A p \in RoomKeys : rooms'[p].seats = rooms[p].seats) /\ \E q : Posting(q) /\ \A x \in TasksOf(q) : Plain(x)
      BY <2>1, JoinPlain
    <2> QED
      BY <1>10, <2>1, <2>2
  <1> QED
    BY <1>8, <1>9, <1>11, <1>12 DEF LobbyRequest

----------------------------------------------------------------------------
(* A session that is being disconnected is in nobody's care as an active one. *)

LEMMA FinalizeWatch ==
  ASSUME Typed, Sorted, Watch, NEW t \in LobbyThreads, BeginFinalize(t) \/ FinalizeInRoom(t)
  PROVE  Watch'
  <1>1. UNCHANGED <<conn, entry, active>> /\ UNCHANGED overtaken /\ lpc[t] \in {"task", "finalize"}
    BY DEF BeginFinalize, FinalizeInRoom, lobbyVars
  <1>2. ltask[t].type = "DISCONNECT" /\ ltask[t] \in LobbyTask
    <2>1. ltask[t].type = "DISCONNECT"
      BY DEF Sorted, BeginFinalize, FinalizeInRoom
    <2> QED
      BY <1>1, <2>1, ThreadKey DEF Typed
  <1>3. PICK s \in Slots : s = ltask[t].key[1]
    BY <1>1, ThreadKey DEF Typed
  <1>4. Occupant(s) \in Key /\ Occupant(s)[1] = s
    BY OccupantKey DEF Typed
  <1>5. \E q : Posting(q) /\ \A x \in TasksOf(q) : Plain(x)
    <2>1. CASE UNCHANGED lobbyTasks
      BY <2>1, PlainNothing DEF Typed
    <2>2. CASE lobbyTasks' = Append(lobbyTasks, ltask[t])
      BY <1>2, <2>2, PlainOne DEF Typed, Plain
    <2>3. CASE lobbyTasks' = lobbyTasks \o RoomDisconnectNotice(Occupant(s))
      <3> DEFINE q == RoomDisconnectNotice(Occupant(s))
      <3>1. Posting(q) /\ \A x \in TasksOf(q) : x = LTask("DISCONNECT", Occupant(s))
        BY <1>4, <2>3, NoticePosted DEF Posting
      <3>2. LTask("DISCONNECT", Occupant(s)).type = "DISCONNECT"
        BY <1>4, TaskTypes DEF LobbyTaskType
      <3> HIDE DEF q
      <3> QED
        BY <3>1, <3>2 DEF Plain
    <2> QED
      BY <1>3, <2>1, <2>2, <2>3 DEF BeginFinalize, FinalizeInRoom, Requeued
  <1>6. (\A u \in LobbyThreads \ {t} : lpc'[u] = lpc[u] /\ ltask'[u] = ltask[u]) /\ lpc'[t] \in {"idle", "finalize"}
    <2>1. DoneLobby(t) \/ GotoLobby(t, "finalize")
      BY DEF BeginFinalize, FinalizeInRoom
    <2> QED
      BY <2>1, DoneOthers DEF Typed
  <1>7. \A r \in RoomKeys : rooms'[r].seats = rooms[r].seats
    <2>1. ASSUME NEW r \in RoomKeys, rooms' = AddRoomTask(rooms, r, RTask("REMOVE_PLAYER", Occupant(s)))
          PROVE  \A p \in RoomKeys : rooms'[p].seats = rooms[p].seats
      <3>1. RTask("REMOVE_PLAYER", Occupant(s)) \in RoomTask
        BY <1>4, RoomTaskTypes
      <3> QED
        BY <2>1, <3>1, QueuedAsks DEF Typed
    <2>2. FinalizeInRoom(t) => roomAt[sess[s].room] \in RoomKeys \cup {NoRoom}
      BY <1>3 DEF FinalizeInRoom, Typed, SessOK, TableOK
    <2> QED
      BY <1>3, <2>1, <2>2 DEF BeginFinalize, FinalizeInRoom
  <1>8. ModesRest
    <2>1. ASSUME NEW b \in BOOLEAN, sess' = [sess EXCEPT ![s].right = b] PROVE ModesRest
      BY <2>1, ModesAre DEF Typed
    <2>2. CASE sess' = AfterRoomDisconnect([sess EXCEPT ![s].right = FALSE], Occupant(s))
      <3>1. CASE LeavesRoom(Occupant(s))
        <4>1. (\A q \in Slots \ {s} : sess'[q] = sess[q]) /\ sess'[s].life = sess[s].life
          BY <1>4, <2>2 DEF AfterRoomDisconnect, Typed, SessOK, Session
        <4>2. sess[s].life # "ACTIVE"
          BY <1>4, <3>1 DEF LeavesRoom, Disconnecting
        <4> QED
          BY <4>1, <4>2 DEF ModesRest
      <3> QED
        BY <2>1, <2>2, <3>1 DEF AfterRoomDisconnect
    <2>3. UNCHANGED sess => ModesRest
      BY ModesAre
    <2> QED
      BY <1>3, <2>1, <2>2, <2>3 DEF BeginFinalize, FinalizeInRoom
  <1>9. (\A k \in Key : SeatKept(k)) /\ ~HasTask(t, "ADD_SESSION") /\ ~HasTask(t, "ENTER_LOBBY")
    BY <1>1, <1>2, <1>7, SeatsKeptBy DEF HasTask
  <1> QED
    BY <1>1, <1>5, <1>6, <1>8, <1>9, ThreadWatch

LEMMA SlotWatch ==
  ASSUME Typed, Owned, Answered, Watch, NEW t \in LobbyThreads, FinalizeOutsideRoom(t) \/ FreeSlot(t)
  PROVE  Watch'
  <1>1. UNCHANGED conn /\ UNCHANGED lobbyTasks /\ UNCHANGED <<rooms, overtaken>> /\ lpc[t] \in {"finalize", "free"}
    BY DEF FinalizeOutsideRoom, FreeSlot
  <1>2. PICK s \in Slots : s = ltask[t].key[1] /\ ltask[t].key \in Key
    BY <1>1, ThreadKey DEF Typed
  <1>3. (\A u \in LobbyThreads \ {t} : lpc'[u] = lpc[u] /\ ltask'[u] = ltask[u]) /\ lpc'[t] \in {"free", "idle"}
    BY DEF FinalizeOutsideRoom, FreeSlot, DoneLobby, Typed, ThreadOK
  <1>4. PICK q : Posting(q) /\ \A x \in TasksOf(q) : Plain(x)
    BY <1>1, PlainNothing DEF Typed
  <1>5. (\A k \in Key : SeatKept(k)) /\ ConnRests
    BY <1>1, SeatsKeptBy, SameConn
  <1>6. \A type : ~HasTask(t, type)
    BY <1>1 DEF HasTask
  <1>7. ASSUME UNCHANGED <<entry, active>>, ModesRest PROVE Watch'
    BY <1>1, <1>3, <1>4, <1>5, <1>6, <1>7, ThreadWatch
  <1>8. CASE FreeSlot(t)
    <2>1. ModesRest
      <3>1. CASE UNCHANGED sess
        BY <3>1, ModesAre
      <3>2. CASE sess' = [sess EXCEPT ![s] = [EmptySession EXCEPT !.right = sess[s].right]]
        <4> DEFINE x == [EmptySession EXCEPT !.right = sess[s].right]
        <4>1. x.life # "ACTIVE" /\ sess' = [sess EXCEPT ![s] = x]
          BY <3>2 DEF EmptySession
        <4> HIDE DEF x
        <4> QED
          BY <4>1, ModesAre DEF Typed
      <3> QED
        BY <1>2, <1>8, <3>1, <3>2 DEF FreeSlot
    <2> QED
      BY <1>7, <1>8, <2>1 DEF FreeSlot, lobbyVars
  <1>9. CASE FinalizeOutsideRoom(t)
    <2>1. PICK j \in Key : j = Occupant(s) /\ j[1] = s /\ j[2] = sess[s].id
      BY OccupantKey DEF Typed
    <2>2. entry' = ClearEntry(j) /\ active' = (IF EntryMatches(j) THEN active \ {j} ELSE active) /\ lpc[t] = "finalize"
      BY <1>2, <1>9, <2>1 DEF FinalizeOutsideRoom
    <2>3. ModesRest
      BY <1>2, <1>9, ModesAre DEF Typed, FinalizeOutsideRoom
    <2>4. CASE ~EntryMatches(j)
      BY <1>7, <2>2, <2>3, <2>4 DEF ClearEntry
    <2>5. CASE EntryMatches(j)
      <3> DEFINE x == EmptyEntry
      <3>1. entry' = [entry EXCEPT ![j[1]] = x] /\ x.state = "EMPTY" /\ entry[j[1]].id = j[2] /\ active' = active \ {j}
        BY <2>2, <2>5 DEF ClearEntry, EntryMatches, EmptyEntry
      <3> HIDE DEF x
      <3>2. (\A k \in Key : (Under(k, "enter")' <=> Under(k, "enter")) /\ (Forgetting(k)' <=> Forgetting(k)))
            /\ OneForgets' /\ EnterSorted'
        BY <1>1, <1>3, ThreadElse
      <3>3. \A k \in Key \ {j} : EntryKept(k)
        BY <3>1, <3>2, OthersKept
      <3>4. \A k \in Key : TasksKept(k)
        BY <1>3, <1>4, <1>6, PostsElse DEF Typed
      <3>5. ~IsActive(j)
        <4>1. Closing(ltask[t].key) \/ Replaced(s)
          BY <1>2, <2>2 DEF Owned, FinalizeOwned
        <4>2. entry[s].state # "EMPTY"
          BY <2>1, <2>5 DEF EntryMatches
        <4>3. sess[s].life # "NONE"
          BY <4>2 DEF Owned, EntryOwned, Found
        <4> QED
          BY <1>2, <2>1, <4>1, <4>2, <4>3 DEF Closing, Replaced, Fresh, IsActive
      <3>6. ~Forgetting(j)'
        <4>1. \E st \in {"PENDING", "ACTIVE"} : EntryIs(j, st)
          BY <2>1, <2>5 DEF EntryMatches, EntryIs, Typed, LobbyOK
        <4>2. ~Under(j, "enter")
          BY <3>5 DEF Under, Entering, Owned, EnterOwned, TakenBack
        <4> QED
          BY <3>2, <4>1, <4>2 DEF Watch, Watched, Forgets
      <3>7. \A st \in {"PENDING", "ACTIVE"} : ~EntryIs(j, st)'
        BY <3>1, OthersRest DEF Typed
      <3>8. ~IsActive(j)'
        BY <2>3, <3>5, ModesKept DEF ModeKept
      <3>9. Watched(j)'
        BY <3>6, <3>7, <3>8 DEF Watched, Listed, Forgets, AcceptedIn
      <3> QED
        BY <1>5, <2>3, <3>2, <3>3, <3>4, <3>9, ModesKept, WatchExcept DEF KeyKept
    <2> QED
      BY <2>4, <2>5
  <1> QED
    BY <1>8, <1>9

----------------------------------------------------------------------------
(* The game threads. *)

\* Session j has a place in a room and may be told to the lobby as taken.
LEMMA PlaceWatch ==
  ASSUME Typed, Watch, UNCHANGED <<entry, active, conn, lpc, ltask>>, NEW j \in Key,
         \A k \in Key \ {j} : ModeKept(k) /\ SeatKept(k),
         sess'[j[1]].mode = "ROOM", NEW r \in RoomKeys, Sits(r, j)',
         NEW q, Posting(q), \A x \in TasksOf(q) : x.type # "ADD_SESSION" /\ (Plain(x) \/ x.key = j)
  PROVE  Watch'
  <1>1. UNCHANGED <<lpc, ltask>> /\ QueueOK /\ NoneTaken /\ ConnRests
    BY NoneTakenBy, SameConn DEF Typed
  <1>2. /\ \A k \in Key : (Under(k, "enter")' <=> Under(k, "enter")) /\ (Forgetting(k)' <=> Forgetting(k))
        /\ OneForgets' /\ EnterSorted'
    BY <1>1, ThreadsSame
  <1>3. \A k \in Key : EntryKept(k)
    BY <1>2 DEF EntryKept, EntryIs
  <1>4. Waiting' \subseteq Waiting \cup TasksOf(q)
    BY <1>1, WaitingKept
  <1>5. \A k : Flying("ADD_SESSION", k)' => Flying("ADD_SESSION", k)
    BY <1>4 DEF Flying
  <1>6. \A k \in Key, type \in {"ADD_SESSION", "ENTER_LOBBY"} : Flying(type, k) => Flying(type, k)'
    <2>1. \A t \in LobbyThreads, type \in {"ADD_SESSION", "ENTER_LOBBY"} :
            HasTask(t, type) => HasTask(t, type)' /\ ltask'[t] = ltask[t]
      BY <1>1 DEF HasTask
    <2> QED
      BY <1>1, <2>1, FlyingStays
  <1>7. \A k \in Key \ {j} : KeyKept(k)
    <2> SUFFICES ASSUME NEW k \in Key \ {j} PROVE KeyKept(k)
      OBVIOUS
    <2>1. Accepted(k)' => Accepted(k)
      BY <1>4 DEF Accepted, Plain
    <2>2. TasksKept(k)
      BY <1>5, <1>6, <2>1 DEF TasksKept
    <2> QED
      BY <1>3, <2>2 DEF KeyKept
  <1>8. Watched(j)'
    <2>1. Listed(j)'
      BY <1>3 DEF Watch, Watched, Listed, EntryKept
    <2>2. Forgets(j)'
      <3> SUFFICES ASSUME Forgetting(j)'
                   PROVE  /\ j \in active' /\ j[2] <= conn'[j[1]] /\ ~Flying("ADD_SESSION", j)'
                          /\ \A st \in {"PENDING", "ACTIVE"} : EntryIs(j, st)' => Under(j, "enter")'
        BY DEF Forgets
      <3>1. /\ j \in active /\ j[2] <= conn[j[1]] /\ ~Flying("ADD_SESSION", j)
            /\ \A st \in {"PENDING", "ACTIVE"} : EntryIs(j, st) => Under(j, "enter")
        BY <1>3 DEF Watch, Watched, Forgets, EntryKept
      <3> QED
        BY <1>3, <1>5, <3>1 DEF EntryKept
    <2>3. AcceptedIn(j)' /\ Seen(j)'
      BY DEF AcceptedIn, Seen
    <2> QED
      BY <2>1, <2>2, <2>3 DEF Watched
  <1> QED
    BY <1>1, <1>2, <1>7, <1>8, WatchExcept

LEMMA PlainAnswer ==
  ASSUME QueueOK, NEW k \in Key, NEW match \in BOOLEAN, lobbyTasks' = Append(lobbyTasks, TransitionResult(k, FALSE, match))
  PROVE  \E q : Posting(q) /\ \A x \in TasksOf(q) : Plain(x)
  <1> DEFINE y == TransitionResult(k, FALSE, match)
  <1>1. y \in LobbyTask /\ y.type = "ROOM_TRANSITION_RESULT"
    BY TaskTypes
  <1>2. ~y.ok
    BY DEF TransitionResult, LTask
  <1> HIDE DEF y
  <1>3. Plain(y)
    BY <1>1, <1>2 DEF Plain
  <1> QED
    BY <1>1, <1>3, PlainOne DEF y

LEMMA RefuseWatch ==
  ASSUME Typed, Watch, NEW g \in GameThreads, DeleteRoom(g) \/ BeginCreate(g) \/ RefuseCreate(g)
  PROVE  Watch'
  <1>1. UNCHANGED <<sess, conn, entry, active, lpc, ltask, rooms, overtaken>>
    BY DEF DeleteRoom, BeginCreate, RefuseCreate, sessVars, lobbyVars, threadVars
  <1>2. ModesRest /\ \A k \in Key : SeatKept(k)
    BY <1>1, ModesAre, SeatsKeptBy
  <1>3. UNCHANGED lobbyTasks \/ \E k \in Key : lobbyTasks' = Append(lobbyTasks, TransitionResult(k, FALSE, FALSE))
    <2>1. CASE BeginCreate(g) /\ lobbyTasks' = CreateRefused(Head(lifeTasks).key)
      <3>1. Head(lifeTasks) \in LifecycleTask /\ Head(lifeTasks).type = "CREATE"
        BY <2>1, QueueFacts DEF BeginCreate, Typed, GameOK
      <3>2. Head(lifeTasks).key \in Key
        BY <3>1 DEF LifecycleTask
      <3> QED
        BY <2>1, <3>2 DEF CreateRefused
    <2>2. CASE RefuseCreate(g)
      <3>1. gkey[g] \in Key
        BY <2>2 DEF Typed, GameOK, RefuseCreate
      <3> QED
        BY <2>2, <3>1 DEF RefuseCreate, CreateRefused
    <2> QED
      BY <2>1, <2>2 DEF BeginCreate, DeleteRoom
  <1>4. PICK q : Posting(q) /\ \A x \in TasksOf(q) : Plain(x)
    BY <1>3, PlainNothing, PlainAnswer DEF Typed
  <1> QED
    BY <1>1, <1>2, <1>4, QuietWatch

LEMMA CreateWatch ==
  ASSUME Typed, Watch, NEW g \in GameThreads, NEW r \in RoomKeys, NEW i \in RoomIndices,
         NEW max \in {1, Cardinality(Seats)}, CreateRoom(g, r, i, max)
  PROVE  Watch'
  <1>1. UNCHANGED <<conn, entry, active, lobbyTasks, lpc, ltask, overtaken>>
    BY DEF CreateRoom, lobbyVars, threadVars
  <1>2. PICK j \in Key : j = gkey[g] /\ j[1] \in Slots
    BY KeyFacts DEF CreateRoom, Typed, GameOK
  <1> DEFINE x == [sess[j[1]] EXCEPT !.mode = "ROOM", !.room = i, !.right = TRUE]
  <1>3. x.id = sess[j[1]].id /\ x.mode = "ROOM" /\ sess' = [sess EXCEPT ![j[1]] = x]
    BY <1>2 DEF CreateRoom, Typed, SessOK, Session
  <1> HIDE DEF x
  <1>4. sess'[j[1]] = x /\ (\A s \in Slots \ {j[1]} : sess'[s] = sess[s]) /\ Found(j)
    BY <1>2, <1>3, RightIn DEF Typed, CreateRoom, IsActive
  <1>5. \A k \in Key \ {j} : ModeKept(k)
    <2> SUFFICES ASSUME NEW k \in Key \ {j} PROVE ModeKept(k)
      OBVIOUS
    <2>1. k[1] \in Slots /\ (k[1] = j[1] => k[2] # j[2])
      BY KeyFacts
    <2>2. CASE k[1] = j[1]
      BY <1>3, <1>4, <2>1, <2>2 DEF ModeKept, IsActive, Found
    <2>3. CASE k[1] # j[1]
      BY <1>4, <2>1, <2>3 DEF ModeKept, IsActive, Found
    <2> QED
      BY <2>2, <2>3
  <1>6. rooms' = [rooms EXCEPT ![r] = MadeRoom(i, max, j)] /\ rooms[r] = NewRoom
    BY <1>2, CreateRoomStep DEF Typed
  <1>7. rooms'[r] = MadeRoom(i, max, j) /\ \A p \in RoomKeys \ {r} : rooms'[p] = rooms[p]
    BY <1>6 DEF Typed, RoomsOK
  <1>8. \A k : ~Sits(r, k)
    BY <1>6 DEF Sits, Seated, NewRoom, EmptySeat
  <1>9. \A p \in RoomKeys : \A k : Sits(p, k) => Sits(p, k)'
    BY <1>7, <1>8, SitsStays
  <1>10. Sits(r, j)'
    <2>1. MadeRoom(i, max, j).seats[1].state = "PENDING" /\ MadeRoom(i, max, j).seats[1].key = j /\ 1 \in Seats
      BY SeatsAssumption DEF MadeRoom
    <2> QED
      BY <1>7, <2>1 DEF Sits, Seated
  <1>11. \A k \in Key : SeatKept(k)
    BY <1>1, <1>9 DEF SeatKept
  <1>12. PICK q : Posting(q) /\ TasksOf(q) = {}
    BY <1>1, PostNothing DEF Typed
  <1> QED
    BY <1>1, <1>3, <1>4, <1>5, <1>10, <1>11, <1>12, PlaceWatch

LEMMA AnswerWatch ==
  ASSUME Typed, Placed, Watch, NEW g \in GameThreads, AnswerCreate(g)
  PROVE  Watch'
  <1>1. UNCHANGED <<sess, conn, entry, active, lpc, ltask, rooms, overtaken>> /\ gpc[g] = "created"
    BY DEF AnswerCreate, sessVars, lobbyVars, threadVars
  <1>2. PICK j \in Key : j = gkey[g] /\ j[1] \in Slots
    BY <1>1, KeyFacts DEF Typed, GameOK
  <1>3. PICK r \in RoomKeys : r = groom[g] /\ rooms[r].pc = "init" /\ rooms[r].seats[1].key = j
    BY <1>1, <1>2 DEF Typed, MakersOK
  <1>4. Sits(r, j)
    <2>1. RoomOK(rooms[r]) /\ 1 \in Seats
      BY SeatsAssumption DEF Typed, RoomsOK
    <2>2. rooms[r].seats[1].state = "PENDING"
      BY <1>3, <2>1 DEF RoomOK, LifeOK
    <2> QED
      BY <1>3, <2>1, <2>2 DEF Sits, Seated
  <1>5. sess'[j[1]].mode = "ROOM"
    BY <1>1, <1>4 DEF Placed, SeatsHere, InRoom
  <1>6. Sits(r, j)'
    BY <1>1, <1>4, SitsStays
  <1>7. ModesRest /\ \A k \in Key : SeatKept(k)
    BY <1>1, ModesAre, SeatsKeptBy
  <1>8. \A k \in Key : ModeKept(k)
    BY <1>7, ModesKept
  <1> DEFINE y == TransitionResult(j, TRUE, FALSE)
             q == <<y>>
  <1>9. y \in LobbyTask /\ y.type = "ROOM_TRANSITION_RESULT" /\ y.key = j
    BY TaskTypes
  <1>10. lobbyTasks' = Append(lobbyTasks, y)
    BY <1>2 DEF AnswerCreate
  <1> HIDE DEF y
  <1>11. Posting(q) /\ TasksOf(q) = {y}
    BY <1>9, <1>10, PostOne DEF Typed
  <1> HIDE DEF q
  <1> QED
    BY <1>1, <1>5, <1>6, <1>7, <1>8, <1>9, <1>11, PlaceWatch

LEMMA ReadyWatch ==
  ASSUME Typed, Watch, NEW g \in GameThreads, CompleteRoomInitialization(g)
  PROVE  Watch'
  <1>1. UNCHANGED <<conn, entry, active, lobbyTasks, lpc, ltask, overtaken>>
    BY DEF CompleteRoomInitialization, lobbyVars, threadVars
  <1>2. PICK r \in RoomKeys : r = groom[g] /\ rooms[r].pc = "init" /\ gkey[g][1] \in Slots
    BY KeyFacts DEF CompleteRoomInitialization, Typed, MakersOK, GameOK
  <1> DEFINE v == ReadyRoom(rooms[r])
  <1>3. RoomOK(rooms[r])
    BY DEF Typed, RoomsOK
  <1>4. Taken(v.seats) = {1} /\ \A n \in Seats : v.seats[n].key = rooms[r].seats[n].key
    BY <1>2, <1>3, ReadyRoomOK
  <1>5. Taken(rooms[r].seats) = {1}
    BY <1>2, <1>3 DEF RoomOK, LifeOK
  <1>6. rooms' = [rooms EXCEPT ![r] = v]
    BY <1>2, CompleteStep DEF Typed
  <1> HIDE DEF v
  <1>7. rooms'[r] = v /\ \A p \in RoomKeys \ {r} : rooms'[p] = rooms[p]
    BY <1>6 DEF Typed, RoomsOK
  <1>8. ASSUME NEW k, Sits(r, k) PROVE Sits(r, k)'
    <2>1. PICK n \in Seats : n \in Taken(rooms[r].seats) /\ rooms[r].seats[n].key = k
      BY <1>8 DEF Sits, Seated, Taken
    <2>2. n \in Taken(v.seats) /\ v.seats[n].key = k
      BY <1>4, <1>5, <2>1
    <2> QED
      BY <1>7, <2>2 DEF Sits, Seated, Taken
  <1>9. \A p \in RoomKeys : \A k : Sits(p, k) => Sits(p, k)'
    BY <1>7, <1>8, SitsStays
  <1>10. \A k \in Key : SeatKept(k)
    BY <1>1, <1>9 DEF SeatKept
  <1>11. ModesRest
    BY <1>2, ModesAre DEF Typed, CompleteRoomInitialization
  <1>12. PICK q : Posting(q) /\ \A x \in TasksOf(q) : Plain(x)
    BY <1>1, PlainNothing DEF Typed
  <1> QED
    BY <1>1, <1>10, <1>11, <1>12, QuietWatch

LEMMA CreatesWatch ==
  ASSUME Typed, Placed, Watch, NEW g \in GameThreads, CreateStep(g)
  PROVE  Watch'
  BY RefuseWatch, CreateWatch, AnswerWatch, ReadyWatch DEF CreateStep

----------------------------------------------------------------------------
(* The rooms. *)

\* The steps of a tick that move nobody.
LEMMA TickWatch ==
  ASSUME Typed, Watch, NEW r \in RoomKeys,
         \/ BeginTick(r) \/ ClaimTasks(r) \/ KeepPending(r) \/ VisitSeat(r) \/ EndSeatVisit(r) \/ PlayTick(r)
         \/ EndRoomTasks(r) \/ DisconnectInRoom(r) \/ ProcessStart(r) \/ ProcessGiveUp(r)
         \/ \E type \in {"START", "KICK", "GIVE_UP"}, target \in Key \cup {NoKey} : RequestRoomTask(r, type, target)
  PROVE  Watch'
  <1>1. UNCHANGED <<conn, entry, active, lobbyTasks, lpc, ltask, overtaken>>
    BY DEF BeginTick, ClaimTasks, KeepPending, VisitSeat, EndSeatVisit, PlayTick, DisconnectInRoom, ProcessStart,
           ProcessGiveUp, RequestRoomTask, EndRoomTasks, sessVars, lobbyVars, threadVars
  <1>2. \A p \in RoomKeys : rooms'[p].seats = rooms[p].seats
    <2>1. UNCHANGED rooms \/ QuietStep(r) \/ QuietKept(r) \/ \E v : Posted(rooms[r], v) /\ rooms' = [rooms EXCEPT ![r] = v]
      <3>1. CASE BeginTick(r) \/ ClaimTasks(r) \/ KeepPending(r)
        BY <3>1, TickQuiet DEF Typed
      <3>2. CASE VisitSeat(r)
        BY <3>2, VisitSeatSteps DEF Typed, QuietStep
      <3>3. CASE EndSeatVisit(r)
        BY <3>3, EndSeatVisitStep DEF Typed, QuietStep
      <3>4. CASE PlayTick(r)
        BY <3>4, PlayQuiet DEF Typed
      <3>5. CASE ProcessStart(r) \/ ProcessGiveUp(r)
        BY <3>5, GameQuiet DEF Typed
      <3>6. ASSUME NEW type \in {"START", "KICK", "GIVE_UP"}, NEW target \in Key \cup {NoKey}, RequestRoomTask(r, type, target)
            PROVE  QuietKept(r)
        BY <3>6, RequestQuiet DEF Typed
      <3>7. CASE EndRoomTasks(r)
        BY <3>7, EndRoomTasksStep DEF Typed
      <3> QED
        BY <3>1, <3>2, <3>3, <3>4, <3>5, <3>6, <3>7 DEF DisconnectInRoom
    <2>2. CASE UNCHANGED rooms \/ QuietStep(r) \/ QuietKept(r)
      BY <2>2, RoomsStayed DEF Typed, RoomsStay, RoomStays
    <2>3. ASSUME NEW v, Posted(rooms[r], v), rooms' = [rooms EXCEPT ![r] = v]
          PROVE  \A p \in RoomKeys : rooms'[p].seats = rooms[p].seats
      <3>1. v.seats = rooms[r].seats
        BY <2>3 DEF Posted
      <3>2. rooms'[r] = v /\ \A p \in RoomKeys \ {r} : rooms'[p] = rooms[p]
        BY <2>3 DEF Typed, RoomsOK
      <3> QED
        BY <3>1, <3>2
    <2> QED
      BY <2>1, <2>2, <2>3
  <1>3. ModesRest
    <2>1. CASE UNCHANGED sess
      BY <2>1, ModesAre
    <2>2. CASE VisitSeat(r)
      <3>1. SeatKey(r) \in Key => SeatKey(r)[1] \in Slots
        BY KeyFacts
      <3>2. ASSUME NEW s \in Slots, sess' = [sess EXCEPT ![s].right = TRUE] PROVE ModesRest
        BY <3>2, ModesAre DEF Typed
      <3> QED
        BY <2>1, <2>2, <3>1, <3>2, VisitSeatSteps DEF Typed
    <2>3. CASE EndSeatVisit(r)
      <3>1. PICK s \in Slots : s = rooms[r].held[1]
        BY <2>3, EndSeatVisitStep, KeyFacts DEF Typed
      <3>2. sess' = [sess EXCEPT ![s].right = FALSE]
        BY <2>3, <3>1 DEF EndSeatVisit
      <3> QED
        BY <3>2, ModesAre DEF Typed
    <2>4. CASE DisconnectInRoom(r)
      <3>1. PICK k \in Key : k = SeatKey(r) /\ k[1] \in Slots
        BY <2>4, VisitedKey DEF Typed, DisconnectInRoom
      <3> DEFINE x == [sess[k[1]] EXCEPT !.life = "DISCONNECT_PENDING"]
      <3>2. x.life # "ACTIVE" /\ sess' = [sess EXCEPT ![k[1]] = x]
        BY <2>4, <3>1 DEF DisconnectInRoom, BeginDisconnect, Typed, SessOK, Session
      <3> HIDE DEF x
      <3> QED
        BY <3>1, <3>2, ModesAre DEF Typed
    <2> QED
      BY <2>1, <2>2, <2>3, <2>4 DEF BeginTick, ClaimTasks, KeepPending, EndRoomTasks, PlayTick, ProcessStart,
                                    ProcessGiveUp, RequestRoomTask, sessVars
  <1>4. \A k \in Key : SeatKept(k)
    BY <1>1, <1>2, SeatsKeptBy
  <1>5. PICK q : Posting(q) /\ \A x \in TasksOf(q) : Plain(x)
    BY <1>1, PlainNothing DEF Typed
  <1> QED
    BY <1>1, <1>3, <1>4, <1>5, QuietWatch

\* A task of a room that moves nobody.
LEMMA TaskWatch ==
  ASSUME Typed, Watch, NEW r \in RoomKeys, AtTask(r), rooms' = [rooms EXCEPT ![r] = AfterTask(@)],
         UNCHANGED <<sess, conn, entry, active, lpc, ltask, overtaken>>,
         NEW q, Posting(q), \A x \in TasksOf(q) : Plain(x)
  PROVE  Watch'
  <1>1. \A p \in RoomKeys : rooms'[p].seats = rooms[p].seats
    BY TaskDone, RoomsStayed DEF Typed, RoomsStay, RoomStays
  <1>2. ModesRest /\ \A k \in Key : SeatKept(k)
    BY <1>1, ModesAre, SeatsKeptBy
  <1> QED
    BY <1>2, QuietWatch

LEMMA SeatWatch ==
  ASSUME Typed, Watch, NEW r \in RoomKeys, ProcessJoin(r)
  PROVE  Watch'
  <1>1. AtTask(r) /\ UNCHANGED <<conn, entry, active, lpc, ltask, overtaken>>
    BY DEF ProcessJoin, TaskReady, lobbyVars, threadVars
  <1>2. PICK task \in RoomTask : task = Head(rooms[r].tasks) /\ task.key \in Key /\ task.match \in BOOLEAN
    BY <1>1, TaskAtHand DEF Typed, RoomTask
  <1>3. PICK j \in Key : j = task.key /\ j[1] \in Slots
    BY <1>2, KeyFacts
  <1>4. CASE /\ UNCHANGED sess /\ rooms' = [rooms EXCEPT ![r] = AfterTask(@)]
             /\ lobbyTasks' = Append(lobbyTasks, TransitionResult(j, FALSE, task.match))
    <2>1. PICK q : Posting(q) /\ \A x \in TasksOf(q) : Plain(x)
      BY <1>2, <1>4, PlainAnswer DEF Typed
    <2> QED
      BY <1>1, <1>4, <2>1, TaskWatch
  <1>5. CASE /\ MayJoin(r, j)
             /\ rooms' = [rooms EXCEPT ![r] = SeatPlayer(AfterTask(rooms[r]), j)]
             /\ sess' = [sess EXCEPT ![j[1]] = [@ EXCEPT !.mode = "ROOM", !.room = rooms[r].index]]
             /\ lobbyTasks' = Append(lobbyTasks, TransitionResult(j, TRUE, task.match))
    <2>1. PICK v : Joined(rooms[r], v, j) /\ rooms' = [rooms EXCEPT ![r] = v]
      BY <1>1, <1>5, JoinedStep DEF Typed
    <2>2. rooms'[r] = v /\ \A p \in RoomKeys \ {r} : rooms'[p] = rooms[p]
      BY <2>1 DEF Typed, RoomsOK
    <2>3. PICK n \in Seats \ Taken(rooms[r].seats) : v.seats = [rooms[r].seats EXCEPT ![n] = [state |-> "ACTIVE", key |-> j]]
      BY <2>1 DEF Joined
    <2>4. /\ \A m \in Seats : rooms[r].seats[m].state # "EMPTY" => v.seats[m] = rooms[r].seats[m]
          /\ v.seats[n].state = "ACTIVE" /\ v.seats[n].key = j
      BY <2>3 DEF Taken, Typed, RoomsOK, Room
    <2>5. \A k : Sits(r, k) => Sits(r, k)'
      BY <2>2, <2>4 DEF Sits, Seated
    <2>6. Sits(r, j)'
      BY <2>2, <2>4 DEF Sits, Seated
    <2>7. \A p \in RoomKeys : \A k : Sits(p, k) => Sits(p, k)'
      BY <2>2, <2>5, SitsStays
    <2>8. \A k \in Key : SeatKept(k)
      BY <1>1, <2>7 DEF SeatKept
    <2> DEFINE x == [sess[j[1]] EXCEPT !.mode = "ROOM", !.room = rooms[r].index]
    <2>9. x.id = sess[j[1]].id /\ x.mode = "ROOM" /\ sess' = [sess EXCEPT ![j[1]] = x]
      BY <1>3, <1>5 DEF Session, Typed, SessOK
    <2> HIDE DEF x
    <2>10. sess'[j[1]] = x /\ (\A s \in Slots \ {j[1]} : sess'[s] = sess[s]) /\ Found(j)
      BY <1>3, <1>5, <2>9, RightIn DEF Typed, MayJoin, IsActive
    <2>11. \A k \in Key \ {j} : ModeKept(k)
      <3> SUFFICES ASSUME NEW k \in Key \ {j} PROVE ModeKept(k)
        OBVIOUS
      <3>1. k[1] \in Slots /\ (k[1] = j[1] => k[2] # j[2])
        BY KeyFacts
      <3>2. CASE k[1] = j[1]
        BY <2>9, <2>10, <3>1, <3>2 DEF ModeKept, IsActive, Found
      <3>3. CASE k[1] # j[1]
        BY <2>10, <3>1, <3>3 DEF ModeKept, IsActive, Found
      <3> QED
        BY <3>2, <3>3
    <2> DEFINE y == TransitionResult(j, TRUE, task.match)
               q == <<y>>
    <2>12. y \in LobbyTask /\ y.type = "ROOM_TRANSITION_RESULT" /\ y.key = j
      BY <1>2, TaskTypes
    <2>13. lobbyTasks' = Append(lobbyTasks, y)
      BY <1>5
    <2> HIDE DEF y
    <2>14. Posting(q) /\ TasksOf(q) = {y}
      BY <2>12, <2>13, PostOne DEF Typed
    <2> HIDE DEF q
    <2> QED
      BY <1>1, <2>6, <2>8, <2>9, <2>10, <2>11, <2>12, <2>14, PlaceWatch
  <1> QED
    BY <1>2, <1>3, <1>4, <1>5 DEF ProcessJoin

\* Player k leaves room r, and the lobby is asked to take back whoever is still active.
LEMMA LeftWatch ==
  ASSUME Typed, Placed, Watch, NEW r \in RoomKeys, NEW k \in Key, Sits(r, k), NEW v, Left(rooms[r], v, k),
         rooms' = [rooms EXCEPT ![r] = v], UNCHANGED <<entry, active, conn, lpc, ltask, overtaken>>, ModesRest,
         NEW q, Posting(q), \A x \in TasksOf(q) : Plain(x),
         IsActive(k)' => \E x \in TasksOf(q) : x.type = "ENTER_LOBBY" /\ x.key = k
  PROVE  Watch'
  <1>1. \A p \in RoomKeys : \A j : Sits(p, j)' <=> Sits(p, j) /\ j # k
    BY LeftSeats
  <1>2. UNCHANGED <<lpc, ltask>> /\ ConnRests /\ QueueOK /\ NoneTaken
    BY SameConn, NoneTakenBy DEF Typed
  <1>3. \A j \in Key : TasksKept(j)
    BY <1>2, PostsSame DEF Typed
  <1>4. /\ \A j \in Key : (Under(j, "enter")' <=> Under(j, "enter")) /\ (Forgetting(j)' <=> Forgetting(j))
        /\ OneForgets' /\ EnterSorted'
    BY <1>2, ThreadsSame
  <1>5. \A j \in Key : EntryKept(j) /\ ModeKept(j)
    BY <1>4, ModesKept DEF EntryKept, EntryIs
  <1>6. \A j \in Key \ {k} : KeyKept(j)
    BY <1>1, <1>3, <1>5 DEF KeyKept, SeatKept
  <1>7. Watched(k)'
    <2>1. Watched(k)
      BY DEF Watch
    <2>2. Listed(k)' /\ Forgets(k)' /\ AcceptedIn(k)'
      BY <1>2, <1>3, <1>5, <2>1, ListedKept, AcceptedKept
    <2>3. TasksOf(q) \subseteq Waiting'
      BY <1>2, TasksOfConcat DEF QueueOK, Waiting, Posting
    <2>4. IsActive(k)' => Seen(k)'
      BY <2>3 DEF Seen, Flying
    <2> QED
      BY <2>2, <2>4 DEF Watched
  <1> QED
    BY <1>2, <1>4, <1>6, <1>7, WatchExcept

LEMMA LeaveWatch ==
  ASSUME Typed, Placed, Watch, NEW r \in RoomKeys, LeaveRoom(r)
  PROVE  Watch'
  <1>1. UNCHANGED <<sess, conn, entry, active, lpc, ltask, overtaken>>
    BY DEF LeaveRoom, sessVars, lobbyVars, threadVars
  <1>2. PICK k \in Key : k = SeatKey(r) /\ Sits(r, k)
    BY VisitedKey DEF Typed, LeaveRoom, Sits
  <1>3. PICK v : Left(rooms[r], v, k) /\ rooms' = [rooms EXCEPT ![r] = v]
    BY <1>2, LeaveRoomStep DEF Typed
  <1>4. rooms[r].index \in RoomIndices
    BY <1>2, SeatOf DEF Typed, RoomsOK, RoomOK, LifeOK, Used
  <1> DEFINE y == [LTask("ENTER_LOBBY", k) EXCEPT !.room = rooms[r].index]
  <1>5. y \in LobbyTask /\ y.type = "ENTER_LOBBY" /\ y.key = k /\ Plain(y)
    BY <1>4, TaskTypes DEF LobbyTaskType, Plain
  <1>6. lobbyTasks' = Append(lobbyTasks, y)
    BY <1>2 DEF LeaveRoom
  <1> HIDE DEF y
  <1> DEFINE q == <<y>>
  <1>7. Posting(q) /\ TasksOf(q) = {y}
    BY <1>5, <1>6, PostOne DEF Typed
  <1> HIDE DEF q
  <1>8. ModesRest
    BY <1>1, ModesAre
  <1> QED
    BY <1>1, <1>2, <1>3, <1>5, <1>7, <1>8, LeftWatch

LEMMA ToLobbyWatch ==
  ASSUME Typed, Placed, Watch, NEW r \in RoomKeys, AtTask(r), NEW k \in Key, Seated(r, k) # {},
         \/ ToLobby(r, AfterTask(rooms[r]), k)
         \/ /\ rooms' = [rooms EXCEPT ![r] = RemovedFrom(AfterTask(rooms[r]), k)]
            /\ sess' = AfterRoomDisconnect(sess, k)
            /\ lobbyTasks' = lobbyTasks \o RoomDisconnectNotice(k)
            /\ ~IsActive(k),
         UNCHANGED <<conn, entry, active, lpc, ltask, overtaken>>
  PROVE  Watch'
  <1>1. sess' = AfterRoomDisconnect(sess, k) /\ rooms' = [rooms EXCEPT ![r] = RemovedFrom(AfterTask(rooms[r]), k)]
    BY DEF ToLobby
  <1>2. Sits(r, k)
    BY DEF Sits
  <1>3. PICK v : Left(rooms[r], v, k) /\ rooms' = [rooms EXCEPT ![r] = v]
    BY <1>1, RemovedStep DEF Typed
  <1>4. ModesRest
    BY <1>1, ModesAre DEF Typed
  <1>5. IsActive(k)' => IsActive(k)
    BY <1>4, ModesKept DEF ModeKept
  <1> DEFINE p == RoomDisconnectNotice(k)
  <1>6. p \in Seq(LobbyTask) /\ \A x \in TasksOf(p) : Plain(x)
    BY NoticePosted, TaskTypes DEF LobbyTaskType, Plain
  <1> HIDE DEF p
  <1>7. CASE ToLobby(r, AfterTask(rooms[r]), k)
    <2>1. PICK x \in LobbyTask : /\ x.type = "ENTER_LOBBY" /\ x.key = k
                                /\ Posting(p \o <<x>>) /\ TasksOf(p \o <<x>>) = TasksOf(p) \cup {x}
      BY <1>7, ToLobbyPosts DEF p
    <2> DEFINE q == p \o <<x>>
    <2>2. Posting(q) /\ TasksOf(q) = TasksOf(p) \cup {x}
      BY <2>1
    <2> HIDE DEF q
    <2>3. (\A y \in TasksOf(q) : Plain(y)) /\ \E y \in TasksOf(q) : y.type = "ENTER_LOBBY" /\ y.key = k
      BY <1>6, <2>1, <2>2 DEF Plain
    <2> QED
      BY <1>2, <1>3, <1>4, <2>2, <2>3, LeftWatch
  <1>8. CASE lobbyTasks' = lobbyTasks \o p /\ ~IsActive(k)
    <2>1. Posting(p) /\ ~IsActive(k)'
      BY <1>5, <1>6, <1>8 DEF Posting
    <2> QED
      BY <1>2, <1>3, <1>4, <1>6, <2>1, LeftWatch
  <1> QED
    BY <1>7, <1>8 DEF p

LEMMA RemovalWatch ==
  ASSUME Typed, Placed, Watch, NEW r \in RoomKeys, ProcessRemove(r) \/ ProcessKick(r)
  PROVE  Watch'
  <1>1. AtTask(r) /\ UNCHANGED <<conn, entry, active, lpc, ltask, overtaken>>
    BY DEF ProcessRemove, ProcessKick, TaskReady, lobbyVars, threadVars
  <1>2. CASE rooms' = [rooms EXCEPT ![r] = AfterTask(@)] /\ UNCHANGED <<sess, lobbyTasks>>
    <2>1. PICK q : Posting(q) /\ \A x \in TasksOf(q) : Plain(x)
      BY <1>2, PlainNothing DEF Typed
    <2> QED
      BY <1>1, <1>2, <2>1, TaskWatch
  <1>3. PICK k \in Key : k = Head(rooms[r].tasks).key
    BY <1>1, TaskAtHand DEF Typed
  <1>4. CASE ProcessRemove(r)
    <2>1. SeatActive(r, k) => Seated(r, k) # {}
      BY DEF SeatActive
    <2> QED
      BY <1>1, <1>2, <1>3, <1>4, <2>1, ToLobbyWatch DEF ProcessRemove
  <1>5. CASE ProcessKick(r)
    <2>1. ASSUME NEW c \in KickTarget(r, Head(rooms[r].tasks)), ToLobby(r, AfterTask(rooms[r]), c) PROVE Watch'
      BY <1>1, <2>1, TargetKey, ToLobbyWatch DEF Typed
    <2> QED
      BY <1>2, <1>5, <2>1 DEF ProcessKick
  <1> QED
    BY <1>4, <1>5

LEMMA RoomWatch ==
  ASSUME Typed, Placed, Watch, NEW r \in RoomKeys,
         \/ BeginTick(r) \/ RoomTaskStep(r) \/ VisitSeat(r) \/ RoomRequest(r) \/ EndSeatVisit(r) \/ PlayTick(r)
  PROVE  Watch'
  BY TickWatch, SeatWatch, LeaveWatch, RemovalWatch DEF RoomTaskStep, ProcessRoomTask, RoomRequest

----------------------------------------------------------------------------
(* Every active session is cared for. *)

LEMMA WatchInit == Init => Watch
  <1> SUFFICES ASSUME Init PROVE Watch
    OBVIOUS
  <1>1. /\ \A s \in Slots : sess[s].life = "NONE" /\ entry[s].state = "EMPTY"
        /\ (\A t \in LobbyThreads : lpc[t] = "idle") /\ lobbyTasks = <<>>
    BY DEF Init, EmptySession, EmptyEntry
  <1>2. \A k \in Key : k[1] \in Slots
    BY KeyFacts
  <1>3. \A k \in Key : ~IsActive(k) /\ \A st \in {"PENDING", "ACTIVE"} : ~EntryIs(k, st)
    BY <1>1, <1>2 DEF IsActive, EntryIs
  <1>4. \A k : ~Forgetting(k)
    BY <1>1 DEF Forgetting
  <1>5. \A k \in Key : Watched(k)
    BY <1>3, <1>4 DEF Watched, Listed, Forgets, AcceptedIn
  <1> QED
    BY <1>1, <1>5 DEF Watch, OneForgets, EnterSorted

LEMMA WatchNext == Typed /\ Sorted /\ Owned /\ Placed /\ Answered /\ Watch /\ [Next]_vars => Watch'
  <1> SUFFICES ASSUME Typed, Sorted, Owned, Placed, Answered, Watch, [Next]_vars PROVE Watch'
    OBVIOUS
  <1>1. CASE UNCHANGED vars \/ StartLobbyPhase \/ EndLobbyTasks
    BY <1>1, PhaseWatch
  <1>2. ASSUME NEW s \in Slots, AcquireSession(s) \/ CompleteSessionIO(s) PROVE Watch'
    BY <1>2, AcquireWatch, CompleteWatch
  <1>3. ASSUME NEW t \in LobbyThreads, LobbyTaskStep(t) PROVE Watch'
    BY <1>3, DequeueWatch, AddWatch, ForgetWatch, RemoveWatch, ReturnWatch, EnterWatch, ActivateWatch, FinalizeWatch,
       SlotWatch DEF LobbyTaskStep
  <1>4. ASSUME NEW t \in LobbyThreads, LobbyRequest(t) PROVE Watch'
    BY <1>4, RequestWatch
  <1>5. ASSUME NEW t \in LobbyThreads, EndVisit(t) \/ \E s \in Slots : VisitSession(t, s) PROVE Watch'
    BY <1>5, VisitWatch
  <1>6. ASSUME NEW g \in GameThreads, CreateStep(g) PROVE Watch'
    BY <1>6, CreatesWatch
  <1>7. ASSUME NEW r \in RoomKeys,
               \/ BeginTick(r) \/ RoomTaskStep(r) \/ VisitSeat(r) \/ RoomRequest(r) \/ EndSeatVisit(r) \/ PlayTick(r)
        PROVE  Watch'
    BY <1>7, RoomWatch
  <1> QED
    BY <1>1, <1>2, <1>3, <1>4, <1>5, <1>6, <1>7 DEF Next

LEMMA WatchReachable == Typed /\ Placed /\ Watch => Reachable
  <1> SUFFICES ASSUME Typed, Placed, Watch, NEW s \in Slots, sess[s].life = "ACTIVE"
               PROVE  Occupant(s) \in overtaken \/ Cared(Occupant(s))
    BY DEF Reachable
  <1>1. PICK k \in Key : k = Occupant(s) /\ k[1] = s /\ k[2] = sess[s].id
    BY OccupantKey, KeyFacts DEF Typed, Occupant, SessOK, Session
  <1>2. IsActive(k) /\ Watched(k)
    BY <1>1 DEF IsActive, Found, Watch
  <1>3. Seen(k) /\ Listed(k)
    BY <1>2 DEF Watched
  <1>4. Waiting \subseteq LobbyTasksInFlight
    BY DEF Waiting, LobbyTasksInFlight
  <1>5. CASE Flying("ADD_SESSION", k) \/ Flying("ENTER_LOBBY", k)
    BY <1>1, <1>4, <1>5 DEF Cared, Flying
  <1>6. CASE Under(k, "enter")
    <2>1. PICK t \in LobbyThreads : lpc[t] = "enter" /\ ltask[t].key = k
      BY <1>6 DEF Under, Entering
    <2>2. ltask[t].type = "ENTER_LOBBY" /\ ltask[t] \in LobbyTasksInFlight
      BY <2>1 DEF Watch, EnterSorted, LobbyTasksInFlight
    <2> QED
      BY <1>1, <2>1, <2>2 DEF Cared
  <1>7. CASE EntryIs(k, "ACTIVE") /\ sess[k[1]].mode \in {"LOGIN", "LOBBY"}
    <2>1. InLobby(k) /\ k \in active
      BY <1>2, <1>3, <1>7 DEF Listed, InLobby, EntryMatches, EntryIs
    <2> QED
      BY <1>1, <2>1 DEF Cared
  <1>8. CASE EntryIs(k, "PENDING") /\ sess[k[1]].mode = "LOBBY" /\ ~Under(k, "enter")
    <2>1. EntryMatches(k) /\ entry[k[1]].state = "PENDING" /\ k \in active
      BY <1>3, <1>8 DEF Listed, EntryMatches, EntryIs
    <2> QED
      BY <1>1, <1>8, <2>1 DEF Cared
  <1>9. ASSUME NEW r \in RoomKeys, Sits(r, k) PROVE Cared(k)
    <2>1. Used(r) /\ rooms[r].state # "DELETE_POST"
      BY <1>9, SeatOf DEF Typed
    <2>2. rooms[r].index \in RoomIndices
      BY <2>1 DEF Typed, RoomsOK, RoomOK, LifeOK, Used
    <2>3. InTable(r)
      BY <2>1, <2>2 DEF Placed, TableHere, InTable
    <2> QED
      BY <1>9, <2>3 DEF Cared, Sits
  <1> QED
    BY <1>1, <1>3, <1>5, <1>6, <1>7, <1>8, <1>9 DEF Seen

\* An active session always has somebody who will run its requests, its disconnection included: it
\* waits to be added, the lobby visits it, one of its transitions is under way, a room visits it or
\* the lobby is to take it back.  The code loses it only when its ENTER_LOBBY task overtakes the
\* ROOM_TRANSITION_RESULT before it.
THEOREM SessionsAreCaredFor == Spec => []Reachable
  <1> DEFINE Inv == Typed /\ HoldOK /\ Sorted /\ Owned /\ Placed
  <1>1. Init => Answered /\ Watch
    BY AnsweredInit, WatchInit
  <1>2. Inv /\ Answered /\ Watch /\ [Next]_vars => Answered' /\ Watch'
    BY AnsweredNext, WatchNext
  <1>3. Inv /\ Watch => Reachable
    BY WatchReachable
  <1>4. Spec => []Inv
    BY AlwaysPlaced
  <1> HIDE DEF Inv
  <1> QED
    BY <1>1, <1>2, <1>3, <1>4, PTL DEF Spec
=============================================================================
