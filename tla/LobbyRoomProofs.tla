-------------------------- MODULE LobbyRoomProofs --------------------------
(***************************************************************************)
(* What LobbyRoom keeps at every moment, for any finite sets of slots,     *)
(* threads and room keys, any number of seats and any bounds: its types,   *)
(* the exclusiveness of the processing right, that the lobby keeps nothing *)
(* of a connection that is gone, that every seat belongs to one that       *)
(* exists and knows it, and that a room is deleted by its own task.        *)
(***************************************************************************)
EXTENDS LobbyRoom, FiniteSetTheorems, SequenceTheorems, WellFoundedInduction, TLAPS

----------------------------------------------------------------------------
(* One room. *)

Seat == {EmptySeat} \cup [state : {"PENDING", "ACTIVE"}, key : Key]

Room == [state : {"EMPTY", "WAIT", "PLAY", "WAITING_DELETE", "DELETE_POST"},
         index : RoomIndices \cup {NoIndex}, max : {0, 1, Cardinality(Seats)},
         seats : [Seats -> Seat], count : Nat, host : Key \cup {NoKey},
         tasks : Seq(RoomTask), left : Nat,
         pc : {"unused", "init", "idle", "pending", "claim", "tasks", "seats", "hold", "play"},
         pass : {1, 2}, seat : Seats \cup {0}, held : Key \cup {NoKey}]

Taken(seats) == {n \in Seats : seats[n].state # "EMPTY"}

\* The players of a room: as many as it counts, each on one seat, and active once
\* the room is made.
PlayersOK(room) ==
  /\ room.count = Cardinality(Taken(room.seats))
  /\ \A n, m \in Taken(room.seats) : room.seats[n].key = room.seats[m].key => n = m
  /\ room.pc \notin {"unused", "init"} => \A n \in Taken(room.seats) : room.seats[n].state = "ACTIVE"
  /\ room.state \in {"WAITING_DELETE", "DELETE_POST"} => Taken(room.seats) = {}

\* The life of a room and where its tick is.
LifeOK(room) ==
  /\ room.left <= Len(room.tasks)
  /\ room.pc = "hold" => room.held \in Key
  /\ room.pc \in {"seats", "hold"} => room.seat \in Seats
  /\ room.pc # "unused" => room.index \in RoomIndices /\ room.max \in {1, Cardinality(Seats)}
  /\ room.pc = "unused" => room = NewRoom
  /\ room.pc \in {"unused", "init"} <=> room.state = "EMPTY"
  /\ room.pc = "init" => room.tasks = <<>> /\ Taken(room.seats) = {1} /\ room.seats[1].state = "PENDING"
  /\ room.pc = "play" => room.state = "PLAY"
  /\ room.state = "DELETE_POST" => room.tasks = <<>>

RoomOK(room) == room \in Room /\ PlayersOK(room) /\ LifeOK(room)

\* The seats are an interval, and a non-empty set of seats has a first one.
LEMMA SeatFacts ==
  /\ Cardinality(Seats) \in Nat \ {0} /\ IsFiniteSet(Seats) /\ 1 \in Seats
  /\ Seats = 1..Cardinality(Seats) /\ Seats \subseteq Nat
  <1>1. Cardinality(Seats) \in Nat
    BY SeatsAssumption, FS_CardinalityType
  <1> QED
    BY <1>1, SeatsAssumption

LEMMA FirstSeat ==
  ASSUME NEW S \in SUBSET Seats, S # {}
  PROVE  MinSeat(S) \in S
  <1>1. S \subseteq Nat
    BY SeatFacts
  <1>2. \E n \in S : \A m \in S : ~(<<m, n>> \in OpToRel(<, Nat))
    BY <1>1, NatLessThanWellFounded, WFMin
  <1>3. \A m, n \in Nat : m < n => <<m, n>> \in OpToRel(<, Nat)
    BY Zenon DEF OpToRel
  <1>4. \E n \in S : \A m \in S : ~(m < n)
    BY <1>1, <1>2, <1>3, Zenon
  <1>5. \E n \in S : \A m \in S : n <= m
    BY <1>1, <1>4
  <1> QED
    BY <1>5 DEF MinSeat

\* A room that is made keeps its players while only its tick moves on.
LEMMA SamePlayers ==
  ASSUME NEW room, RoomOK(room), room.pc \notin {"unused", "init"},
         NEW v \in Room, v.seats = room.seats, v.count = room.count,
         v.state = room.state \/ (v.state \in {"WAIT", "PLAY"}) \/ (v.state = "DELETE_POST" /\ room.state = "WAITING_DELETE")
  PROVE  PlayersOK(v)
  BY DEF RoomOK, PlayersOK

\* AddRoomTask.
LEMMA QueuedOK ==
  ASSUME NEW room, RoomOK(room), room.state \in {"WAIT", "PLAY"}, NEW task \in RoomTask
  PROVE  RoomOK([room EXCEPT !.tasks = Append(@, task)])
  <1> DEFINE v == [room EXCEPT !.tasks = Append(room.tasks, task)]
  <1>1. Append(room.tasks, task) \in Seq(RoomTask) /\ Len(Append(room.tasks, task)) = Len(room.tasks) + 1
    BY AppendProperties DEF RoomOK, Room
  <1>2. v \in Room /\ v.tasks = Append(room.tasks, task)
        /\ \A f \in {"state", "index", "max", "seats", "count", "host", "left", "pc", "pass", "seat", "held"} : v[f] = room[f]
    BY <1>1 DEF RoomOK, Room
  <1>3. room.pc \notin {"unused", "init"}
    BY DEF RoomOK, LifeOK
  <1>4. PlayersOK(v)
    BY <1>2, <1>3, SamePlayers
  <1>5. room.left \in Nat /\ Len(room.tasks) \in Nat
    BY LenProperties DEF RoomOK, Room
  <1>6. LifeOK(v)
    BY <1>1, <1>2, <1>3, <1>5 DEF RoomOK, LifeOK
  <1> QED
    BY <1>2, <1>4, <1>6 DEF RoomOK

\* The passes of a tick.
LEMMA BeginPassOK ==
  ASSUME NEW room, RoomOK(room), room.pc \in {"idle", "seats", "hold"}, NEW p \in {1, 2}
  PROVE  /\ RoomOK(BeginPass(room, p)) /\ BeginPass(room, p).pc \in {"pending", "tasks"}
         /\ \A f \in {"state", "index", "max", "seats", "count", "host", "tasks", "held"} : BeginPass(room, p)[f] = room[f]
  <1> DEFINE v == BeginPass(room, p)
             pc == IF room.left > 0 THEN "pending" ELSE "tasks"
             left == IF room.left > 0 THEN room.left ELSE Len(room.tasks)
  <1>1. left \in Nat /\ left <= Len(room.tasks) /\ pc \in {"pending", "tasks"}
    BY LenProperties DEF RoomOK, Room, LifeOK
  <1>2. v = [room EXCEPT !.pass = p, !.seat = 0, !.pc = pc, !.left = left]
    BY DEF BeginPass
  <1> HIDE DEF v, pc, left
  <1>3. v \in Room /\ v.pc = pc /\ v.left = left
        /\ \A f \in {"state", "index", "max", "seats", "count", "host", "tasks", "held"} : v[f] = room[f]
    BY <1>1, <1>2 DEF RoomOK, Room
  <1>4. PlayersOK(v)
    BY <1>3, SamePlayers
  <1>5. LifeOK(v)
    BY <1>1, <1>3 DEF RoomOK, LifeOK
  <1> QED
    BY <1>1, <1>3, <1>4, <1>5 DEF RoomOK, v

LEMMA EndPassOK ==
  ASSUME NEW room, RoomOK(room), room.pc \in {"pending", "tasks"}
  PROVE  /\ RoomOK(EndPass(room)) /\ EndPass(room).pc \in {"seats", "play", "idle"}
         /\ \A f \in {"state", "index", "max", "seats", "count", "host", "tasks", "left", "held"} : EndPass(room)[f] = room[f]
  <1> DEFINE v == EndPass(room)
  <1>1. CASE room.pass = 1
    <2>1. v = [room EXCEPT !.pc = "seats", !.seat = 1]
      BY <1>1 DEF EndPass
    <2> HIDE DEF v
    <2>2. v \in Room /\ v.pc = "seats" /\ v.seat = 1
          /\ \A f \in {"state", "index", "max", "seats", "count", "host", "tasks", "left", "held"} : v[f] = room[f]
      BY <2>1, SeatFacts DEF RoomOK, Room
    <2>3. PlayersOK(v)
      BY <2>2, SamePlayers
    <2>4. LifeOK(v)
      BY <2>2, SeatFacts DEF RoomOK, LifeOK
    <2> QED
      BY <2>2, <2>3, <2>4 DEF RoomOK, v
  <1>2. CASE room.pass # 1
    <2> DEFINE pc == IF room.state = "PLAY" THEN "play" ELSE "idle"
    <2>1. v = [room EXCEPT !.pc = pc, !.pass = 1]
      BY <1>2 DEF EndPass
    <2>2. pc \in {"play", "idle"} /\ (pc = "play" => room.state = "PLAY")
      OBVIOUS
    <2> HIDE DEF v, pc
    <2>3. v \in Room /\ v.pc = pc
          /\ \A f \in {"state", "index", "max", "seats", "count", "host", "tasks", "left", "held"} : v[f] = room[f]
      BY <2>1, <2>2 DEF RoomOK, Room
    <2>4. PlayersOK(v)
      BY <2>3, SamePlayers
    <2>5. LifeOK(v)
      BY <2>2, <2>3 DEF RoomOK, LifeOK
    <2> QED
      BY <2>2, <2>3, <2>4, <2>5 DEF RoomOK, v
  <1> QED
    BY <1>1, <1>2

\* A task at hand is finished.
LEMMA AfterTaskOK ==
  ASSUME NEW room, RoomOK(room), room.pc \in {"pending", "tasks"}, room.left > 0
  PROVE  /\ RoomOK(AfterTask(room)) /\ AfterTask(room).pc \in {"claim", "tasks"}
         /\ room.tasks # <<>> /\ Head(room.tasks) \in RoomTask /\ room.state \notin {"EMPTY", "DELETE_POST"}
         /\ \A f \in {"state", "index", "max", "seats", "count", "host", "pass", "seat", "held"} : AfterTask(room)[f] = room[f]
  <1> DEFINE v == AfterTask(room)
             pc == IF room.pc = "pending" THEN "claim" ELSE room.pc
             left == room.left - 1
  <1>1. room.left \in Nat /\ Len(room.tasks) \in Nat /\ room.left <= Len(room.tasks) /\ room.tasks \in Seq(RoomTask)
    BY LenProperties DEF RoomOK, Room, LifeOK
  <1>2. room.tasks # <<>> /\ Head(room.tasks) \in RoomTask /\ Tail(room.tasks) \in Seq(RoomTask)
        /\ Len(Tail(room.tasks)) = Len(room.tasks) - 1
    BY <1>1, EmptySeq, HeadTailProperties
  <1>3. left \in Nat /\ left <= Len(Tail(room.tasks)) /\ pc \in {"claim", "tasks"}
    BY <1>1, <1>2
  <1>4. v = [room EXCEPT !.tasks = Tail(room.tasks), !.left = left, !.pc = pc]
    BY DEF AfterTask
  <1> HIDE DEF v, pc, left
  <1>5. v \in Room /\ v.tasks = Tail(room.tasks) /\ v.left = left /\ v.pc = pc
        /\ \A f \in {"state", "index", "max", "seats", "count", "host", "pass", "seat", "held"} : v[f] = room[f]
    BY <1>2, <1>3, <1>4 DEF RoomOK, Room
  <1>6. PlayersOK(v)
    BY <1>5, SamePlayers
  <1>7. room.state \notin {"EMPTY", "DELETE_POST"}
    BY <1>2 DEF RoomOK, LifeOK
  <1>8. LifeOK(v)
    BY <1>3, <1>5, <1>7 DEF RoomOK, LifeOK
  <1> QED
    BY <1>2, <1>3, <1>5, <1>6, <1>7, <1>8 DEF RoomOK, v

\* The next seat, or the second pass.
LEMMA NextSeatOK ==
  ASSUME NEW room, RoomOK(room), room.pc \in {"seats", "hold"}
  PROVE  /\ RoomOK(NextSeat(room)) /\ NextSeat(room).pc \in {"seats", "pending", "tasks"}
         /\ \A f \in {"state", "index", "max", "seats", "count", "host", "tasks", "held"} : NextSeat(room)[f] = room[f]
  <1> DEFINE v == NextSeat(room)
  <1>1. CASE room.seat < room.max
    <2>1. v = [room EXCEPT !.pc = "seats", !.seat = room.seat + 1]
      BY <1>1 DEF NextSeat
    <2>2. room.seat + 1 \in Seats
      <3>1. room.seat \in Seats /\ room.max \in {1, Cardinality(Seats)}
        BY DEF RoomOK, LifeOK
      <3> QED
        BY <1>1, <3>1, SeatFacts
    <2> HIDE DEF v
    <2>3. v \in Room /\ v.pc = "seats" /\ v.seat = room.seat + 1
          /\ \A f \in {"state", "index", "max", "seats", "count", "host", "tasks", "left", "held"} : v[f] = room[f]
      BY <2>1, <2>2 DEF RoomOK, Room
    <2>4. PlayersOK(v)
      BY <2>3, SamePlayers
    <2>5. LifeOK(v)
      BY <2>2, <2>3 DEF RoomOK, LifeOK
    <2> QED
      BY <2>3, <2>4, <2>5 DEF RoomOK, v
  <1>2. CASE ~(room.seat < room.max)
    <2>1. v = BeginPass(room, 2)
      BY <1>2 DEF NextSeat
    <2> QED
      BY <2>1, BeginPassOK
  <1> QED
    BY <1>1, <1>2

\* FindNewHost names a player or nobody.
LEMMA NewHostTyped ==
  ASSUME NEW seats \in [Seats -> Seat], NEW c, NEW h \in Key \cup {NoKey}
  PROVE  NewHost(seats, c, h) \in Key \cup {NoKey}
  <1> DEFINE heirs == {n \in Seats : seats[n].state = "ACTIVE" /\ Found(seats[n].key)}
  <1>1. CASE heirs # {}
    <2>1. MinSeat(heirs) \in heirs
      BY <1>1, FirstSeat
    <2>2. seats[MinSeat(heirs)] \in [state : {"PENDING", "ACTIVE"}, key : Key]
      BY <2>1 DEF Seat, EmptySeat
    <2> QED
      BY <1>1, <2>2 DEF NewHost
  <1>2. CASE heirs = {}
    BY <1>2 DEF NewHost
  <1> QED
    BY <1>1, <1>2

\* The seats once k has left.
SeatsWithout(room, k) == [n \in Seats |-> IF room.seats[n].key = k THEN EmptySeat ELSE room.seats[n]]

\* CompletePlayerRemoval: one player less, and the room begins its deletion with
\* the last one.
LEMMA RemovedFromOK ==
  ASSUME NEW room, RoomOK(room), room.pc \notin {"unused", "init", "play"}, NEW k \in Key
  PROVE  /\ RoomOK(RemovedFrom(room, k)) /\ RemovedFrom(room, k).seats = SeatsWithout(room, k)
         /\ \A f \in {"index", "max", "tasks", "left", "pc", "pass", "seat", "held"} : RemovedFrom(room, k)[f] = room[f]
         /\ RemovedFrom(room, k).state \in {room.state, "WAITING_DELETE"}
  <1> DEFINE seats == SeatsWithout(room, k)
             v == RemovedFrom(room, k)
  <1>1. room \in Room /\ room.seats \in [Seats -> Seat] /\ seats \in [Seats -> Seat]
    BY DEF RoomOK, Room, Seat, SeatsWithout
  <1>2. CASE seats = room.seats
    BY <1>2 DEF RemovedFrom, SeatsWithout
  <1>3. CASE seats # room.seats
    <2> DEFINE st == IF room.count = 1 THEN "WAITING_DELETE" ELSE room.state
               host == IF room.host = k THEN NewHost(seats, room.count - 1, room.host) ELSE room.host
               c == room.count - 1
    <2>1. v = [room EXCEPT !.seats = seats, !.count = c, !.state = st, !.host = host]
      BY <1>3 DEF RemovedFrom, SeatsWithout
    <2>2. PICK n \in Seats : room.seats[n].key = k
      <3>1. seats = [n \in Seats |-> IF room.seats[n].key = k THEN EmptySeat ELSE room.seats[n]]
        BY DEF SeatsWithout
      <3> QED
        BY <1>1, <1>3, <3>1
    <2>3. n \in Taken(room.seats)
      <3>1. k # NoKey /\ room.seats[n] \in Seat
        BY <1>1, NamesAssumption
      <3> QED
        BY <2>2, <3>1 DEF Taken, Seat, EmptySeat
    <2>4. \A m \in Seats : room.seats[m].key = k <=> m = n
      <3>1. ASSUME NEW m \in Seats, room.seats[m].key = k PROVE m = n
        <4>1. k # NoKey /\ room.seats[m] \in Seat
          BY <1>1, NamesAssumption
        <4>2. m \in Taken(room.seats)
          BY <3>1, <4>1 DEF Taken, Seat, EmptySeat
        <4> QED
          BY <2>2, <2>3, <3>1, <4>2 DEF RoomOK, PlayersOK
      <3> QED
        BY <2>2, <3>1
    <2>5. \A m \in Seats : seats[m] = IF m = n THEN EmptySeat ELSE room.seats[m]
      BY <2>4 DEF SeatsWithout
    <2> HIDE DEF seats
    <2>6. Taken(seats) = Taken(room.seats) \ {n}
      BY <2>5 DEF Taken, EmptySeat
    <2>7. IsFiniteSet(Taken(room.seats))
      BY SeatFacts, FS_Subset DEF Taken
    <2>8. c = Cardinality(Taken(seats)) /\ c \in Nat
      <3>1. Cardinality(Taken(seats)) = Cardinality(Taken(room.seats)) - 1
        BY <2>3, <2>6, <2>7, FS_RemoveElement
      <3>2. IsFiniteSet(Taken(seats))
        BY <2>6, <2>7, FS_RemoveElement
      <3>3. Cardinality(Taken(seats)) \in Nat
        BY <3>2, FS_CardinalityType
      <3>4. room.count = Cardinality(Taken(room.seats))
        BY DEF RoomOK, PlayersOK
      <3> QED
        BY <3>1, <3>3, <3>4
    <2>9. host \in Key \cup {NoKey} /\ st \in {"WAIT", "PLAY", "WAITING_DELETE"}
      <3>1. room.host \in Key \cup {NoKey}
        BY DEF RoomOK, Room
      <3>2. host \in Key \cup {NoKey}
        BY <1>1, <3>1, NewHostTyped DEF seats
      <3>3. room.state \in {"WAIT", "PLAY"}
        BY <1>1, <2>3 DEF RoomOK, PlayersOK, LifeOK, Room
      <3> QED
        BY <3>2, <3>3
    <2>10. st = "WAITING_DELETE" => Taken(seats) = {}
      <3>1. room.state # "WAITING_DELETE"
        BY <2>3 DEF RoomOK, PlayersOK
      <3>2. ASSUME room.count = 1 PROVE Taken(seats) = {}
        <4>1. Cardinality(Taken(seats)) = 0
          BY <2>8, <3>2
        <4>2. IsFiniteSet(Taken(seats))
          BY <2>6, <2>7, FS_RemoveElement
        <4> QED
          BY <4>1, <4>2, FS_EmptySet
      <3> QED
        BY <3>1, <3>2
    <2>13. st = room.state \/ st = "WAITING_DELETE"
      OBVIOUS
    <2> HIDE DEF v, st, host, c
    <2>11. v \in Room /\ v.seats = seats /\ v.count = c /\ v.state = st /\ v.host = host
           /\ \A f \in {"index", "max", "tasks", "left", "pc", "pass", "seat", "held"} : v[f] = room[f]
      BY <1>1, <2>1, <2>8, <2>9 DEF Room
    <2>12. PlayersOK(v)
      <3>1. \A a, b \in Taken(seats) : seats[a].key = seats[b].key => a = b
        BY <2>5, <2>6 DEF RoomOK, PlayersOK, Taken
      <3>2. \A a \in Taken(seats) : seats[a].state = "ACTIVE"
        BY <2>5, <2>6 DEF RoomOK, PlayersOK, Taken
      <3> QED
        BY <2>8, <2>9, <2>10, <2>11, <3>1, <3>2 DEF PlayersOK
    <2>14. LifeOK(v)
      BY <2>9, <2>11, <2>13 DEF RoomOK, LifeOK
    <2>15. RoomOK(v) /\ v.seats = SeatsWithout(room, k) /\ v.state \in {room.state, "WAITING_DELETE"}
           /\ \A f \in {"index", "max", "tasks", "left", "pc", "pass", "seat", "held"} : v[f] = room[f]
      BY <2>11, <2>12, <2>13, <2>14 DEF RoomOK, seats
    <2> QED
      BY <2>15 DEF v
  <1> QED
    BY <1>2, <1>3

\* AddPlayer: the player gets the first free seat.
LEMMA SeatPlayerOK ==
  ASSUME NEW room, RoomOK(room), room.pc \notin {"unused", "init"}, room.state = "WAIT",
         NEW k \in Key, \A n \in Taken(room.seats) : room.seats[n].key # k, FreeSeats(room) # {}
  PROVE  /\ RoomOK(SeatPlayer(room, k))
         /\ \E n \in FreeSeats(room) : SeatPlayer(room, k).seats = [room.seats EXCEPT ![n] = [state |-> "ACTIVE", key |-> k]]
         /\ FreeSeats(room) \subseteq Seats \ Taken(room.seats)
         /\ \A f \in {"state", "index", "max", "host", "tasks", "left", "pc", "pass", "seat", "held"} :
                 SeatPlayer(room, k)[f] = room[f]
  <1> DEFINE n == MinSeat(FreeSeats(room))
             seats == [room.seats EXCEPT ![n] = [state |-> "ACTIVE", key |-> k]]
             c == room.count + 1
             v == SeatPlayer(room, k)
  <1>1. FreeSeats(room) \subseteq Seats \ Taken(room.seats)
    <2>1. room.max \in {1, Cardinality(Seats)}
      BY DEF RoomOK, LifeOK
    <2>2. 1..room.max \subseteq Seats
      BY <2>1, SeatFacts
    <2> QED
      BY <2>2 DEF FreeSeats, Taken
  <1>2. n \in Seats /\ n \notin Taken(room.seats) /\ n \in FreeSeats(room)
    BY <1>1, FirstSeat
  <1>3. v = [room EXCEPT !.seats = seats, !.count = c]
    <2>1. room \in Room
      BY DEF RoomOK
    <2> QED
      BY <2>1 DEF SeatPlayer, Room
  <1> HIDE DEF n, v
  <1>4. seats \in [Seats -> Seat]
    BY <1>2 DEF RoomOK, Room, Seat
  <1>5. Taken(seats) = Taken(room.seats) \cup {n}
    <2>1. room.seats \in [Seats -> Seat]
      BY DEF RoomOK, Room
    <2> QED
      BY <1>2, <2>1 DEF Taken
  <1>6. c = Cardinality(Taken(seats)) /\ c \in Nat
    <2>1. IsFiniteSet(Taken(room.seats))
      BY SeatFacts, FS_Subset DEF Taken
    <2>2. Cardinality(Taken(seats)) = Cardinality(Taken(room.seats)) + 1
      BY <1>2, <1>5, <2>1, FS_AddElement
    <2>3. room.count = Cardinality(Taken(room.seats)) /\ room.count \in Nat
      BY DEF RoomOK, PlayersOK, Room
    <2> QED
      BY <2>2, <2>3
  <1>7. \A m \in Seats : seats[m] = IF m = n THEN [state |-> "ACTIVE", key |-> k] ELSE room.seats[m]
    BY DEF RoomOK, Room
  <1> HIDE DEF seats, c
  <1>8. v \in Room /\ v.seats = seats /\ v.count = c
        /\ \A f \in {"state", "index", "max", "host", "tasks", "left", "pc", "pass", "seat", "held"} : v[f] = room[f]
    BY <1>3, <1>4, <1>6 DEF RoomOK, Room
  <1>9. PlayersOK(v)
    <2>1. \A a, b \in Taken(seats) : seats[a].key = seats[b].key => a = b
      BY <1>5, <1>7 DEF RoomOK, PlayersOK, Taken
    <2>2. \A a \in Taken(seats) : seats[a].state = "ACTIVE"
      BY <1>5, <1>7 DEF RoomOK, PlayersOK, Taken
    <2> QED
      BY <1>6, <1>8, <2>1, <2>2 DEF PlayersOK
  <1>10. LifeOK(v)
    BY <1>8 DEF RoomOK, LifeOK
  <1>11. \E m \in FreeSeats(room) : v.seats = [room.seats EXCEPT ![m] = [state |-> "ACTIVE", key |-> k]]
    BY <1>2, <1>8 DEF seats
  <1> QED
    BY <1>1, <1>8, <1>9, <1>10, <1>11 DEF RoomOK, v

\* START, GIVE_UP, the end of a game and TryPostRoomDelete change the state only.
WithState(room, st) == [room EXCEPT !.state = st]

LEMMA StateOK ==
  ASSUME NEW room, RoomOK(room), room.pc \notin {"unused", "init", "play"}, NEW st,
         \/ st = room.state
         \/ st \in {"WAIT", "PLAY"} /\ room.state \in {"WAIT", "PLAY"}
         \/ st = "DELETE_POST" /\ room.state = "WAITING_DELETE" /\ room.tasks = <<>>
  PROVE  /\ RoomOK(WithState(room, st)) /\ WithState(room, st).state = st
         /\ \A f \in {"index", "max", "seats", "count", "host", "tasks", "left", "pc", "pass", "seat", "held"} :
                 WithState(room, st)[f] = room[f]
  <1> DEFINE v == WithState(room, st)
  <1>1. v \in Room /\ v.state = st
        /\ \A f \in {"index", "max", "seats", "count", "host", "tasks", "left", "pc", "pass", "seat", "held"} : v[f] = room[f]
    BY DEF RoomOK, Room, WithState
  <1> HIDE DEF v
  <1>2. PlayersOK(v)
    BY <1>1, SamePlayers
  <1>3. LifeOK(v)
    BY <1>1 DEF RoomOK, LifeOK
  <1> QED
    BY <1>1, <1>2, <1>3 DEF RoomOK, v

\* The steps of a tick that only move its program point.
IdleIn(room, st) == [room EXCEPT !.pc = "idle", !.state = st]
Visits(room, k) == [room EXCEPT !.pc = "hold", !.held = k]

LEMMA IdleInOK ==
  ASSUME NEW room, RoomOK(room), room.pc = "play", NEW st \in {"WAIT", "PLAY"}
  PROVE  /\ RoomOK(IdleIn(room, st)) /\ IdleIn(room, st).pc = "idle" /\ IdleIn(room, st).state = st
         /\ \A f \in {"index", "max", "seats", "count", "host", "tasks", "left", "pass", "seat", "held"} :
                 IdleIn(room, st)[f] = room[f]
  <1> DEFINE v == IdleIn(room, st)
  <1>1. v \in Room /\ v.pc = "idle" /\ v.state = st
        /\ \A f \in {"index", "max", "seats", "count", "host", "tasks", "left", "pass", "seat", "held"} : v[f] = room[f]
    BY DEF RoomOK, Room, IdleIn
  <1> HIDE DEF v
  <1>2. PlayersOK(v)
    BY <1>1, SamePlayers
  <1>3. LifeOK(v)
    BY <1>1 DEF RoomOK, LifeOK
  <1> QED
    BY <1>1, <1>2, <1>3 DEF RoomOK, v

LEMMA VisitsOK ==
  ASSUME NEW room, RoomOK(room), room.pc = "seats", NEW k \in Key
  PROVE  /\ RoomOK(Visits(room, k)) /\ Visits(room, k).pc = "hold" /\ Visits(room, k).held = k
         /\ \A f \in {"state", "index", "max", "seats", "count", "host", "tasks", "left", "pass", "seat"} :
                 Visits(room, k)[f] = room[f]
  <1> DEFINE v == Visits(room, k)
  <1>1. v \in Room /\ v.pc = "hold" /\ v.held = k
        /\ \A f \in {"state", "index", "max", "seats", "count", "host", "tasks", "left", "pass", "seat"} : v[f] = room[f]
    BY DEF RoomOK, Room, Visits
  <1> HIDE DEF v
  <1>2. PlayersOK(v)
    BY <1>1, SamePlayers
  <1>3. LifeOK(v)
    BY <1>1 DEF RoomOK, LifeOK
  <1> QED
    BY <1>1, <1>2, <1>3 DEF RoomOK, v

LEMMA TickOK ==
  ASSUME NEW room, RoomOK(room)
  PROVE  /\ room.pc = "claim" =>
               /\ RoomOK([room EXCEPT !.pc = "tasks", !.left = Len(room.tasks)])
               /\ [room EXCEPT !.pc = "tasks", !.left = Len(room.tasks)].pc = "tasks"
               /\ \A f \in {"state", "index", "max", "seats", "count", "host", "tasks", "pass", "seat", "held"} :
                      [room EXCEPT !.pc = "tasks", !.left = Len(room.tasks)][f] = room[f]
         /\ room.pc \in {"seats", "play", "idle"} /\ room.tasks # <<>> =>
               /\ RoomOK([room EXCEPT !.left = 1])
               /\ \A f \in {"state", "index", "max", "seats", "count", "host", "tasks", "pc", "pass", "seat", "held"} :
                      [room EXCEPT !.left = 1][f] = room[f]
         /\ room.pc # "hold" /\ room.pc # "unused" =>
               /\ RoomOK([room EXCEPT !.held = NoKey])
               /\ \A f \in {"state", "index", "max", "seats", "count", "host", "tasks", "left", "pc", "pass", "seat"} :
                      [room EXCEPT !.held = NoKey][f] = room[f]
  <1>0. room.left \in Nat /\ Len(room.tasks) \in Nat /\ room.tasks \in Seq(RoomTask)
    BY LenProperties DEF RoomOK, Room
  <1>1. ASSUME room.pc = "claim"
        PROVE  /\ RoomOK([room EXCEPT !.pc = "tasks", !.left = Len(room.tasks)])
               /\ [room EXCEPT !.pc = "tasks", !.left = Len(room.tasks)].pc = "tasks"
               /\ \A f \in {"state", "index", "max", "seats", "count", "host", "tasks", "pass", "seat", "held"} :
                      [room EXCEPT !.pc = "tasks", !.left = Len(room.tasks)][f] = room[f]
    <2> DEFINE v == [room EXCEPT !.pc = "tasks", !.left = Len(room.tasks)]
    <2>1. v \in Room /\ v.pc = "tasks" /\ v.left = Len(room.tasks)
          /\ \A f \in {"state", "index", "max", "seats", "count", "host", "tasks", "pass", "seat", "held"} : v[f] = room[f]
      BY <1>0 DEF RoomOK, Room
    <2> HIDE DEF v
    <2>2. PlayersOK(v)
      BY <1>1, <2>1, SamePlayers
    <2>3. LifeOK(v)
      BY <1>0, <1>1, <2>1 DEF RoomOK, LifeOK
    <2> QED
      BY <2>1, <2>2, <2>3 DEF RoomOK, v
  <1>2. ASSUME room.pc \in {"seats", "play", "idle"}, room.tasks # <<>>
        PROVE  /\ RoomOK([room EXCEPT !.left = 1])
               /\ \A f \in {"state", "index", "max", "seats", "count", "host", "tasks", "pc", "pass", "seat", "held"} :
                      [room EXCEPT !.left = 1][f] = room[f]
    <2> DEFINE v == [room EXCEPT !.left = 1]
    <2>1. v \in Room /\ v.left = 1
          /\ \A f \in {"state", "index", "max", "seats", "count", "host", "tasks", "pc", "pass", "seat", "held"} : v[f] = room[f]
      BY DEF RoomOK, Room
    <2> HIDE DEF v
    <2>2. PlayersOK(v)
      BY <1>2, <2>1, SamePlayers
    <2>3. 1 <= Len(room.tasks)
      BY <1>0, <1>2, EmptySeq
    <2>4. LifeOK(v)
      BY <1>2, <2>1, <2>3 DEF RoomOK, LifeOK
    <2> QED
      BY <2>1, <2>2, <2>4 DEF RoomOK, v
  <1>5. ASSUME room.pc # "hold", room.pc # "unused"
        PROVE  /\ RoomOK([room EXCEPT !.held = NoKey])
               /\ \A f \in {"state", "index", "max", "seats", "count", "host", "tasks", "left", "pc", "pass", "seat"} :
                      [room EXCEPT !.held = NoKey][f] = room[f]
    <2> DEFINE v == [room EXCEPT !.held = NoKey]
    <2>1. v \in Room
          /\ \A f \in {"state", "index", "max", "seats", "count", "host", "tasks", "left", "pc", "pass", "seat"} : v[f] = room[f]
      BY DEF RoomOK, Room
    <2> HIDE DEF v
    <2>2. PlayersOK(v)
      BY <1>5, <2>1 DEF RoomOK, PlayersOK
    <2>3. LifeOK(v)
      BY <1>5, <2>1 DEF RoomOK, LifeOK
    <2> QED
      BY <2>1, <2>2, <2>3 DEF RoomOK, v
  <1> QED
    BY <1>1, <1>2, <1>5

\* InitHostSession: the room CreateRoom makes of an unused key.
MadeRoom(i, max, k) ==
  [state |-> "EMPTY", index |-> i, max |-> max,
   seats |-> [n \in Seats |-> IF n = 1 THEN [state |-> "PENDING", key |-> k] ELSE EmptySeat],
   count |-> 1, host |-> k, tasks |-> <<>>, left |-> 0, pc |-> "init", pass |-> 1, seat |-> 0, held |-> NoKey]

LEMMA MadeRoomOK ==
  ASSUME NEW i \in RoomIndices, NEW max \in {1, Cardinality(Seats)}, NEW k \in Key
  PROVE  RoomOK(MadeRoom(i, max, k)) /\ Taken(MadeRoom(i, max, k).seats) = {1}
  <1> DEFINE v == MadeRoom(i, max, k)
             seats == [n \in Seats |-> IF n = 1 THEN [state |-> "PENDING", key |-> k] ELSE EmptySeat]
  <1>1. seats \in [Seats -> Seat]
    BY DEF Seat
  <1>2. Taken(seats) = {1} /\ seats[1] = [state |-> "PENDING", key |-> k]
    BY SeatFacts DEF Taken, EmptySeat
  <1>3. <<>> \in Seq(RoomTask) /\ Len(<<>>) = 0
    BY EmptySeq
  <1>4. v \in Room
    BY <1>1, <1>3 DEF MadeRoom, Room
  <1>5. v.seats = seats /\ v.count = 1 /\ v.pc = "init" /\ v.state = "EMPTY" /\ v.tasks = <<>> /\ v.left = 0
        /\ v.index = i /\ v.max = max
    BY DEF MadeRoom
  <1> HIDE DEF seats, v
  <1>6. PlayersOK(v)
    BY <1>2, <1>5, FS_Singleton DEF PlayersOK
  <1>7. LifeOK(v)
    BY <1>2, <1>3, <1>5 DEF LifeOK
  <1> QED
    BY <1>2, <1>4, <1>5, <1>6, <1>7 DEF RoomOK, v

\* CompleteRoomInitialization: the host is ACTIVE and the room waits for its game.
ReadyRoom(room) == [room EXCEPT !.seats[1].state = "ACTIVE", !.state = "WAIT", !.pc = "idle"]

LEMMA ReadyRoomOK ==
  ASSUME NEW room, RoomOK(room), room.pc = "init"
  PROVE  /\ RoomOK(ReadyRoom(room)) /\ ReadyRoom(room).pc = "idle" /\ ReadyRoom(room).state = "WAIT"
         /\ Taken(ReadyRoom(room).seats) = {1} /\ ReadyRoom(room).seats[1].key = room.seats[1].key
         /\ \A n \in Seats : ReadyRoom(room).seats[n].key = room.seats[n].key
         /\ \A f \in {"index", "max", "count", "host", "tasks", "left", "pass", "seat", "held"} :
                 ReadyRoom(room)[f] = room[f]
  <1> DEFINE v == ReadyRoom(room)
             seats == [room.seats EXCEPT ![1].state = "ACTIVE"]
  <1>0. room \in Room /\ room.seats \in [Seats -> Seat] /\ 1 \in Seats
    BY SeatFacts DEF RoomOK, Room
  <1>1. Taken(room.seats) = {1} /\ room.tasks = <<>> /\ room.state = "EMPTY"
    BY DEF RoomOK, LifeOK
  <1>2. room.seats[1] \in [state : {"PENDING", "ACTIVE"}, key : Key]
    BY <1>0, <1>1 DEF Taken, Seat, EmptySeat
  <1>3. seats \in [Seats -> Seat]
    BY <1>0, <1>2 DEF Seat
  <1>4. \A n \in Seats : seats[n].key = room.seats[n].key /\ seats[n].state = IF n = 1 THEN "ACTIVE" ELSE room.seats[n].state
    BY <1>0, <1>2
  <1>5. v = [room EXCEPT !.seats = seats, !.state = "WAIT", !.pc = "idle"]
    BY <1>0 DEF ReadyRoom, Room
  <1> HIDE DEF seats, v
  <1>6. Taken(seats) = {1}
    BY <1>0, <1>1, <1>4 DEF Taken
  <1>7. v \in Room /\ v.seats = seats /\ v.state = "WAIT" /\ v.pc = "idle"
        /\ \A f \in {"index", "max", "count", "host", "tasks", "left", "pass", "seat", "held"} : v[f] = room[f]
    BY <1>0, <1>3, <1>5 DEF Room
  <1>8. PlayersOK(v)
    <2>1. v.count = Cardinality(Taken(v.seats))
      BY <1>1, <1>6, <1>7 DEF RoomOK, PlayersOK
    <2>2. \A n \in Taken(v.seats) : n = 1 /\ v.seats[n].state = "ACTIVE"
      BY <1>0, <1>4, <1>6, <1>7
    <2> QED
      BY <1>7, <2>1, <2>2 DEF PlayersOK
  <1>9. LifeOK(v)
    BY <1>1, <1>7 DEF RoomOK, LifeOK
  <1> QED
    BY <1>0, <1>4, <1>6, <1>7, <1>8, <1>9 DEF RoomOK, v

LEMMA NewRoomOK == RoomOK(NewRoom)
  <1>1. <<>> \in Seq(RoomTask) /\ Len(<<>>) = 0
    BY EmptySeq
  <1>2. NewRoom \in Room
    BY <1>1 DEF NewRoom, Room, Seat
  <1>3. Taken(NewRoom.seats) = {}
    BY DEF Taken, NewRoom, EmptySeat
  <1>4. NewRoom.count = 0 /\ NewRoom.pc = "unused" /\ NewRoom.state = "EMPTY" /\ NewRoom.left = 0 /\ NewRoom.tasks = <<>>
    BY DEF NewRoom
  <1>5. PlayersOK(NewRoom)
    BY <1>3, <1>4, FS_EmptySet DEF PlayersOK
  <1>6. LifeOK(NewRoom)
    BY <1>1, <1>4 DEF LifeOK
  <1> QED
    BY <1>2, <1>5, <1>6 DEF RoomOK

----------------------------------------------------------------------------
(* Keys, tasks and queues. *)

LEMMA KeyFacts ==
  /\ \A k \in Key : k[1] \in Slots /\ k[2] \in Ids /\ k = <<k[1], k[2]>>
  /\ \A s \in Slots, n \in Ids : <<s, n>> \in Key /\ <<s, n>>[1] = s /\ <<s, n>>[2] = n
  /\ 0 \in Ids /\ Ids \subseteq Nat
  BY BoundsAssumption DEF Key, Ids

LEMMA TaskTypes ==
  ASSUME NEW k \in Key
  PROVE  /\ \A type \in LobbyTaskType :
              LTask(type, k) \in LobbyTask /\ LTask(type, k).type = type /\ LTask(type, k).key = k
         /\ \A type \in LobbyTaskType, i \in RoomIndices :
              /\ [LTask(type, k) EXCEPT !.room = i] \in LobbyTask
              /\ [LTask(type, k) EXCEPT !.room = i].type = type /\ [LTask(type, k) EXCEPT !.room = i].key = k
         /\ \A ok, match \in BOOLEAN :
              /\ TransitionResult(k, ok, match) \in LobbyTask
              /\ TransitionResult(k, ok, match).type = "ROOM_TRANSITION_RESULT"
              /\ TransitionResult(k, ok, match).key = k
  <1>1. NoIndex \in RoomIndices \cup {NoIndex}
    OBVIOUS
  <1>2. ASSUME NEW type \in LobbyTaskType
        PROVE  LTask(type, k) \in LobbyTask /\ LTask(type, k).type = type /\ LTask(type, k).key = k
    BY DEF LTask, LobbyTask
  <1>3. ASSUME NEW type \in LobbyTaskType, NEW i \in RoomIndices
        PROVE  /\ [LTask(type, k) EXCEPT !.room = i] \in LobbyTask
               /\ [LTask(type, k) EXCEPT !.room = i].type = type /\ [LTask(type, k) EXCEPT !.room = i].key = k
    BY DEF LTask, LobbyTask
  <1>4. ASSUME NEW ok \in BOOLEAN, NEW match \in BOOLEAN
        PROVE  /\ TransitionResult(k, ok, match) \in LobbyTask
               /\ TransitionResult(k, ok, match).type = "ROOM_TRANSITION_RESULT"
               /\ TransitionResult(k, ok, match).key = k
    BY DEF TransitionResult, LTask, LobbyTask, LobbyTaskType
  <1> QED
    BY <1>2, <1>3, <1>4

LEMMA RoomTaskTypes ==
  ASSUME NEW k \in Key
  PROVE  /\ \A type \in {"JOIN", "REMOVE_PLAYER", "KICK", "START", "GIVE_UP"} :
              RTask(type, k) \in RoomTask /\ RTask(type, k).type = type /\ RTask(type, k).key = k
         /\ \A type \in {"JOIN", "REMOVE_PLAYER", "KICK", "START", "GIVE_UP"}, target \in Key \cup {NoKey} :
              /\ [RTask(type, k) EXCEPT !.target = target] \in RoomTask
              /\ [RTask(type, k) EXCEPT !.target = target].key = k
         /\ \A match \in BOOLEAN :
              /\ [RTask("JOIN", k) EXCEPT !.match = match] \in RoomTask
              /\ [RTask("JOIN", k) EXCEPT !.match = match].key = k
  BY DEF RTask, RoomTask

\* What a queue holds when a task is added at its end or taken from its head.
LEMMA QueueFacts ==
  ASSUME NEW S, NEW seq \in Seq(S)
  PROVE  /\ \A x \in S : TasksOf(Append(seq, x)) = TasksOf(seq) \cup {x}
         /\ seq # <<>> => Head(seq) \in TasksOf(seq) /\ TasksOf(Tail(seq)) \subseteq TasksOf(seq)
         /\ TasksOf(seq) \subseteq S
  <1>1. Len(seq) \in Nat /\ DOMAIN seq = 1..Len(seq) /\ \A n \in 1..Len(seq) : seq[n] \in S
    BY LenProperties, ElementOfSeq
  <1>2. ASSUME NEW x \in S PROVE TasksOf(Append(seq, x)) = TasksOf(seq) \cup {x}
    <2> DEFINE new == Append(seq, x)
    <2>1. Len(new) = Len(seq) + 1 /\ new[Len(seq) + 1] = x /\ \A n \in 1..Len(seq) : new[n] = seq[n]
      BY AppendProperties
    <2>2. DOMAIN new = 1..(Len(seq) + 1)
      BY <2>1, AppendProperties, LenProperties
    <2> HIDE DEF new
    <2>3. 1..(Len(seq) + 1) = (1..Len(seq)) \cup {Len(seq) + 1}
      BY <1>1
    <2>5. \A y : y \in TasksOf(new) <=> \E n \in 1..(Len(seq) + 1) : y = new[n]
      BY <2>2 DEF TasksOf
    <2>6. \A y : y \in TasksOf(seq) <=> \E n \in 1..Len(seq) : y = seq[n]
      BY <1>1 DEF TasksOf
    <2>7. \A y : y \in TasksOf(new) <=> y \in TasksOf(seq) \/ y = x
      BY <2>1, <2>3, <2>5, <2>6
    <2>4. TasksOf(new) = TasksOf(seq) \cup {x}
      BY <2>7
    <2> QED
      BY <2>4 DEF new
  <1>3. ASSUME seq # <<>> PROVE Head(seq) \in TasksOf(seq) /\ TasksOf(Tail(seq)) \subseteq TasksOf(seq)
    <2>1. Tail(seq) \in Seq(S) /\ Len(Tail(seq)) = Len(seq) - 1 /\ \A n \in 1..Len(Tail(seq)) : Tail(seq)[n] = seq[n + 1]
      BY <1>3, HeadTailProperties
    <2>2. DOMAIN Tail(seq) = 1..(Len(seq) - 1)
      BY <2>1, LenProperties
    <2>3. Len(seq) \in Nat \ {0}
      BY <1>3, EmptySeq
    <2>4. Head(seq) = seq[1] /\ 1 \in 1..Len(seq)
      BY <1>3, <2>3
    <2>5. \A n \in 1..(Len(seq) - 1) : n + 1 \in 1..Len(seq) /\ Tail(seq)[n] = seq[n + 1]
      BY <2>1, <2>3
    <2>6. \A y : y \in TasksOf(seq) <=> \E n \in 1..Len(seq) : y = seq[n]
      BY <1>1 DEF TasksOf
    <2>7. \A y : y \in TasksOf(Tail(seq)) <=> \E n \in 1..(Len(seq) - 1) : y = Tail(seq)[n]
      BY <2>2 DEF TasksOf
    <2>8. Head(seq) \in TasksOf(seq)
      BY <2>4, <2>6
    <2>9. TasksOf(Tail(seq)) \subseteq TasksOf(seq)
      BY <2>5, <2>6, <2>7
    <2> QED
      BY <2>8, <2>9
  <1>4. TasksOf(seq) \subseteq S
    BY <1>1 DEF TasksOf
  <1> QED
    BY <1>2, <1>3, <1>4

----------------------------------------------------------------------------
(* The rooms. *)

RoomsOK == rooms \in [RoomKeys -> Room] /\ \A r \in RoomKeys : RoomOK(rooms[r])

\* A step of a room that leaves its players, its place and its host alone.
Quiet(room, v) ==
  /\ RoomOK(v) /\ room.pc \notin {"unused", "init"} /\ v.pc \notin {"unused", "init"}
  /\ \A f \in {"seats", "index", "host", "count"} : v[f] = room[f]
  /\ \/ v.state = room.state
     \/ v.state \in {"WAIT", "PLAY"} /\ room.state \in {"WAIT", "PLAY"}

\* The room still holds the session it held.
HoldKept(room, v) == (v.pc = "hold" <=> room.pc = "hold") /\ v.held = room.held

\* Some room moves on quietly.
QuietStep(r) == \E v : Quiet(rooms[r], v) /\ rooms' = [rooms EXCEPT ![r] = v]
QuietKept(r) == \E v : Quiet(rooms[r], v) /\ HoldKept(rooms[r], v) /\ rooms' = [rooms EXCEPT ![r] = v]

LEMMA QueuedQuiet ==
  ASSUME RoomsOK, NEW r \in RoomKeys, AcceptsTasks(r), NEW task \in RoomTask,
         rooms' = AddRoomTask(rooms, r, task)
  PROVE  QuietKept(r)
  <1> DEFINE room == rooms[r]
             v == [room EXCEPT !.tasks = Append(room.tasks, task)]
  <1>1. RoomOK(room) /\ room.state \in {"WAIT", "PLAY"} /\ room \in Room
    BY DEF RoomsOK, AcceptsTasks
  <1>2. RoomOK(v)
    BY <1>1, QueuedOK
  <1>3. \A f \in {"state", "index", "max", "seats", "count", "host", "left", "pc", "pass", "seat", "held"} : v[f] = room[f]
    BY <1>1 DEF Room
  <1>4. room.pc \notin {"unused", "init"}
    BY <1>1 DEF RoomOK, LifeOK
  <1>5. rooms' = [rooms EXCEPT ![r] = v]
    BY DEF AddRoomTask
  <1> HIDE DEF v
  <1>6. Quiet(room, v) /\ HoldKept(room, v)
    BY <1>1, <1>2, <1>3, <1>4 DEF Quiet, HoldKept
  <1> QED
    BY <1>5, <1>6 DEF QuietKept

LEMMA TickQuiet ==
  ASSUME RoomsOK, NEW r \in RoomKeys, BeginTick(r) \/ ClaimTasks(r) \/ KeepPending(r)
  PROVE  QuietKept(r)
  <1> DEFINE room == rooms[r]
  <1>1. RoomOK(room)
    BY DEF RoomsOK
  <1>2. CASE BeginTick(r)
    <2> DEFINE v == BeginPass(room, 1)
    <2>1. room.pc = "idle" /\ rooms' = [rooms EXCEPT ![r] = v]
      BY <1>2 DEF BeginTick
    <2>2. RoomOK(v) /\ v.pc \in {"pending", "tasks"}
          /\ \A f \in {"state", "index", "max", "seats", "count", "host", "tasks", "held"} : v[f] = room[f]
      BY <1>1, <2>1, BeginPassOK
    <2> HIDE DEF v
    <2>3. Quiet(room, v) /\ HoldKept(room, v)
      BY <2>1, <2>2 DEF Quiet, HoldKept
    <2> QED
      BY <2>1, <2>3 DEF QuietKept
  <1>3. CASE ClaimTasks(r)
    <2> DEFINE v == [room EXCEPT !.pc = "tasks", !.left = Len(room.tasks)]
    <2>1. room.pc = "claim" /\ rooms' = [rooms EXCEPT ![r] = v]
      BY <1>3 DEF ClaimTasks, RoomsOK
    <2>2. RoomOK(v) /\ v.pc = "tasks"
          /\ \A f \in {"state", "index", "max", "seats", "count", "host", "tasks", "pass", "seat", "held"} : v[f] = room[f]
      BY <1>1, <2>1, TickOK
    <2> HIDE DEF v
    <2>3. Quiet(room, v) /\ HoldKept(room, v)
      BY <2>1, <2>2 DEF Quiet, HoldKept
    <2> QED
      BY <2>1, <2>3 DEF QuietKept
  <1>4. CASE KeepPending(r)
    <2> DEFINE u == EndPass(room)
               v == [u EXCEPT !.left = 1]
    <2>1. room.pc \in {"pending", "tasks"} /\ room.left > 0 /\ rooms' = [rooms EXCEPT ![r] = v]
      BY <1>4 DEF KeepPending, AtTask, Kept
    <2>2. RoomOK(u) /\ u.pc \in {"seats", "play", "idle"}
          /\ \A f \in {"state", "index", "max", "seats", "count", "host", "tasks", "left", "held"} : u[f] = room[f]
      BY <1>1, <2>1, EndPassOK
    <2>3. room.tasks # <<>>
      BY <1>1, <2>1, AfterTaskOK
    <2> HIDE DEF u
    <2>4. RoomOK(v)
          /\ \A f \in {"state", "index", "max", "seats", "count", "host", "tasks", "pc", "pass", "seat", "held"} : v[f] = u[f]
      BY <2>2, <2>3, TickOK
    <2> HIDE DEF v
    <2>5. Quiet(room, v) /\ HoldKept(room, v)
      BY <2>1, <2>2, <2>4 DEF Quiet, HoldKept
    <2> QED
      BY <2>1, <2>5 DEF QuietKept
  <1> QED
    BY <1>2, <1>3, <1>4

\* START, GIVE_UP, and every other task that only leaves the queue.
LEMMA TaskQuiet ==
  ASSUME RoomsOK, NEW r \in RoomKeys, AtTask(r), NEW st,
         st = rooms[r].state \/ (st \in {"WAIT", "PLAY"} /\ rooms[r].state \in {"WAIT", "PLAY"}),
         rooms' = [rooms EXCEPT ![r] = [AfterTask(@) EXCEPT !.state = st]]
  PROVE  QuietKept(r)
  <1> DEFINE room == rooms[r]
             u == AfterTask(room)
             v == WithState(u, st)
  <1>1. RoomOK(room) /\ room.pc \in {"pending", "tasks"} /\ room.left > 0
    BY DEF RoomsOK, AtTask
  <1>2. /\ RoomOK(u) /\ u.pc \in {"claim", "tasks"}
        /\ \A f \in {"state", "index", "max", "seats", "count", "host", "pass", "seat", "held"} : u[f] = room[f]
    BY <1>1, AfterTaskOK
  <1>3. rooms' = [rooms EXCEPT ![r] = v]
    BY DEF WithState
  <1> HIDE DEF u
  <1>6. /\ u.pc \notin {"unused", "init", "play"}
        /\ st = u.state \/ (st \in {"WAIT", "PLAY"} /\ u.state \in {"WAIT", "PLAY"})
    BY <1>2
  <1>4. RoomOK(v) /\ v.state = st
        /\ \A f \in {"index", "max", "seats", "count", "host", "tasks", "left", "pc", "pass", "seat", "held"} : v[f] = u[f]
    BY <1>2, <1>6, StateOK
  <1> HIDE DEF v
  <1>5. Quiet(room, v) /\ HoldKept(room, v)
    BY <1>1, <1>2, <1>4 DEF Quiet, HoldKept
  <1> QED
    BY <1>3, <1>5 DEF QuietKept

LEMMA TaskDone ==
  ASSUME RoomsOK, NEW r \in RoomKeys, AtTask(r), rooms' = [rooms EXCEPT ![r] = AfterTask(@)]
  PROVE  QuietKept(r)
  <1> DEFINE room == rooms[r]
             v == AfterTask(room)
  <1>1. RoomOK(room) /\ room.pc \in {"pending", "tasks"} /\ room.left > 0
    BY DEF RoomsOK, AtTask
  <1>2. /\ RoomOK(v) /\ v.pc \in {"claim", "tasks"}
        /\ \A f \in {"state", "index", "max", "seats", "count", "host", "pass", "seat", "held"} : v[f] = room[f]
    BY <1>1, AfterTaskOK
  <1>3. rooms' = [rooms EXCEPT ![r] = v]
    OBVIOUS
  <1> HIDE DEF v
  <1>5. Quiet(room, v) /\ HoldKept(room, v)
    BY <1>1, <1>2 DEF Quiet, HoldKept
  <1> QED
    BY <1>3, <1>5 DEF QuietKept

LEMMA GameQuiet ==
  ASSUME RoomsOK, NEW r \in RoomKeys, ProcessStart(r) \/ ProcessGiveUp(r)
  PROVE  QuietKept(r)
  <1>1. AtTask(r)
    BY DEF ProcessStart, ProcessGiveUp, TaskReady
  <1>2. CASE ProcessStart(r)
    <2>1. CASE rooms' = [rooms EXCEPT ![r] = [AfterTask(@) EXCEPT !.state = "PLAY"]] /\ rooms[r].state = "WAIT"
      BY <1>1, <2>1, TaskQuiet
    <2>2. CASE rooms' = [rooms EXCEPT ![r] = AfterTask(@)]
      BY <1>1, <2>2, TaskDone
    <2> QED
      BY <1>2, <2>1, <2>2 DEF ProcessStart, StartAllowed
  <1>3. CASE ProcessGiveUp(r)
    <2> DEFINE k == Head(rooms[r].tasks).key
               st == IF RequestValid(r, k) /\ rooms[r].state = "PLAY" THEN "WAIT" ELSE rooms[r].state
    <2>1. rooms' = [rooms EXCEPT ![r] = [AfterTask(@) EXCEPT !.state = st]]
      BY <1>3 DEF ProcessGiveUp
    <2>2. st = rooms[r].state \/ (st \in {"WAIT", "PLAY"} /\ rooms[r].state \in {"WAIT", "PLAY"})
      OBVIOUS
    <2> HIDE DEF st
    <2> QED
      BY <1>1, <2>1, <2>2, TaskQuiet
  <1> QED
    BY <1>2, <1>3

\* The key on a seat that is taken.
LEMMA TakenKey ==
  ASSUME RoomsOK, NEW r \in RoomKeys, NEW n \in Seats, rooms[r].seats[n].state # "EMPTY"
  PROVE  rooms[r].seats[n].key \in Key /\ n \in Taken(rooms[r].seats)
  <1>1. rooms[r].seats[n] \in Seat
    BY DEF RoomsOK, Room
  <1> QED
    BY <1>1 DEF Seat, EmptySeat, Taken

\* ProcessGameTick.
LEMMA PlayQuiet ==
  ASSUME RoomsOK, NEW r \in RoomKeys, PlayTick(r)
  PROVE  QuietKept(r)
  <1> DEFINE room == rooms[r]
  <1>1. RoomOK(room) /\ room.pc = "play" /\ room.state = "PLAY" /\ room \in Room
    BY DEF RoomsOK, PlayTick, RoomOK, LifeOK
  <1>2. ASSUME NEW st \in {"WAIT", "PLAY"}, rooms' = [rooms EXCEPT ![r].pc = "idle", ![r].state = st]
        PROVE  QuietKept(r)
    <2> DEFINE v == IdleIn(room, st)
    <2>1. RoomOK(v) /\ v.pc = "idle" /\ v.state = st
          /\ \A f \in {"index", "max", "seats", "count", "host", "tasks", "left", "pass", "seat", "held"} : v[f] = room[f]
      BY <1>1, IdleInOK
    <2>2. rooms' = [rooms EXCEPT ![r] = v]
      BY <1>2 DEF RoomsOK, IdleIn
    <2> HIDE DEF v
    <2>3. Quiet(room, v) /\ HoldKept(room, v)
      BY <1>1, <2>1 DEF Quiet, HoldKept
    <2> QED
      BY <2>2, <2>3 DEF QuietKept
  <1>3. ASSUME NEW n \in Seats, rooms[r].seats[n].state = "ACTIVE",
               rooms' = AddRoomTask([rooms EXCEPT ![r].pc = "idle"], r, RTask("REMOVE_PLAYER", rooms[r].seats[n].key))
        PROVE  QuietKept(r)
    <2> DEFINE task == RTask("REMOVE_PLAYER", rooms[r].seats[n].key)
               st == "PLAY"
               u == IdleIn(room, st)
               v == [u EXCEPT !.tasks = Append(u.tasks, task)]
    <2>1. RoomOK(u) /\ u.pc = "idle" /\ u.state = st
          /\ \A f \in {"index", "max", "seats", "count", "host", "tasks", "left", "pass", "seat", "held"} : u[f] = room[f]
      BY <1>1, IdleInOK
    <2>2. task \in RoomTask
      BY <1>3, TakenKey, RoomTaskTypes
    <2>3. u = [room EXCEPT !.pc = "idle"]
      BY <1>1 DEF Room, IdleIn
    <2>8. rooms' = AddRoomTask([rooms EXCEPT ![r] = u], r, task)
      BY <1>3, <2>3
    <2> HIDE DEF u, task, st
    <2>4. rooms' = [rooms EXCEPT ![r] = v]
      <3> DEFINE R == [rooms EXCEPT ![r] = u]
      <3>1. R[r] = u /\ rooms \in [RoomKeys -> Room]
        BY DEF RoomsOK
      <3>2. rooms' = [R EXCEPT ![r] = v]
        BY <2>8, <3>1 DEF AddRoomTask
      <3> QED
        BY <3>1, <3>2
    <2>5. RoomOK(v)
      BY <2>1, <2>2, QueuedOK DEF st
    <2>6. \A f \in {"state", "index", "max", "seats", "count", "host", "left", "pc", "pass", "seat", "held"} : v[f] = u[f]
      BY <2>1 DEF RoomOK, Room
    <2> HIDE DEF v
    <2>7. Quiet(room, v) /\ HoldKept(room, v)
      BY <1>1, <2>1, <2>5, <2>6 DEF Quiet, HoldKept, st
    <2> QED
      BY <2>4, <2>7 DEF QuietKept
  <1> QED
    BY <1>2, <1>3 DEF PlayTick

\* Requests of the clients and of the lobby.
LEMMA RequestQuiet ==
  ASSUME RoomsOK, NEW r \in RoomKeys, NEW type \in {"START", "KICK", "GIVE_UP"}, NEW target \in Key \cup {NoKey},
         RequestRoomTask(r, type, target)
  PROVE  QuietKept(r)
  <1>1. rooms[r].seat \in Seats /\ rooms[r].seats[rooms[r].seat].state = "ACTIVE"
    BY DEF RoomsOK, RoomOK, LifeOK, RequestRoomTask, Holding, Visitable
  <1>2. SeatKey(r) \in Key
    BY <1>1, TakenKey DEF SeatKey
  <1>3. [RTask(type, SeatKey(r)) EXCEPT !.target = target] \in RoomTask
    BY <1>2, RoomTaskTypes
  <1> QED
    BY <1>3, QueuedQuiet DEF RequestRoomTask

LEMMA JoinQuiet ==
  ASSUME RoomsOK, NEW r \in RoomKeys, NEW k \in Key, NEW match \in BOOLEAN, JoinTask(r, k, match)
  PROVE  \/ QuietKept(r) /\ UNCHANGED lobbyTasks
         \/ UNCHANGED rooms /\ lobbyTasks' = Append(lobbyTasks, TransitionResult(k, FALSE, match))
  <1>1. [RTask("JOIN", k) EXCEPT !.match = match] \in RoomTask
    BY RoomTaskTypes
  <1> QED
    BY <1>1, QueuedQuiet DEF JoinTask, JoinRefused

\* The tick takes the right of the player on a seat, or goes on.
LEMMA VisitSeatSteps ==
  ASSUME RoomsOK, NEW r \in RoomKeys, VisitSeat(r)
  PROVE  \/ QuietKept(r) /\ UNCHANGED sess
         \/ /\ SeatKey(r) \in Key /\ ~sess[SeatKey(r)[1]].right /\ sess' = [sess EXCEPT ![SeatKey(r)[1]].right = TRUE]
            /\ \E v : /\ Quiet(rooms[r], v) /\ rooms' = [rooms EXCEPT ![r] = v]
                      /\ rooms[r].pc = "seats" /\ v.pc = "hold" /\ v.held = SeatKey(r)
  <1> DEFINE room == rooms[r]
             k == SeatKey(r)
  <1>1. RoomOK(room) /\ room.pc = "seats" /\ room.seat \in Seats
    BY DEF RoomsOK, VisitSeat, RoomOK, LifeOK
  <1>2. CASE Visitable(r) /\ RightFree(k)
    <2> DEFINE v == Visits(room, k)
    <2>1. rooms' = [rooms EXCEPT ![r] = v] /\ sess' = [sess EXCEPT ![k[1]].right = TRUE] /\ ~sess[k[1]].right
      BY <1>2 DEF VisitSeat, RoomsOK, RightFree, Visits
    <2>2. k \in Key
      BY <1>1, <1>2, TakenKey DEF SeatKey, Visitable
    <2> HIDE DEF k
    <2>3. RoomOK(v) /\ v.pc = "hold" /\ v.held = k
          /\ \A f \in {"state", "index", "max", "seats", "count", "host", "tasks", "left", "pass", "seat"} : v[f] = room[f]
      BY <1>1, <2>2, VisitsOK
    <2> HIDE DEF v
    <2>4. Quiet(room, v)
      BY <1>1, <2>3 DEF Quiet
    <2> QED
      BY <1>1, <2>1, <2>2, <2>3, <2>4 DEF k
  <1>3. CASE ~(Visitable(r) /\ RightFree(k))
    <2> DEFINE v == NextSeat(room)
    <2>1. rooms' = [rooms EXCEPT ![r] = v] /\ UNCHANGED sess
      BY <1>3 DEF VisitSeat
    <2>2. RoomOK(v) /\ v.pc \in {"seats", "pending", "tasks"}
          /\ \A f \in {"state", "index", "max", "seats", "count", "host", "tasks", "held"} : v[f] = room[f]
      BY <1>1, NextSeatOK
    <2> HIDE DEF v
    <2>3. Quiet(room, v) /\ HoldKept(room, v)
      BY <1>1, <2>2 DEF Quiet, HoldKept
    <2> QED
      BY <2>1, <2>3 DEF QuietKept
  <1> QED
    BY <1>2, <1>3

LEMMA EndSeatVisitStep ==
  ASSUME RoomsOK, NEW r \in RoomKeys, EndSeatVisit(r)
  PROVE  /\ rooms[r].held \in Key /\ rooms[r].pc = "hold"
         /\ \E v : Quiet(rooms[r], v) /\ rooms' = [rooms EXCEPT ![r] = v] /\ v.pc # "hold"
  <1> DEFINE room == rooms[r]
             u == NextSeat(room)
             v == [u EXCEPT !.held = NoKey]
  <1>1. RoomOK(room) /\ room.pc = "hold" /\ rooms' = [rooms EXCEPT ![r] = v] /\ room.held \in Key
    BY DEF RoomsOK, EndSeatVisit, RoomOK, LifeOK
  <1>2. RoomOK(u) /\ u.pc \in {"seats", "pending", "tasks"}
        /\ \A f \in {"state", "index", "max", "seats", "count", "host", "tasks", "held"} : u[f] = room[f]
    BY <1>1, NextSeatOK
  <1> HIDE DEF u
  <1>3. RoomOK(v)
        /\ \A f \in {"state", "index", "max", "seats", "count", "host", "tasks", "left", "pc", "pass", "seat"} : v[f] = u[f]
    BY <1>2, TickOK
  <1> HIDE DEF v
  <1>4. Quiet(room, v)
    BY <1>1, <1>2, <1>3 DEF Quiet
  <1> QED
    BY <1>1, <1>2, <1>3, <1>4

\* Player k leaves: the room is about to be deleted, or somebody is left and the host is
\* replaced if it was k.
Left(room, v, k) ==
  /\ RoomOK(v) /\ room.pc \notin {"unused", "init"} /\ v.pc \notin {"unused", "init"}
  /\ v.seats = SeatsWithout(room, k) /\ v.index = room.index /\ v.state \in {room.state, "WAITING_DELETE"}
  /\ v.state # "WAITING_DELETE" =>
       /\ Taken(v.seats) # {}
       /\ v.host = IF room.host = k THEN NewHost(v.seats, v.count, room.host) ELSE room.host

LEMMA LeftOK ==
  ASSUME NEW room, NEW u, RoomOK(room), RoomOK(u), room.pc \notin {"unused", "init"},
         u.pc \notin {"unused", "init", "play"}, HoldKept(room, u),
         \A f \in {"seats", "index", "host", "count", "state"} : u[f] = room[f],
         NEW k \in Key, NEW n \in Seats, room.seats[n].key = k
  PROVE  Left(room, RemovedFrom(u, k), k) /\ HoldKept(room, RemovedFrom(u, k))
  <1> DEFINE v == RemovedFrom(u, k)
             seats == SeatsWithout(u, k)
  <1>1. /\ RoomOK(v) /\ v.seats = seats /\ v.state \in {u.state, "WAITING_DELETE"}
        /\ \A f \in {"index", "max", "tasks", "left", "pc", "pass", "seat", "held"} : v[f] = u[f]
    BY RemovedFromOK
  <1>2. seats = SeatsWithout(room, k)
    BY DEF SeatsWithout
  <1>3. ASSUME v.state # "WAITING_DELETE"
        PROVE  /\ Taken(v.seats) # {}
               /\ v.host = IF room.host = k THEN NewHost(v.seats, v.count, room.host) ELSE room.host
    <2>1. room.seats[n].key # NoKey /\ u.seats[n] = room.seats[n] /\ u \in Room
      BY NamesAssumption DEF RoomOK
    <2>2. seats # u.seats
      BY <2>1 DEF SeatsWithout, EmptySeat
    <2>3. v = [u EXCEPT !.seats = seats, !.count = u.count - 1,
                        !.state = IF u.count = 1 THEN "WAITING_DELETE" ELSE u.state,
                        !.host = IF u.host = k THEN NewHost(seats, u.count - 1, u.host) ELSE u.host]
      BY <2>2 DEF RemovedFrom, SeatsWithout
    <2> DEFINE st == IF u.count = 1 THEN "WAITING_DELETE" ELSE u.state
               host == IF u.host = k THEN NewHost(seats, u.count - 1, u.host) ELSE u.host
               c == u.count - 1
    <2> HIDE DEF v, seats, st, host, c
    <2>4. v = [u EXCEPT !.seats = seats, !.count = c, !.state = st, !.host = host]
      BY <2>3 DEF st, host, c
    <2>5. v.count = c /\ v.state = st /\ v.host = host
      BY <2>1, <2>4 DEF Room
    <2>6. u.count \in Nat /\ u.count # 1
      BY <1>3, <2>1, <2>5 DEF Room, st
    <2>7. v.count # 0
      BY <2>5, <2>6 DEF c
    <2>8. Taken(v.seats) # {}
      BY <1>1, <2>7, FS_EmptySet DEF RoomOK, PlayersOK
    <2> QED
      BY <1>1, <2>5, <2>8 DEF c, host
  <1> QED
    BY <1>1, <1>2, <1>3 DEF Left, HoldKept

\* The players who leave: by their own request, by a task, or kicked.
LEMMA LeaveRoomStep ==
  ASSUME RoomsOK, NEW r \in RoomKeys, LeaveRoom(r)
  PROVE  /\ SeatKey(r) \in Key /\ rooms[r].seat \in Seats /\ rooms[r].seat \in Seated(r, SeatKey(r))
         /\ \E v : Left(rooms[r], v, SeatKey(r)) /\ HoldKept(rooms[r], v) /\ rooms' = [rooms EXCEPT ![r] = v]
  <1> DEFINE k == SeatKey(r)
             v == RemovedFrom(rooms[r], k)
  <1>1. RoomOK(rooms[r]) /\ rooms[r].pc = "hold" /\ rooms[r].seat \in Seats /\ rooms' = [rooms EXCEPT ![r] = v]
    BY DEF RoomsOK, LeaveRoom, Holding, RoomOK, LifeOK
  <1>2. rooms[r].seats[rooms[r].seat].state = "ACTIVE"
    BY DEF LeaveRoom, Holding, Visitable
  <1>3. k \in Key
    BY <1>1, <1>2, TakenKey DEF SeatKey
  <1>4. Left(rooms[r], v, k) /\ HoldKept(rooms[r], v)
    BY <1>1, <1>3, LeftOK DEF SeatKey, HoldKept
  <1> QED
    BY <1>1, <1>2, <1>3, <1>4 DEF Seated, SeatKey

LEMMA RemovedStep ==
  ASSUME RoomsOK, NEW r \in RoomKeys, AtTask(r), NEW k \in Key, Seated(r, k) # {},
         rooms' = [rooms EXCEPT ![r] = RemovedFrom(AfterTask(rooms[r]), k)]
  PROVE  \E v : Left(rooms[r], v, k) /\ HoldKept(rooms[r], v) /\ rooms' = [rooms EXCEPT ![r] = v]
  <1> DEFINE room == rooms[r]
             u == AfterTask(room)
             v == RemovedFrom(u, k)
  <1>1. RoomOK(room) /\ room.pc \in {"pending", "tasks"} /\ room.left > 0
    BY DEF RoomsOK, AtTask
  <1>2. /\ RoomOK(u) /\ u.pc \in {"claim", "tasks"}
        /\ \A f \in {"state", "index", "max", "seats", "count", "host", "pass", "seat", "held"} : u[f] = room[f]
    BY <1>1, AfterTaskOK
  <1>3. PICK n \in Seats : room.seats[n].key = k
    BY DEF Seated
  <1> HIDE DEF u
  <1>4. HoldKept(room, u)
    BY <1>1, <1>2 DEF HoldKept
  <1>5. Left(room, v, k) /\ HoldKept(room, v)
    BY <1>1, <1>2, <1>3, <1>4, LeftOK
  <1> QED
    BY <1>5 DEF u

\* AddPlayer: k sits down on a free seat.
Joined(room, v, k) ==
  /\ RoomOK(v) /\ room.pc \notin {"unused", "init"} /\ v.pc \notin {"unused", "init"}
  /\ \E n \in Seats \ Taken(room.seats) : v.seats = [room.seats EXCEPT ![n] = [state |-> "ACTIVE", key |-> k]]
  /\ \A f \in {"index", "host", "state"} : v[f] = room[f]

LEMMA JoinedStep ==
  ASSUME RoomsOK, NEW r \in RoomKeys, AtTask(r), NEW k \in Key, MayJoin(r, k),
         rooms' = [rooms EXCEPT ![r] = SeatPlayer(AfterTask(rooms[r]), k)]
  PROVE  \E v : Joined(rooms[r], v, k) /\ HoldKept(rooms[r], v) /\ rooms' = [rooms EXCEPT ![r] = v]
  <1> DEFINE room == rooms[r]
             u == AfterTask(room)
             v == SeatPlayer(u, k)
  <1>1. RoomOK(room) /\ room.pc \in {"pending", "tasks"} /\ room.left > 0
    BY DEF RoomsOK, AtTask
  <1>2. /\ RoomOK(u) /\ u.pc \in {"claim", "tasks"}
        /\ \A f \in {"state", "index", "max", "seats", "count", "host", "pass", "seat", "held"} : u[f] = room[f]
    BY <1>1, AfterTaskOK
  <1> HIDE DEF u
  <1>3. u.state = "WAIT" /\ FreeSeats(u) # {} /\ \A n \in Taken(u.seats) : u.seats[n].key # k
    BY <1>2 DEF MayJoin, FreeSeats, Seated, Taken
  <1>4. /\ RoomOK(v) /\ FreeSeats(u) \subseteq Seats \ Taken(u.seats)
        /\ \E n \in FreeSeats(u) : v.seats = [u.seats EXCEPT ![n] = [state |-> "ACTIVE", key |-> k]]
        /\ \A f \in {"state", "index", "max", "host", "tasks", "left", "pc", "pass", "seat", "held"} : v[f] = u[f]
    BY <1>2, <1>3, SeatPlayerOK
  <1> HIDE DEF v
  <1>5. Joined(room, v, k) /\ HoldKept(room, v)
    <2>1. \E n \in Seats \ Taken(room.seats) : v.seats = [room.seats EXCEPT ![n] = [state |-> "ACTIVE", key |-> k]]
      BY <1>2, <1>4
    <2> QED
      BY <1>1, <1>2, <1>4, <2>1 DEF Joined, HoldKept
  <1> QED
    BY <1>5 DEF u, v

\* TryPostRoomDelete.
Posted(room, v) ==
  /\ RoomOK(v) /\ room.pc \notin {"unused", "init"} /\ v.pc \notin {"unused", "init"}
  /\ \A f \in {"seats", "index", "host", "count"} : v[f] = room[f]
  /\ room.state = "WAITING_DELETE" /\ v.state = "DELETE_POST"

LEMMA EndRoomTasksStep ==
  ASSUME RoomsOK, NEW r \in RoomKeys, EndRoomTasks(r)
  PROVE  \/ QuietKept(r) /\ UNCHANGED lifeTasks
         \/ /\ \E v : Posted(rooms[r], v) /\ HoldKept(rooms[r], v) /\ rooms' = [rooms EXCEPT ![r] = v]
            /\ lifeTasks' = Append(lifeTasks, [type |-> "DELETE_ROOM", index |-> rooms[r].index])
  <1> DEFINE room == rooms[r]
  <1>1. RoomOK(room) /\ room.pc = "tasks"
    BY DEF RoomsOK, EndRoomTasks
  <1>2. CASE PostsDelete(room)
    <2> DEFINE u == WithState(room, "DELETE_POST")
               v == EndPass(u)
    <2>1. rooms' = [rooms EXCEPT ![r] = v] /\ lifeTasks' = Append(lifeTasks, [type |-> "DELETE_ROOM", index |-> room.index])
      BY <1>2 DEF EndRoomTasks, WithState
    <2>2. RoomOK(u) /\ u.state = "DELETE_POST"
          /\ \A f \in {"index", "max", "seats", "count", "host", "tasks", "left", "pc", "pass", "seat", "held"} : u[f] = room[f]
      BY <1>1, <1>2, StateOK DEF PostsDelete
    <2> HIDE DEF u
    <2>3. RoomOK(v) /\ v.pc \in {"seats", "play", "idle"}
          /\ \A f \in {"state", "index", "max", "seats", "count", "host", "tasks", "left", "held"} : v[f] = u[f]
      BY <1>1, <2>2, EndPassOK
    <2> HIDE DEF v
    <2>4. Posted(room, v) /\ HoldKept(room, v)
      BY <1>1, <1>2, <2>2, <2>3 DEF Posted, HoldKept, PostsDelete
    <2> QED
      BY <2>1, <2>4
  <1>3. CASE ~PostsDelete(room)
    <2> DEFINE v == EndPass(room)
    <2>1. rooms' = [rooms EXCEPT ![r] = v] /\ UNCHANGED lifeTasks
      BY <1>3 DEF EndRoomTasks
    <2>2. RoomOK(v) /\ v.pc \in {"seats", "play", "idle"}
          /\ \A f \in {"state", "index", "max", "seats", "count", "host", "tasks", "left", "held"} : v[f] = room[f]
      BY <1>1, EndPassOK
    <2> HIDE DEF v
    <2>3. Quiet(room, v) /\ HoldKept(room, v)
      BY <1>1, <2>2 DEF Quiet, HoldKept
    <2> QED
      BY <2>1, <2>3 DEF QuietKept
  <1> QED
    BY <1>2, <1>3

\* CreateRoom, and the end of the initialization.
LEMMA CreateRoomStep ==
  ASSUME RoomsOK, NEW g \in GameThreads, NEW r \in RoomKeys, NEW i \in RoomIndices,
         NEW max \in {1, Cardinality(Seats)}, gkey[g] \in Key, CreateRoom(g, r, i, max)
  PROVE  rooms' = [rooms EXCEPT ![r] = MadeRoom(i, max, gkey[g])] /\ rooms[r] = NewRoom
  <1> DEFINE k == gkey[g]
             empty == [n \in Seats |-> EmptySeat]
             a == [rooms[r] EXCEPT !.index = i]
             b == [a EXCEPT !.max = max]
             c == [b EXCEPT !.pc = "init"]
             d == [c EXCEPT !.count = 1]
             e == [d EXCEPT !.host = k]
             v == [e EXCEPT !.seats[1] = [state |-> "PENDING", key |-> k]]
             seats == [n \in Seats |-> IF n = 1 THEN [state |-> "PENDING", key |-> k] ELSE EmptySeat]
  <1>1. rooms[r] = NewRoom /\ rooms \in [RoomKeys -> Room]
    BY DEF CreateRoom, RoomsOK, RoomOK, LifeOK
  <1>2. rooms' = [rooms EXCEPT ![r] = v]
    BY DEF CreateRoom
  <1>3. [empty EXCEPT ![1] = [state |-> "PENDING", key |-> k]] = seats
    BY SeatFacts
  <1> HIDE DEF seats, k, empty, v, e, d, c, b, a
  <1>4. rooms[r] = [state |-> "EMPTY", index |-> NoIndex, max |-> 0, seats |-> empty, count |-> 0, host |-> NoKey,
             tasks |-> <<>>, left |-> 0, pc |-> "unused", pass |-> 1, seat |-> 0, held |-> NoKey]
    BY <1>1 DEF NewRoom, empty
  <1>5. a = [state |-> "EMPTY", index |-> i, max |-> 0, seats |-> empty, count |-> 0, host |-> NoKey,
             tasks |-> <<>>, left |-> 0, pc |-> "unused", pass |-> 1, seat |-> 0, held |-> NoKey]
    BY <1>4 DEF a
  <1>6. b = [state |-> "EMPTY", index |-> i, max |-> max, seats |-> empty, count |-> 0, host |-> NoKey,
             tasks |-> <<>>, left |-> 0, pc |-> "unused", pass |-> 1, seat |-> 0, held |-> NoKey]
    BY <1>5 DEF b
  <1>7. c = [state |-> "EMPTY", index |-> i, max |-> max, seats |-> empty, count |-> 0, host |-> NoKey,
             tasks |-> <<>>, left |-> 0, pc |-> "init", pass |-> 1, seat |-> 0, held |-> NoKey]
    BY <1>6 DEF c
  <1>8. d = [state |-> "EMPTY", index |-> i, max |-> max, seats |-> empty, count |-> 1, host |-> NoKey,
             tasks |-> <<>>, left |-> 0, pc |-> "init", pass |-> 1, seat |-> 0, held |-> NoKey]
    BY <1>7 DEF d
  <1>9. e = [state |-> "EMPTY", index |-> i, max |-> max, seats |-> empty, count |-> 1, host |-> k,
             tasks |-> <<>>, left |-> 0, pc |-> "init", pass |-> 1, seat |-> 0, held |-> NoKey]
    BY <1>8 DEF e
  <1>10. v = MadeRoom(i, max, k)
    BY <1>3, <1>9 DEF MadeRoom, seats, v
  <1> QED
    BY <1>1, <1>2, <1>10 DEF k

LEMMA CompleteStep ==
  ASSUME RoomsOK, NEW g \in GameThreads, groom[g] \in RoomKeys, CompleteRoomInitialization(g)
  PROVE  rooms' = [rooms EXCEPT ![groom[g]] = ReadyRoom(rooms[groom[g]])]
  <1>1. rooms \in [RoomKeys -> Room]
    BY DEF RoomsOK
  <1> QED
    BY <1>1 DEF CompleteRoomInitialization, ReadyRoom, Room

----------------------------------------------------------------------------
(* The type invariant of the whole system. *)

Session == [life : {"NONE", "ACTIVE", "DISCONNECT_PENDING", "DISCONNECTING"}, id : Ids,
            mode : {"NONE", "LOGIN", "LOBBY", "ROOM"}, room : RoomIndices \cup {NoIndex}, right : BOOLEAN]

SessOK ==
  /\ sess \in [Slots -> Session] /\ conn \in [Slots -> Ids]
  /\ \A s \in Slots : sess[s].mode = "ROOM" => sess[s].room \in RoomIndices

LobbyOK ==
  /\ entry \in [Slots -> [state : {"EMPTY", "PENDING", "ACTIVE"}, id : Ids]]
  /\ active \subseteq Key /\ overtaken \subseteq Key

QueueOK == lobbyTasks \in Seq(LobbyTask) /\ claim \in 0..Len(lobbyTasks) /\ stage \in {"tasks", "sessions"}

\* A thread that is not idle has a task.
ThreadOK ==
  /\ lpc \in [LobbyThreads -> {"idle", "task", "forget", "enter", "finalize", "free", "visit"}]
  /\ ltask \in [LobbyThreads -> LobbyTask \cup {NoTask}]
  /\ \A t \in LobbyThreads : lpc[t] # "idle" => ltask[t] \in LobbyTask

TableOK == roomAt \in [RoomIndices -> RoomKeys \cup {NoRoom}]

GameOK ==
  /\ lifeTasks \in Seq(LifecycleTask)
  /\ gpc \in [GameThreads -> {"idle", "wait", "created", "init"}]
  /\ gkey \in [GameThreads -> Key \cup {NoKey}]
  /\ groom \in [GameThreads -> RoomKeys \cup {NoRoom}]
  /\ \A g \in GameThreads : gpc[g] # "idle" => gkey[g] \in Key

\* A room that is being made has one maker, who sits on the first seat.
MakersOK ==
  /\ \A g \in GameThreads : gpc[g] \in {"created", "init"} =>
        /\ groom[g] \in RoomKeys /\ rooms[groom[g]].pc = "init"
        /\ rooms[groom[g]].seats[1].key = gkey[g] /\ rooms[groom[g]].host = gkey[g]
  /\ \A g, h \in GameThreads :
        gpc[g] \in {"created", "init"} /\ gpc[h] \in {"created", "init"} /\ groom[g] = groom[h] => g = h

Typed == SessOK /\ LobbyOK /\ QueueOK /\ ThreadOK /\ RoomsOK /\ TableOK /\ GameOK /\ MakersOK

\* A step of a room that is not being made, and of no maker.
LEMMA RoomMoves ==
  ASSUME RoomsOK, MakersOK, NEW r \in RoomKeys, rooms[r].pc # "init", NEW v, RoomOK(v),
         rooms' = [rooms EXCEPT ![r] = v], UNCHANGED <<gpc, gkey, groom>>
  PROVE  RoomsOK' /\ MakersOK'
  <1>1. v \in Room
    BY DEF RoomOK
  <1>2. \A q \in RoomKeys : rooms'[q] = IF q = r THEN v ELSE rooms[q]
    BY DEF RoomsOK
  <1>3. rooms' \in [RoomKeys -> Room]
    BY <1>1 DEF RoomsOK
  <1>4. RoomsOK'
    BY <1>2, <1>3 DEF RoomsOK
  <1>5. MakersOK'
    BY <1>2 DEF MakersOK
  <1> QED
    BY <1>4, <1>5

LEMMA QuietMoves ==
  ASSUME RoomsOK, MakersOK, NEW r \in RoomKeys, QuietStep(r) \/ QuietKept(r), UNCHANGED <<gpc, gkey, groom>>
  PROVE  RoomsOK' /\ MakersOK'
  <1>1. PICK v : Quiet(rooms[r], v) /\ rooms' = [rooms EXCEPT ![r] = v]
    BY DEF QuietStep, QuietKept
  <1> QED
    BY <1>1, RoomMoves DEF Quiet

\* A task is posted to the lobby.
LEMMA PostedTask ==
  ASSUME QueueOK, NEW task \in LobbyTask, lobbyTasks' = Append(lobbyTasks, task), UNCHANGED phaseVars
  PROVE  QueueOK'
  <1>1. lobbyTasks' \in Seq(LobbyTask) /\ Len(lobbyTasks') = Len(lobbyTasks) + 1 /\ Len(lobbyTasks) \in Nat
    BY AppendProperties, LenProperties DEF QueueOK
  <1> QED
    BY <1>1 DEF QueueOK, phaseVars

\* A lobby thread is done with its task, or goes on with it.
LEMMA ThreadMoves ==
  ASSUME ThreadOK, NEW t \in LobbyThreads,
         \/ DoneLobby(t)
         \/ lpc[t] # "idle" /\ \E p \in {"forget", "enter", "finalize"} : GotoLobby(t, p)
  PROVE  ThreadOK'
  <1>1. CASE DoneLobby(t)
    BY <1>1 DEF ThreadOK, DoneLobby
  <1>2. CASE lpc[t] # "idle" /\ \E p \in {"forget", "enter", "finalize"} : GotoLobby(t, p)
    BY <1>2 DEF ThreadOK, GotoLobby
  <1> QED
    BY <1>1, <1>2

\* The right of a session is taken or released, and its mode may change.
LEMMA SessionMoves ==
  ASSUME SessOK, NEW s \in Slots, NEW x \in Session, x.mode = "ROOM" => x.room \in RoomIndices,
         sess' = [sess EXCEPT ![s] = x], UNCHANGED conn
  PROVE  SessOK'
  <1>1. sess' \in [Slots -> Session] /\ \A q \in Slots : sess'[q] = IF q = s THEN x ELSE sess[q]
    BY DEF SessOK
  <1> QED
    BY <1>1 DEF SessOK

LEMMA RightMoves ==
  ASSUME SessOK, NEW s \in Slots, NEW b \in BOOLEAN, sess' = [sess EXCEPT ![s].right = b], UNCHANGED conn
  PROVE  SessOK'
  <1>1. sess[s] \in Session
    BY DEF SessOK
  <1>2. [sess[s] EXCEPT !.right = b] \in Session /\ [sess[s] EXCEPT !.right = b].mode = sess[s].mode
        /\ [sess[s] EXCEPT !.right = b].room = sess[s].room
    BY <1>1 DEF Session
  <1> QED
    BY <1>2, SessionMoves DEF SessOK

\* A slot has handed out fewer ids than the bound while the bound on all is not reached.
LEMMA IdsLeft ==
  ASSUME SessOK, NEW s \in Slots, Cardinality(HandedOut) < MaxConnections
  PROVE  conn[s] + 1 \in Ids
  <1> DEFINE mine == {s} \X (1..conn[s])
             pairs == Slots \X (1..MaxConnections)
  <1>1. conn[s] \in 0..MaxConnections /\ MaxConnections \in Nat
    BY BoundsAssumption DEF SessOK, Ids
  <1>2. IsFiniteSet(1..MaxConnections) /\ IsFiniteSet(1..conn[s]) /\ Cardinality(1..conn[s]) = conn[s]
    <2>1. conn[s] \in Int /\ MaxConnections \in Int /\ 1 \in Int /\ conn[s] \in Nat
      BY <1>1
    <2>2. Cardinality(1..conn[s]) = IF 1 > conn[s] THEN 0 ELSE conn[s] - 1 + 1
      BY <2>1, FS_Interval, Zenon
    <2>3. IsFiniteSet(1..MaxConnections) /\ IsFiniteSet(1..conn[s])
      BY <2>1, FS_Interval, Zenon
    <2> QED
      BY <2>1, <2>2, <2>3
  <1>3. IsFiniteSet(pairs)
    BY <1>2, FiniteAssumption, FS_Product, Zenon
  <1>4. HandedOut \subseteq pairs /\ mine \subseteq HandedOut
    <2>1. ASSUME NEW k \in mine PROVE k \in HandedOut
      <3>1. k[1] = s /\ k[2] \in 1..conn[s] /\ k = <<k[1], k[2]>>
        OBVIOUS
      <3>2. k[2] \in 1..MaxConnections /\ k[2] <= conn[s]
        BY <1>1, <3>1
      <3>3. k \in pairs
        BY <3>1, <3>2
      <3> QED
        BY <3>1, <3>2, <3>3 DEF HandedOut
    <2> QED
      BY <2>1 DEF HandedOut
  <1>5. IsFiniteSet({s}) /\ Cardinality({s}) = 1
    BY FS_Singleton
  <1>6. Cardinality(mine) = conn[s]
    <2>1. Cardinality(mine) = Cardinality({s}) * Cardinality(1..conn[s])
      BY <1>2, <1>5, FS_Product, Zenon
    <2> QED
      BY <1>1, <1>2, <1>5, <2>1
  <1>7. IsFiniteSet(HandedOut)
    BY <1>3, <1>4, FS_Subset
  <1>8. Cardinality(mine) <= Cardinality(HandedOut) /\ Cardinality(HandedOut) \in Nat
    <2> HIDE DEF mine
    <2>1. Cardinality(mine) <= Cardinality(HandedOut)
      BY <1>4, <1>7, FS_Subset
    <2> QED
      BY <1>7, <2>1, FS_CardinalityType
  <1> HIDE DEF mine
  <1> QED
    BY <1>1, <1>6, <1>8 DEF Ids

\* What a step leaves alone keeps its type.
LEMMA Frames ==
  /\ SessOK /\ UNCHANGED <<sess, conn>> => SessOK'
  /\ LobbyOK /\ UNCHANGED <<entry, active, overtaken>> => LobbyOK'
  /\ QueueOK /\ UNCHANGED <<lobbyTasks, claim, stage>> => QueueOK'
  /\ ThreadOK /\ UNCHANGED <<lpc, ltask>> => ThreadOK'
  /\ RoomsOK /\ UNCHANGED rooms => RoomsOK'
  /\ TableOK /\ UNCHANGED roomAt => TableOK'
  /\ GameOK /\ UNCHANGED <<lifeTasks, gpc, gkey, groom>> => GameOK'
  /\ MakersOK /\ UNCHANGED <<rooms, gpc, gkey, groom>> => MakersOK'
  <1>1. SessOK /\ UNCHANGED <<sess, conn>> => SessOK'
    BY DEF SessOK
  <1>2. LobbyOK /\ UNCHANGED <<entry, active, overtaken>> => LobbyOK'
    BY DEF LobbyOK
  <1>3. QueueOK /\ UNCHANGED <<lobbyTasks, claim, stage>> => QueueOK'
    BY DEF QueueOK
  <1>4. ThreadOK /\ UNCHANGED <<lpc, ltask>> => ThreadOK'
    BY DEF ThreadOK
  <1>5. RoomsOK /\ UNCHANGED rooms => RoomsOK'
    BY DEF RoomsOK
  <1>6. TableOK /\ UNCHANGED roomAt => TableOK'
    BY DEF TableOK
  <1>7. GameOK /\ UNCHANGED <<lifeTasks, gpc, gkey, groom>> => GameOK'
    BY DEF GameOK
  <1>8. MakersOK /\ UNCHANGED <<rooms, gpc, gkey, groom>> => MakersOK'
    BY DEF MakersOK
  <1> QED
    BY <1>1, <1>2, <1>3, <1>4, <1>5, <1>6, <1>7, <1>8

\* The session a lobby thread works on.
LEMMA ThreadKey ==
  ASSUME ThreadOK, NEW t \in LobbyThreads, lpc[t] # "idle"
  PROVE  ltask[t] \in LobbyTask /\ ltask[t].key \in Key /\ ltask[t].key[1] \in Slots /\ ltask[t].key[2] \in Ids
  BY KeyFacts DEF ThreadOK, LobbyTask

LEMMA OccupantKey ==
  ASSUME SessOK, NEW s \in Slots
  PROVE  Occupant(s) \in Key /\ Occupant(s)[1] = s /\ Occupant(s)[2] = sess[s].id /\ sess[s] \in Session
  BY KeyFacts DEF SessOK, Session, Occupant

\* Several tasks are posted at once.
LEMMA PostedTasks ==
  ASSUME QueueOK, NEW q \in Seq(LobbyTask), lobbyTasks' = lobbyTasks \o q, UNCHANGED phaseVars
  PROVE  QueueOK'
  <1>1. Len(lobbyTasks) \in Nat /\ Len(q) \in Nat /\ lobbyTasks \in Seq(LobbyTask)
    BY LenProperties DEF QueueOK
  <1>2. lobbyTasks' \in Seq(LobbyTask) /\ Len(lobbyTasks') = Len(lobbyTasks) + Len(q)
    BY <1>1, ConcatProperties
  <1> QED
    BY <1>1, <1>2 DEF QueueOK, phaseVars

LEMMA NoticeTyped ==
  ASSUME NEW k \in Key
  PROVE  RoomDisconnectNotice(k) \in Seq(LobbyTask)
  <1>1. LTask("DISCONNECT", k) \in LobbyTask
    BY TaskTypes DEF LobbyTaskType
  <1>2. <<>> \in Seq(LobbyTask) /\ <<LTask("DISCONNECT", k)>> \in Seq(LobbyTask)
    BY <1>1
  <1> QED
    BY <1>2 DEF RoomDisconnectNotice

LEMMA DisconnectMoves ==
  ASSUME SessOK, NEW k \in Key, sess' = AfterRoomDisconnect(sess, k), UNCHANGED conn
  PROVE  SessOK'
  <1>1. CASE LeavesRoom(k)
    <2> DEFINE x == [sess[k[1]] EXCEPT !.mode = "NONE", !.room = NoIndex]
    <2>1. k[1] \in Slots /\ sess[k[1]] \in Session
      BY KeyFacts DEF SessOK
    <2>2. sess' = [sess EXCEPT ![k[1]] = x]
      BY <1>1, <2>1 DEF AfterRoomDisconnect, SessOK
    <2>3. x \in Session /\ x.mode = "NONE"
      BY <2>1 DEF Session
    <2> QED
      BY <2>1, <2>2, <2>3, SessionMoves
  <1>2. CASE ~LeavesRoom(k)
    BY <1>2, Frames DEF AfterRoomDisconnect
  <1> QED
    BY <1>1, <1>2

----------------------------------------------------------------------------
(* Every step keeps the types: the network and the phases of the lobby. *)

LEMMA NetworkTyped ==
  ASSUME Typed, NEW s \in Slots, AcquireSession(s) \/ CompleteSessionIO(s)
  PROVE  Typed'
  <1>0. sess[s] \in Session /\ conn[s] \in Ids /\ Occupant(s) \in Key
    BY OccupantKey DEF Typed, SessOK
  <1>1. CASE AcquireSession(s)
    <2>1. conn[s] + 1 \in Ids
      BY <1>1, IdsLeft DEF Typed, AcquireSession
    <2>2. SessOK'
      <3> DEFINE x == [sess[s] EXCEPT !.life = "ACTIVE", !.id = conn[s] + 1, !.mode = "LOGIN", !.room = NoIndex]
      <3>1. x \in Session /\ x.mode = "LOGIN"
        BY <1>0, <2>1 DEF Session
      <3>2. sess' = [sess EXCEPT ![s] = x]
        BY <1>1 DEF AcquireSession, Typed, SessOK
      <3> HIDE DEF x
      <3>3. sess' \in [Slots -> Session] /\ conn' \in [Slots -> Ids] /\ \A q \in Slots : sess'[q] = IF q = s THEN x ELSE sess[q]
        BY <1>1, <2>1, <3>1, <3>2 DEF AcquireSession, Typed, SessOK
      <3> QED
        BY <3>1, <3>3 DEF Typed, SessOK
    <2>3. QueueOK'
      <3>1. LTask("ADD_SESSION", <<s, conn[s] + 1>>) \in LobbyTask
        BY <2>1, KeyFacts, TaskTypes DEF LobbyTaskType
      <3> QED
        BY <1>1, <3>1, PostedTask DEF AcquireSession, Typed
    <2> QED
      BY <1>1, <2>2, <2>3, Frames DEF Typed, AcquireSession, lobbyVars, threadVars, gameVars
  <1>2. CASE CompleteSessionIO(s)
    <2>2. SessOK'
      <3> DEFINE x == [sess[s] EXCEPT !.life = "DISCONNECTING"]
      <3>1. x \in Session /\ x.mode = sess[s].mode /\ x.room = sess[s].room
        BY <1>0 DEF Session
      <3>2. sess' = [sess EXCEPT ![s] = x] /\ UNCHANGED conn
        BY <1>2 DEF CompleteSessionIO
      <3> QED
        BY <3>1, <3>2, SessionMoves DEF Typed, SessOK
    <2>3. QueueOK'
      <3>1. LTask("DISCONNECT", Occupant(s)) \in LobbyTask
        BY <1>0, TaskTypes DEF LobbyTaskType
      <3> QED
        BY <1>2, <3>1, PostedTask DEF CompleteSessionIO, Typed
    <2> QED
      BY <1>2, <2>2, <2>3, Frames DEF Typed, CompleteSessionIO, lobbyVars, threadVars, gameVars
  <1> QED
    BY <1>1, <1>2

LEMMA PhaseTyped ==
  ASSUME Typed, StartLobbyPhase \/ EndLobbyTasks
  PROVE  Typed'
  <1>0. Len(lobbyTasks) \in Nat
    BY LenProperties DEF Typed, QueueOK
  <1>1. CASE StartLobbyPhase
    <2>1. QueueOK'
      BY <1>0, <1>1 DEF Typed, QueueOK, StartLobbyPhase, Claimed
    <2> QED
      BY <1>1, <2>1, Frames DEF Typed, StartLobbyPhase, sessVars, lobbyVars, threadVars, gameVars
  <1>2. CASE EndLobbyTasks
    <2>1. QueueOK'
      BY <1>2 DEF Typed, QueueOK, EndLobbyTasks
    <2> QED
      BY <1>2, <2>1, Frames DEF Typed, EndLobbyTasks, sessVars, lobbyVars, threadVars, gameVars
  <1> QED
    BY <1>1, <1>2

----------------------------------------------------------------------------
(* Every step keeps the types: the tasks of the lobby. *)

EntryType == [Slots -> [state : {"EMPTY", "PENDING", "ACTIVE"}, id : Ids]]

LEMMA EntryMoves ==
  ASSUME LobbyOK, NEW k \in Key
  PROVE  /\ entry \in EntryType /\ ClearEntry(k) \in EntryType
         /\ [entry EXCEPT ![k[1]].state = "PENDING"] \in EntryType
         /\ [entry EXCEPT ![k[1]].state = "ACTIVE"] \in EntryType
         /\ [entry EXCEPT ![k[1]] = [state |-> "PENDING", id |-> k[2]]] \in EntryType
         /\ [entry EXCEPT ![k[1]] = [state |-> "ACTIVE", id |-> k[2]]] \in EntryType
  <1>1. k[1] \in Slots /\ k[2] \in Ids /\ 0 \in Ids
    BY KeyFacts
  <1>2. entry \in EntryType
    BY DEF LobbyOK, EntryType
  <1>3. ClearEntry(k) \in EntryType
    BY <1>1, <1>2 DEF ClearEntry, EmptyEntry, EntryType
  <1> QED
    BY <1>1, <1>2, <1>3 DEF EntryType

LEMMA LobbyMoves ==
  ASSUME LobbyOK, NEW k \in Key, entry' \in EntryType, active' \subseteq active \cup {k}, overtaken' \subseteq overtaken \cup {k}
  PROVE  LobbyOK'
  BY DEF LobbyOK, EntryType

LEMMA QueueTyped ==
  ASSUME Typed, NEW t \in LobbyThreads,
         DequeueLobbyTask(t) \/ AddSession(t) \/ ForgetSession(t) \/ RemoveActiveSession(t)
  PROVE  Typed'
  <1>1. CASE DequeueLobbyTask(t)
    <2>1. lobbyTasks \in Seq(LobbyTask) /\ Len(lobbyTasks) \in Nat /\ claim \in 0..Len(lobbyTasks) /\ claim > 0
      BY <1>1, LenProperties DEF Typed, QueueOK, DequeueLobbyTask
    <2>2. lobbyTasks # <<>>
      BY <2>1
    <2>3. Head(lobbyTasks) \in LobbyTask /\ Tail(lobbyTasks) \in Seq(LobbyTask) /\ Len(Tail(lobbyTasks)) = Len(lobbyTasks) - 1
      BY <2>1, <2>2, HeadTailProperties
    <2>4. QueueOK'
      BY <1>1, <2>1, <2>3 DEF Typed, QueueOK, DequeueLobbyTask
    <2>5. ThreadOK'
      BY <1>1, <2>3 DEF Typed, ThreadOK, DequeueLobbyTask
    <2> QED
      BY <1>1, <2>4, <2>5, Frames DEF Typed, DequeueLobbyTask, sessVars, lobbyVars, gameVars
  <1>2. CASE AddSession(t)
    <2>0. ltask[t].key \in Key
      BY <1>2, ThreadKey DEF Typed, AddSession
    <2>1. LobbyOK'
      <3>1. entry' \in EntryType /\ active' \subseteq active \cup {ltask[t].key} /\ UNCHANGED overtaken
        BY <1>2, <2>0, EntryMoves DEF Typed, AddSession, lobbyVars
      <3> QED
        BY <2>0, <3>1, LobbyMoves DEF Typed
    <2>2. ThreadOK'
      BY <1>2, ThreadMoves DEF Typed, AddSession
    <2> QED
      BY <1>2, <2>1, <2>2, Frames DEF Typed, AddSession, sessVars, phaseVars, gameVars
  <1>3. CASE ForgetSession(t)
    <2>0. ltask[t].key \in Key
      BY <1>3, ThreadKey DEF Typed, ForgetSession
    <2>1. LobbyOK'
      BY <1>3, <2>0, EntryMoves, LobbyMoves DEF Typed, ForgetSession
    <2>2. ThreadOK'
      BY <1>3, ThreadMoves DEF Typed, ForgetSession
    <2> QED
      BY <1>3, <2>1, <2>2, Frames DEF Typed, ForgetSession, sessVars, phaseVars, gameVars
  <1>4. CASE RemoveActiveSession(t)
    <2>1. LobbyOK'
      BY <1>4 DEF Typed, LobbyOK, RemoveActiveSession
    <2>2. ThreadOK'
      BY <1>4, ThreadMoves DEF Typed, RemoveActiveSession
    <2> QED
      BY <1>4, <2>1, <2>2, Frames DEF Typed, RemoveActiveSession, sessVars, phaseVars, gameVars
  <1> QED
    BY <1>1, <1>2, <1>3, <1>4

\* A join that is asked for.
LEMMA JoinTyped ==
  ASSUME Typed, NEW r \in RoomKeys, NEW k \in Key, NEW match \in BOOLEAN, JoinTask(r, k, match),
         UNCHANGED <<phaseVars, gameVars>>
  PROVE  QueueOK' /\ RoomsOK' /\ MakersOK'
  <1>1. CASE QuietKept(r) /\ UNCHANGED lobbyTasks
    BY <1>1, QuietMoves, Frames DEF Typed, phaseVars, gameVars
  <1>2. CASE UNCHANGED rooms /\ lobbyTasks' = Append(lobbyTasks, TransitionResult(k, FALSE, match))
    <2>1. TransitionResult(k, FALSE, match) \in LobbyTask
      BY TaskTypes
    <2> QED
      BY <1>2, <2>1, PostedTask, Frames DEF Typed, phaseVars, gameVars
  <1> QED
    BY <1>1, <1>2, JoinQuiet DEF Typed

LEMMA EnterTyped ==
  ASSUME Typed, NEW t \in LobbyThreads, ReturnToLobby(t) \/ EnterLobby(t) \/ ActivateEntry(t)
  PROVE  Typed'
  <1> DEFINE k == ltask[t].key
  <1>0. k \in Key /\ k[1] \in Slots /\ ltask[t] \in LobbyTask /\ sess[k[1]] \in Session
    BY ThreadKey DEF Typed, SessOK, ReturnToLobby, EnterLobby, ActivateEntry
  <1>1. CASE ReturnToLobby(t)
    <2>1. ThreadOK'
      BY <1>1, ThreadMoves DEF Typed, ReturnToLobby
    <2>2. LobbyOK'
      <3>1. entry' \in EntryType /\ UNCHANGED <<active, overtaken>>
        BY <1>0, <1>1, EntryMoves DEF Typed, ReturnToLobby
      <3> QED
        BY <1>0, <3>1, LobbyMoves DEF Typed
    <2>3. QueueOK' /\ RoomsOK' /\ MakersOK'
      <3>1. CASE UNCHANGED <<lobbyTasks, rooms>>
        BY <1>1, <3>1, Frames DEF Typed, ReturnToLobby, phaseVars, gameVars
      <3>2. CASE \E r \in RoomKeys : JoinTask(r, k, TRUE)
        BY <1>0, <1>1, <3>2, JoinTyped DEF ReturnToLobby
      <3> QED
        BY <1>1, <3>1, <3>2 DEF ReturnToLobby
    <2> QED
      BY <1>1, <2>1, <2>2, <2>3, Frames DEF Typed, ReturnToLobby, sessVars, gameVars
  <1>2. CASE EnterLobby(t)
    <2>1. ThreadOK'
      BY <1>2, ThreadMoves DEF Typed, EnterLobby
    <2>2. LobbyOK'
      <3>1. entry' \in EntryType /\ UNCHANGED active /\ overtaken' \subseteq overtaken \cup {k}
        BY <1>0, <1>2, EntryMoves DEF Typed, EnterLobby
      <3> QED
        BY <1>0, <3>1, LobbyMoves DEF Typed
    <2>3. QueueOK'
      BY <1>0, <1>2, PostedTask, Frames DEF Typed, EnterLobby, Requeued, phaseVars
    <2>4. SessOK'
      <3> DEFINE x == [sess[k[1]] EXCEPT !.right = TRUE, !.mode = "LOBBY", !.room = NoIndex]
      <3>1. CASE UNCHANGED sess
        BY <1>2, <3>1, Frames DEF Typed, EnterLobby
      <3>2. CASE sess' = [sess EXCEPT ![k[1]] = x]
        <4>1. x \in Session /\ x.mode = "LOBBY"
          BY <1>0 DEF Session
        <4> QED
          BY <1>0, <1>2, <3>2, <4>1, SessionMoves DEF Typed, EnterLobby
      <3> QED
        BY <1>2, <3>1, <3>2 DEF EnterLobby
    <2> QED
      BY <1>2, <2>1, <2>2, <2>3, <2>4, Frames DEF Typed, EnterLobby, gameVars
  <1>3. CASE ActivateEntry(t)
    <2>1. ThreadOK'
      BY <1>3, ThreadMoves DEF Typed, ActivateEntry
    <2>2. LobbyOK'
      <3>1. entry' \in EntryType /\ active' \subseteq active \cup {k} /\ overtaken' \subseteq overtaken \cup {k}
        BY <1>0, <1>3, EntryMoves DEF Typed, ActivateEntry
      <3> QED
        BY <1>0, <3>1, LobbyMoves DEF Typed
    <2>3. SessOK'
      BY <1>0, <1>3, RightMoves DEF Typed, ActivateEntry
    <2> QED
      BY <1>3, <2>1, <2>2, <2>3, Frames DEF Typed, ActivateEntry, phaseVars, gameVars
  <1> QED
    BY <1>1, <1>2, <1>3

LEMMA FinalizeTyped ==
  ASSUME Typed, NEW t \in LobbyThreads,
         BeginFinalize(t) \/ FinalizeInRoom(t) \/ FinalizeOutsideRoom(t) \/ FreeSlot(t)
  PROVE  Typed'
  <1> DEFINE k == ltask[t].key
             s == k[1]
  <1>0. k \in Key /\ s \in Slots /\ k[2] \in Ids /\ ltask[t] \in LobbyTask /\ sess[s] \in Session
    BY ThreadKey DEF Typed, SessOK, BeginFinalize, FinalizeInRoom, FinalizeOutsideRoom, FreeSlot
  <1>1. CASE BeginFinalize(t)
    <2>1. ThreadOK'
      BY <1>1, ThreadMoves DEF Typed, BeginFinalize
    <2>2. QueueOK'
      BY <1>0, <1>1, PostedTask, Frames DEF Typed, BeginFinalize, Requeued, phaseVars
    <2>3. SessOK'
      BY <1>0, <1>1, RightMoves, Frames DEF Typed, BeginFinalize
    <2> QED
      BY <1>1, <2>1, <2>2, <2>3, Frames DEF Typed, BeginFinalize, lobbyVars, gameVars
  <1>2. CASE FinalizeInRoom(t)
    <2>1. ThreadOK'
      BY <1>2, ThreadMoves DEF Typed, FinalizeInRoom
    <2>2. sess[s].room \in RoomIndices /\ roomAt[sess[s].room] \in RoomKeys \cup {NoRoom} /\ Occupant(s) \in Key /\ Occupant(s)[1] = s
      BY <1>0, <1>2, OccupantKey DEF FinalizeInRoom, Typed, SessOK, TableOK
    <2>3. QueueOK' /\ SessOK' /\ RoomsOK' /\ MakersOK'
      <3>1. CASE /\ roomAt[sess[s].room] # NoRoom /\ AcceptsTasks(roomAt[sess[s].room])
                 /\ rooms' = AddRoomTask(rooms, roomAt[sess[s].room], RTask("REMOVE_PLAYER", Occupant(s)))
                 /\ sess' = [sess EXCEPT ![s].right = FALSE] /\ UNCHANGED lobbyTasks
        <4>1. RTask("REMOVE_PLAYER", Occupant(s)) \in RoomTask /\ roomAt[sess[s].room] \in RoomKeys
          BY <2>2, <3>1, RoomTaskTypes
        <4>2. QuietKept(roomAt[sess[s].room])
          BY <3>1, <4>1, QueuedQuiet DEF Typed
        <4>3. RoomsOK' /\ MakersOK'
          BY <1>2, <4>1, <4>2, QuietMoves DEF Typed, FinalizeInRoom, gameVars
        <4>4. SessOK'
          BY <1>0, <1>2, <3>1, RightMoves DEF Typed, FinalizeInRoom
        <4> QED
          BY <1>2, <3>1, <4>3, <4>4, Frames DEF Typed, FinalizeInRoom, phaseVars
      <3>2. CASE lobbyTasks' = Requeued(ltask[t]) /\ sess' = [sess EXCEPT ![s].right = FALSE] /\ UNCHANGED rooms
        <4>1. SessOK'
          BY <1>0, <1>2, <3>2, RightMoves DEF Typed, FinalizeInRoom
        <4>2. QueueOK'
          BY <1>0, <1>2, <3>2, PostedTask DEF Typed, FinalizeInRoom, Requeued
        <4> QED
          BY <1>2, <3>2, <4>1, <4>2, Frames DEF Typed, FinalizeInRoom, gameVars
      <3>3. CASE /\ lobbyTasks' = lobbyTasks \o RoomDisconnectNotice(Occupant(s)) /\ UNCHANGED rooms
                 /\ sess' = AfterRoomDisconnect([sess EXCEPT ![s].right = FALSE], Occupant(s))
        <4>1. SessOK'
          <5> DEFINE R == [sess EXCEPT ![s].right = FALSE]
                     y == [sess[s] EXCEPT !.right = FALSE]
                     x == [y EXCEPT !.mode = "NONE", !.room = NoIndex]
          <5>1. y \in Session /\ y.mode = sess[s].mode /\ y.room = sess[s].room
            BY <1>0 DEF Session
          <5>2. R[s] = y /\ sess \in [Slots -> Session] /\ R = [sess EXCEPT ![s] = y]
            BY <1>0 DEF Typed, SessOK
          <5>3. CASE sess' = R
            BY <1>0, <1>2, <5>3, RightMoves DEF Typed, FinalizeInRoom
          <5>4. CASE sess' = [R EXCEPT ![s] = [R[s] EXCEPT !.mode = "NONE", !.room = NoIndex]]
            <6>1. sess' = [sess EXCEPT ![s] = x]
              BY <1>0, <5>2, <5>4
            <6>2. x \in Session /\ x.mode = "NONE"
              BY <5>1 DEF Session
            <6> QED
              BY <1>0, <1>2, <6>1, <6>2, SessionMoves DEF Typed, FinalizeInRoom
          <5> QED
            BY <2>2, <3>3, <5>3, <5>4 DEF AfterRoomDisconnect
        <4>2. QueueOK'
          BY <1>2, <2>2, <3>3, NoticeTyped, PostedTasks DEF Typed, FinalizeInRoom
        <4> QED
          BY <1>2, <3>3, <4>1, <4>2, Frames DEF Typed, FinalizeInRoom, gameVars
      <3> QED
        BY <1>2, <3>1, <3>2, <3>3 DEF FinalizeInRoom
    <2> QED
      BY <1>2, <2>1, <2>3, Frames DEF Typed, FinalizeInRoom, lobbyVars, gameVars
  <1>3. CASE FinalizeOutsideRoom(t)
    <2>1. Occupant(s) \in Key /\ Occupant(s)[1] = s
      BY <1>0, OccupantKey DEF Typed
    <2>2. ThreadOK'
      <3>1. [ltask[t] EXCEPT !.key = Occupant(s)] \in LobbyTask
        BY <1>0, <2>1 DEF LobbyTask
      <3>2. ltask' = [ltask EXCEPT ![t] = [ltask[t] EXCEPT !.key = Occupant(s)]] /\ lpc' = [lpc EXCEPT ![t] = "free"]
        BY <1>3 DEF FinalizeOutsideRoom
      <3> QED
        BY <3>1, <3>2 DEF Typed, ThreadOK
    <2>3. LobbyOK'
      <3>1. entry' \in EntryType /\ active' \subseteq active /\ UNCHANGED overtaken
        BY <1>3, <2>1, EntryMoves DEF Typed, FinalizeOutsideRoom
      <3> QED
        BY <2>1, <3>1, LobbyMoves DEF Typed
    <2>4. SessOK'
      BY <1>0, <1>3, RightMoves DEF Typed, FinalizeOutsideRoom
    <2> QED
      BY <1>3, <2>2, <2>3, <2>4, Frames DEF Typed, FinalizeOutsideRoom, phaseVars, gameVars
  <1>4. CASE FreeSlot(t)
    <2>1. ThreadOK'
      BY <1>4, ThreadMoves DEF Typed, FreeSlot
    <2>2. SessOK'
      <3> DEFINE x == [EmptySession EXCEPT !.right = sess[s].right]
      <3>1. x \in Session /\ x.mode = "NONE"
        BY <1>0, KeyFacts DEF EmptySession, Session
      <3>2. CASE sess' = [sess EXCEPT ![s] = x]
        BY <1>0, <1>4, <3>1, <3>2, SessionMoves DEF Typed, FreeSlot
      <3>3. CASE UNCHANGED sess
        BY <1>4, <3>3, Frames DEF Typed, FreeSlot
      <3> QED
        BY <1>4, <3>2, <3>3 DEF FreeSlot
    <2> QED
      BY <1>4, <2>1, <2>2, Frames DEF Typed, FreeSlot, lobbyVars, phaseVars, gameVars
  <1> QED
    BY <1>1, <1>2, <1>3, <1>4

----------------------------------------------------------------------------
(* Every step keeps the types: the visits of the lobby. *)

LEMMA VisitTyped ==
  ASSUME Typed, NEW t \in LobbyThreads, EndVisit(t) \/ \E s \in Slots : VisitSession(t, s)
  PROVE  Typed'
  <1>1. CASE EndVisit(t)
    <2>1. ltask[t].key[1] \in Slots
      BY <1>1, ThreadKey DEF Typed, EndVisit
    <2>2. ThreadOK' /\ SessOK'
      BY <1>1, <2>1, ThreadMoves, RightMoves DEF Typed, EndVisit
    <2> QED
      BY <1>1, <2>2, Frames DEF Typed, EndVisit, lobbyVars, phaseVars, gameVars
  <1>2. ASSUME NEW s \in Slots, VisitSession(t, s) PROVE Typed'
    <2>1. LTask("VISIT", Occupant(s)) \in LobbyTask
      BY OccupantKey, TaskTypes DEF Typed, LobbyTaskType
    <2>2. ThreadOK'
      BY <1>2, <2>1 DEF Typed, ThreadOK, VisitSession
    <2>3. SessOK'
      BY <1>2, RightMoves DEF Typed, VisitSession
    <2> QED
      BY <1>2, <2>2, <2>3, Frames DEF Typed, VisitSession, lobbyVars, phaseVars, gameVars
  <1> QED
    BY <1>1, <1>2

LEMMA RequestTyped ==
  ASSUME Typed, NEW t \in LobbyThreads, LobbyRequest(t)
  PROVE  Typed'
  <1> DEFINE k == ltask[t].key
  <1>0. k \in Key /\ k[1] \in Slots /\ sess[k[1]] \in Session
    <2>1. lpc[t] = "visit"
      BY DEF LobbyRequest, Login, RequestCreate, DisconnectInLobby, RequestJoin, Transition, Visiting
    <2> QED
      BY <2>1, ThreadKey DEF Typed, SessOK
  <1>1. CASE Login(t)
    <2>1. [sess[k[1]] EXCEPT !.mode = "LOBBY"] \in Session /\ [sess[k[1]] EXCEPT !.mode = "LOBBY"].mode = "LOBBY"
      BY <1>0 DEF Session
    <2>2. SessOK'
      BY <1>0, <1>1, <2>1, SessionMoves DEF Typed, Login
    <2> QED
      BY <1>1, <2>2, Frames DEF Typed, Login, lobbyVars, phaseVars, threadVars, gameVars
  <1>2. CASE DisconnectInLobby(t)
    <2> DEFINE x == [sess[k[1]] EXCEPT !.life = "DISCONNECT_PENDING"]
    <2>1. x \in Session /\ x.mode = sess[k[1]].mode /\ x.room = sess[k[1]].room
      BY <1>0 DEF Session
    <2>2. sess' = [sess EXCEPT ![k[1]] = x] /\ UNCHANGED conn
      BY <1>2 DEF DisconnectInLobby, BeginDisconnect
    <2> HIDE DEF x
    <2>3. SessOK'
      BY <1>0, <2>1, <2>2, SessionMoves DEF Typed, SessOK
    <2> QED
      BY <1>2, <2>3, Frames DEF Typed, DisconnectInLobby, lobbyVars, phaseVars, threadVars, gameVars
  <1>3. CASE RequestCreate(t)
    <2>1. LobbyOK'
      BY <1>0, <1>3, EntryMoves, LobbyMoves DEF Typed, RequestCreate, PendingEntry
    <2>2. GameOK'
      <3>1. [type |-> "CREATE", key |-> k] \in LifecycleTask
        BY <1>0 DEF LifecycleTask
      <3>2. lifeTasks' \in Seq(LifecycleTask)
        BY <1>3, <3>1, AppendProperties DEF Typed, GameOK, RequestCreate
      <3> QED
        BY <1>3, <3>2 DEF Typed, GameOK, RequestCreate
    <2> QED
      BY <1>3, <2>1, <2>2, Frames DEF Typed, RequestCreate, sessVars, phaseVars, threadVars
  <1>4. ASSUME NEW r \in RoomKeys, NEW match \in BOOLEAN, RequestJoin(t, r, match) PROVE Typed'
    <2>1. LobbyOK'
      BY <1>0, <1>4, EntryMoves, LobbyMoves DEF Typed, RequestJoin, PendingEntry
    <2>2. QueueOK' /\ RoomsOK' /\ MakersOK'
      BY <1>0, <1>4, JoinTyped DEF RequestJoin
    <2> QED
      BY <1>4, <2>1, <2>2, Frames DEF Typed, RequestJoin, sessVars, phaseVars, threadVars, gameVars
  <1> QED
    BY <1>1, <1>2, <1>3, <1>4 DEF LobbyRequest

----------------------------------------------------------------------------
(* Every step keeps the types: the game threads and the rooms. *)

LEMMA CreateTyped ==
  ASSUME Typed, NEW g \in GameThreads, CreateStep(g)
  PROVE  Typed'
  <1>0. lifeTasks # <<>> => Head(lifeTasks) \in LifecycleTask /\ Tail(lifeTasks) \in Seq(LifecycleTask)
    BY HeadTailProperties DEF Typed, GameOK
  <1>1. CASE DeleteRoom(g)
    <2>1. TableOK'
      BY <1>1 DEF Typed, TableOK, DeleteRoom
    <2>2. GameOK'
      BY <1>0, <1>1 DEF Typed, GameOK, DeleteRoom
    <2> QED
      BY <1>1, <2>1, <2>2, Frames DEF Typed, DeleteRoom, sessVars, lobbyVars, phaseVars, threadVars
  <1>2. CASE BeginCreate(g)
    <2>0. Head(lifeTasks).key \in Key /\ Tail(lifeTasks) \in Seq(LifecycleTask)
      BY <1>0, <1>2 DEF BeginCreate, LifecycleTask
    <2>1. GameOK'
      BY <1>2, <2>0 DEF Typed, GameOK, BeginCreate
    <2>2. MakersOK'
      BY <1>2 DEF Typed, MakersOK, GameOK, BeginCreate
    <2>3. QueueOK'
      <3>1. TransitionResult(Head(lifeTasks).key, FALSE, FALSE) \in LobbyTask
        BY <2>0, TaskTypes
      <3> QED
        BY <1>2, <3>1, PostedTask, Frames DEF Typed, BeginCreate, CreateRefused, phaseVars
    <2> QED
      BY <1>2, <2>1, <2>2, <2>3, Frames DEF Typed, BeginCreate, sessVars, lobbyVars, threadVars
  <1>3. CASE RefuseCreate(g)
    <2>1. GameOK' /\ MakersOK'
      BY <1>3 DEF Typed, GameOK, MakersOK, RefuseCreate, DoneGame
    <2>2. QueueOK'
      <3>1. TransitionResult(gkey[g], FALSE, FALSE) \in LobbyTask
        BY <1>3, TaskTypes DEF Typed, GameOK, RefuseCreate
      <3> QED
        BY <1>3, <3>1, PostedTask DEF Typed, RefuseCreate, CreateRefused
    <2> QED
      BY <1>3, <2>1, <2>2, Frames DEF Typed, RefuseCreate, sessVars, lobbyVars, threadVars
  <1>4. CASE AnswerCreate(g)
    <2>1. GameOK' /\ MakersOK'
      BY <1>4 DEF Typed, GameOK, MakersOK, AnswerCreate
    <2>2. QueueOK'
      <3>1. TransitionResult(gkey[g], TRUE, FALSE) \in LobbyTask
        BY <1>4, TaskTypes DEF Typed, GameOK, AnswerCreate
      <3> QED
        BY <1>4, <3>1, PostedTask DEF Typed, AnswerCreate
    <2> QED
      BY <1>4, <2>1, <2>2, Frames DEF Typed, AnswerCreate, sessVars, lobbyVars, threadVars
  <1>5. CASE CompleteRoomInitialization(g)
    <2> DEFINE r == groom[g]
               v == ReadyRoom(rooms[r])
    <2>1. r \in RoomKeys /\ rooms[r].pc = "init" /\ gkey[g] \in Key /\ gkey[g][1] \in Slots /\ RoomOK(rooms[r])
      BY <1>5, KeyFacts DEF Typed, MakersOK, GameOK, RoomsOK, CompleteRoomInitialization
    <2>2. rooms' = [rooms EXCEPT ![r] = v]
      BY <1>5, <2>1, CompleteStep DEF Typed
    <2>3. RoomOK(v) /\ v \in Room
      BY <2>1, ReadyRoomOK DEF RoomOK
    <2> HIDE DEF v
    <2>4. rooms' \in [RoomKeys -> Room] /\ \A q \in RoomKeys : rooms'[q] = IF q = r THEN v ELSE rooms[q]
      BY <2>2, <2>3 DEF Typed, RoomsOK
    <2>5. RoomsOK'
      BY <2>3, <2>4 DEF Typed, RoomsOK
    <2>6. MakersOK'
      <3>1. \A h \in GameThreads : gpc'[h] \in {"created", "init"} =>
                h # g /\ gpc[h] \in {"created", "init"} /\ groom'[h] = groom[h] /\ gkey'[h] = gkey[h]
        BY <1>5 DEF CompleteRoomInitialization, DoneGame, Typed, GameOK
      <3>2. gpc[g] \in {"created", "init"}
        BY <1>5 DEF CompleteRoomInitialization
      <3>3. \A h \in GameThreads : gpc'[h] \in {"created", "init"} => groom[h] \in RoomKeys /\ groom[h] # r
        BY <3>1, <3>2 DEF Typed, MakersOK
      <3> QED
        BY <2>4, <3>1, <3>3 DEF Typed, MakersOK
    <2>7. GameOK'
      BY <1>5 DEF Typed, GameOK, CompleteRoomInitialization, DoneGame
    <2>8. SessOK'
      BY <1>5, <2>1, RightMoves DEF Typed, CompleteRoomInitialization
    <2> QED
      BY <1>5, <2>5, <2>6, <2>7, <2>8, Frames DEF Typed, CompleteRoomInitialization, lobbyVars, phaseVars, threadVars
  <1>6. ASSUME NEW r \in RoomKeys, NEW i \in RoomIndices, NEW max \in {1, Cardinality(Seats)}, CreateRoom(g, r, i, max)
        PROVE  Typed'
    <2> DEFINE k == gkey[g]
               v == MadeRoom(i, max, k)
               x == [sess[k[1]] EXCEPT !.mode = "ROOM", !.room = i, !.right = TRUE]
    <2>1. k \in Key /\ k[1] \in Slots /\ sess[k[1]] \in Session
      BY <1>6, KeyFacts DEF CreateRoom, Typed, GameOK, SessOK
    <2>2. rooms' = [rooms EXCEPT ![r] = v] /\ rooms[r] = NewRoom
      BY <1>6, <2>1, CreateRoomStep DEF Typed
    <2>3. RoomOK(v) /\ v \in Room /\ v.pc = "init" /\ v.seats[1].key = k /\ v.host = k
      BY <2>1, MadeRoomOK, SeatFacts DEF RoomOK, MadeRoom
    <2>4. x \in Session /\ x.mode = "ROOM" /\ x.room = i
      BY <2>1 DEF Session
    <2>5. sess' = [sess EXCEPT ![k[1]] = x] /\ UNCHANGED conn
      BY <1>6 DEF CreateRoom
    <2> HIDE DEF v, x
    <2>6. SessOK'
      BY <2>1, <2>4, <2>5, SessionMoves DEF Typed
    <2>7. rooms' \in [RoomKeys -> Room] /\ \A q \in RoomKeys : rooms'[q] = IF q = r THEN v ELSE rooms[q]
      BY <2>2, <2>3 DEF Typed, RoomsOK
    <2>8. RoomsOK'
      BY <2>3, <2>7 DEF Typed, RoomsOK
    <2>9. TableOK'
      BY <1>6 DEF Typed, TableOK, CreateRoom
    <2>10. GameOK'
      BY <1>6 DEF Typed, GameOK, CreateRoom
    <2>11. MakersOK'
      <3>1. rooms[r].pc = "unused" /\ UNCHANGED gkey
        BY <1>6 DEF CreateRoom
      <3>2. \A h \in GameThreads : gpc'[h] \in {"created", "init"} =>
                h = g \/ (gpc[h] \in {"created", "init"} /\ groom'[h] = groom[h])
        BY <1>6 DEF CreateRoom, Typed, GameOK
      <3>3. groom'[g] = r
        BY <1>6 DEF CreateRoom, Typed, GameOK
      <3>4. \A h \in GameThreads : gpc[h] \in {"created", "init"} => groom[h] # r
        BY <3>1 DEF Typed, MakersOK
      <3> QED
        BY <2>3, <2>7, <3>1, <3>2, <3>3, <3>4 DEF Typed, MakersOK
    <2> QED
      BY <1>6, <2>6, <2>8, <2>9, <2>10, <2>11, Frames DEF Typed, CreateRoom, lobbyVars, phaseVars, threadVars
  <1> QED
    BY <1>1, <1>2, <1>3, <1>4, <1>5, <1>6 DEF CreateStep

\* A player who leaves or sits down.
LEMMA PlayerMoves ==
  ASSUME RoomsOK, MakersOK, NEW r \in RoomKeys, NEW k,
         \E v : (Left(rooms[r], v, k) \/ Joined(rooms[r], v, k) \/ Posted(rooms[r], v)) /\ rooms' = [rooms EXCEPT ![r] = v],
         UNCHANGED <<gpc, gkey, groom>>
  PROVE  RoomsOK' /\ MakersOK'
  <1>1. PICK v : (Left(rooms[r], v, k) \/ Joined(rooms[r], v, k) \/ Posted(rooms[r], v)) /\ rooms' = [rooms EXCEPT ![r] = v]
    OBVIOUS
  <1>2. RoomOK(v) /\ rooms[r].pc # "init"
    BY <1>1 DEF Left, Joined, Posted
  <1> QED
    BY <1>1, <1>2, RoomMoves

\* The room that a made room's tick is in.
LEMMA MadeIndex ==
  ASSUME RoomsOK, NEW r \in RoomKeys, rooms[r].pc # "unused"
  PROVE  rooms[r].index \in RoomIndices
  BY DEF RoomsOK, RoomOK, LifeOK

LEMMA ToLobbyTyped ==
  ASSUME Typed, NEW r \in RoomKeys, AtTask(r), NEW k \in Key, Seated(r, k) # {},
         ToLobby(r, AfterTask(rooms[r]), k), UNCHANGED <<conn, phaseVars, gameVars>>
  PROVE  SessOK' /\ QueueOK' /\ RoomsOK' /\ MakersOK'
  <1>1. SessOK'
    BY DisconnectMoves DEF Typed, ToLobby
  <1>2. RoomsOK' /\ MakersOK'
    BY RemovedStep, PlayerMoves DEF Typed, ToLobby, gameVars
  <1>3. AfterTask(rooms[r]).index \in RoomIndices
    BY AfterTaskOK, MadeIndex DEF Typed, RoomsOK, AtTask
  <1> DEFINE task == [LTask("ENTER_LOBBY", k) EXCEPT !.room = AfterTask(rooms[r]).index]
  <1>4. task \in LobbyTask
    BY <1>3, TaskTypes DEF LobbyTaskType
  <1>5. lobbyTasks' = (lobbyTasks \o RoomDisconnectNotice(k)) \o <<task>>
    BY DEF ToLobby
  <1> HIDE DEF task
  <1>6. <<task>> \in Seq(LobbyTask) /\ RoomDisconnectNotice(k) \in Seq(LobbyTask) /\ lobbyTasks \in Seq(LobbyTask)
    BY <1>4, NoticeTyped DEF Typed, QueueOK
  <1>7. lobbyTasks' = lobbyTasks \o (RoomDisconnectNotice(k) \o <<task>>) /\ RoomDisconnectNotice(k) \o <<task>> \in Seq(LobbyTask)
    BY <1>5, <1>6, ConcatAssociative, ConcatProperties
  <1>8. QueueOK'
    BY <1>7, PostedTasks DEF Typed
  <1> QED
    BY <1>1, <1>2, <1>8

LEMMA TaskAtHand ==
  ASSUME RoomsOK, NEW r \in RoomKeys, AtTask(r)
  PROVE  Head(rooms[r].tasks) \in RoomTask /\ Head(rooms[r].tasks).key \in Key /\ Head(rooms[r].tasks).key[1] \in Slots
  <1>1. Head(rooms[r].tasks) \in RoomTask
    BY AfterTaskOK DEF RoomsOK, AtTask
  <1> QED
    BY <1>1, KeyFacts DEF RoomTask

LEMMA RoomTaskTyped ==
  ASSUME Typed, NEW r \in RoomKeys, ProcessRoomTask(r)
  PROVE  Typed'
  <1> DEFINE task == Head(rooms[r].tasks)
             k == task.key
  <1>0. AtTask(r) /\ task \in RoomTask /\ k \in Key /\ k[1] \in Slots /\ sess[k[1]] \in Session
    <2>1. AtTask(r)
      BY DEF ProcessRoomTask, ProcessJoin, ProcessRemove, ProcessKick, ProcessStart, ProcessGiveUp, TaskReady
    <2> QED
      BY <2>1, TaskAtHand DEF Typed, SessOK
  <1>1. CASE ProcessJoin(r)
    <2>0. \A ok \in BOOLEAN : TransitionResult(k, ok, task.match) \in LobbyTask
      BY <1>0, TaskTypes DEF RoomTask
    <2>1. CASE /\ MayJoin(r, k)
               /\ rooms' = [rooms EXCEPT ![r] = SeatPlayer(AfterTask(rooms[r]), k)]
               /\ sess' = [sess EXCEPT ![k[1]] = [sess[k[1]] EXCEPT !.mode = "ROOM", !.room = rooms[r].index]]
               /\ lobbyTasks' = Append(lobbyTasks, TransitionResult(k, TRUE, task.match))
      <3>1. RoomsOK' /\ MakersOK'
        BY <1>0, <1>1, <2>1, JoinedStep, PlayerMoves DEF Typed, ProcessJoin, gameVars
      <3>2. QueueOK'
        BY <1>1, <2>0, <2>1, PostedTask DEF Typed, ProcessJoin
      <3>3. rooms[r].index \in RoomIndices
        BY <1>0, MadeIndex DEF Typed, AtTask
      <3> DEFINE x == [sess[k[1]] EXCEPT !.mode = "ROOM", !.room = rooms[r].index]
      <3>4. x \in Session /\ x.room \in RoomIndices
        BY <1>0, <3>3 DEF Session
      <3> HIDE DEF x
      <3>5. SessOK'
        BY <1>0, <1>1, <2>1, <3>4, SessionMoves DEF Typed, ProcessJoin, x
      <3> QED
        BY <1>1, <3>1, <3>2, <3>5, Frames DEF Typed, ProcessJoin, lobbyVars, threadVars, gameVars
    <2>2. CASE /\ rooms' = [rooms EXCEPT ![r] = AfterTask(@)] /\ UNCHANGED sess
               /\ lobbyTasks' = Append(lobbyTasks, TransitionResult(k, FALSE, task.match))
      <3>1. RoomsOK' /\ MakersOK'
        BY <1>0, <1>1, <2>2, TaskDone, QuietMoves DEF Typed, ProcessJoin, gameVars
      <3>2. QueueOK'
        BY <1>1, <2>0, <2>2, PostedTask DEF Typed, ProcessJoin
      <3> QED
        BY <1>1, <2>2, <3>1, <3>2, Frames DEF Typed, ProcessJoin, lobbyVars, threadVars, gameVars
    <2> QED
      BY <1>1, <2>1, <2>2 DEF ProcessJoin
  <1>2. CASE ProcessRemove(r)
    <2>1. CASE SeatActive(r, k) /\ ToLobby(r, AfterTask(rooms[r]), k)
      <3>1. SessOK' /\ QueueOK' /\ RoomsOK' /\ MakersOK'
        BY <1>0, <1>2, <2>1, ToLobbyTyped DEF ProcessRemove, SeatActive
      <3> QED
        BY <1>2, <3>1, Frames DEF Typed, ProcessRemove, lobbyVars, threadVars, gameVars
    <2>2. CASE /\ Seated(r, k) # {} /\ rooms' = [rooms EXCEPT ![r] = RemovedFrom(AfterTask(rooms[r]), k)]
               /\ sess' = AfterRoomDisconnect(sess, k) /\ lobbyTasks' = lobbyTasks \o RoomDisconnectNotice(k)
      <3>1. RoomsOK' /\ MakersOK'
        BY <1>0, <1>2, <2>2, RemovedStep, PlayerMoves DEF Typed, ProcessRemove, gameVars
      <3>2. SessOK' /\ QueueOK'
        BY <1>0, <1>2, <2>2, DisconnectMoves, NoticeTyped, PostedTasks DEF Typed, ProcessRemove
      <3> QED
        BY <1>2, <3>1, <3>2, Frames DEF Typed, ProcessRemove, lobbyVars, threadVars, gameVars
    <2>3. CASE rooms' = [rooms EXCEPT ![r] = AfterTask(@)] /\ UNCHANGED <<sess, lobbyTasks>>
      <3>1. RoomsOK' /\ MakersOK'
        BY <1>0, <1>2, <2>3, TaskDone, QuietMoves DEF Typed, ProcessRemove, gameVars
      <3> QED
        BY <1>2, <2>3, <3>1, Frames DEF Typed, ProcessRemove, lobbyVars, phaseVars, threadVars, gameVars
    <2> QED
      BY <1>2, <2>1, <2>2, <2>3 DEF ProcessRemove
  <1>3. CASE ProcessKick(r)
    <2>1. ASSUME NEW c \in KickTarget(r, task), ToLobby(r, AfterTask(rooms[r]), c) PROVE Typed'
      <3>1. SeatActive(r, c) /\ c = task.target
        BY <2>1 DEF KickTarget
      <3>2. Seated(r, c) # {} /\ c \in Key
        <4>1. PICK n \in Seats : rooms[r].seats[n].key = c /\ rooms[r].seats[n].state # "EMPTY" /\ n \in Seated(r, c)
          BY <3>1 DEF SeatActive, Seated
        <4> QED
          BY <4>1, TakenKey DEF Typed
      <3>3. SessOK' /\ QueueOK' /\ RoomsOK' /\ MakersOK'
        BY <1>0, <1>3, <2>1, <3>2, ToLobbyTyped DEF ProcessKick
      <3> QED
        BY <1>3, <3>3, Frames DEF Typed, ProcessKick, lobbyVars, threadVars, gameVars
    <2>2. CASE rooms' = [rooms EXCEPT ![r] = AfterTask(@)] /\ UNCHANGED <<sess, lobbyTasks>>
      <3>1. RoomsOK' /\ MakersOK'
        BY <1>0, <1>3, <2>2, TaskDone, QuietMoves DEF Typed, ProcessKick, gameVars
      <3> QED
        BY <1>3, <2>2, <3>1, Frames DEF Typed, ProcessKick, lobbyVars, phaseVars, threadVars, gameVars
    <2> QED
      BY <1>3, <2>1, <2>2 DEF ProcessKick
  <1>4. CASE ProcessStart(r) \/ ProcessGiveUp(r)
    <2>1. UNCHANGED <<sessVars, lobbyVars, lobbyTasks, phaseVars, threadVars, roomAt, gameVars, overtaken>>
      BY <1>4 DEF ProcessStart, ProcessGiveUp
    <2>2. RoomsOK' /\ MakersOK'
      BY <1>4, <2>1, GameQuiet, QuietMoves DEF Typed, gameVars
    <2> QED
      BY <2>1, <2>2, Frames DEF Typed, sessVars, lobbyVars, phaseVars, threadVars, gameVars
  <1> QED
    BY <1>1, <1>2, <1>3, <1>4 DEF ProcessRoomTask

LEMMA TickTyped ==
  ASSUME Typed, NEW r \in RoomKeys,
         BeginTick(r) \/ ClaimTasks(r) \/ KeepPending(r) \/ EndRoomTasks(r) \/ VisitSeat(r) \/ EndSeatVisit(r) \/ PlayTick(r)
  PROVE  Typed'
  <1>1. CASE BeginTick(r) \/ ClaimTasks(r) \/ KeepPending(r) \/ PlayTick(r)
    <2>1. UNCHANGED <<sessVars, lobbyVars, lobbyTasks, phaseVars, threadVars, roomAt, gameVars, overtaken>>
      BY <1>1 DEF BeginTick, ClaimTasks, KeepPending, PlayTick
    <2>2. RoomsOK' /\ MakersOK'
      BY <1>1, <2>1, TickQuiet, PlayQuiet, QuietMoves DEF Typed, gameVars
    <2> QED
      BY <2>1, <2>2, Frames DEF Typed, sessVars, lobbyVars, phaseVars, threadVars, gameVars
  <1>2. CASE EndRoomTasks(r)
    <2>1. UNCHANGED <<sessVars, lobbyVars, lobbyTasks, phaseVars, threadVars, roomAt, gpc, gkey, groom, overtaken>>
      BY <1>2 DEF EndRoomTasks
    <2>2. RoomsOK' /\ MakersOK'
      BY <1>2, <2>1, EndRoomTasksStep, QuietMoves, PlayerMoves DEF Typed
    <2>3. rooms[r].index \in RoomIndices
      BY <1>2, MadeIndex DEF Typed, EndRoomTasks
    <2>4. [type |-> "DELETE_ROOM", index |-> rooms[r].index] \in LifecycleTask
      BY <2>3 DEF LifecycleTask
    <2>5. lifeTasks' \in Seq(LifecycleTask)
      BY <1>2, <2>4, AppendProperties DEF Typed, GameOK, EndRoomTasks
    <2>6. GameOK'
      BY <2>1, <2>5 DEF Typed, GameOK
    <2> QED
      BY <2>1, <2>2, <2>6, Frames DEF Typed, sessVars, lobbyVars, phaseVars, threadVars
  <1>3. CASE VisitSeat(r)
    <2>1. UNCHANGED <<conn, lobbyVars, lobbyTasks, phaseVars, threadVars, roomAt, gameVars, overtaken>>
      BY <1>3 DEF VisitSeat
    <2>2. RoomsOK' /\ MakersOK'
      <3>1. QuietStep(r) \/ QuietKept(r)
        BY <1>3, VisitSeatSteps DEF Typed, QuietStep
      <3> QED
        BY <2>1, <3>1, QuietMoves DEF Typed, gameVars
    <2>3. SessOK'
      <3>1. SeatKey(r) \in Key => SeatKey(r)[1] \in Slots
        BY KeyFacts
      <3> QED
        BY <1>3, <2>1, <3>1, VisitSeatSteps, RightMoves, Frames DEF Typed
    <2> QED
      BY <2>1, <2>2, <2>3, Frames DEF Typed, lobbyVars, phaseVars, threadVars, gameVars
  <1>4. CASE EndSeatVisit(r)
    <2>1. UNCHANGED <<conn, lobbyVars, lobbyTasks, phaseVars, threadVars, roomAt, gameVars, overtaken>>
      BY <1>4 DEF EndSeatVisit
    <2>2. QuietStep(r) /\ rooms[r].held[1] \in Slots
      BY <1>4, EndSeatVisitStep, KeyFacts DEF Typed, QuietStep
    <2>3. RoomsOK' /\ MakersOK'
      BY <2>1, <2>2, QuietMoves DEF Typed, gameVars
    <2>4. SessOK'
      BY <1>4, <2>1, <2>2, RightMoves DEF Typed, EndSeatVisit
    <2> QED
      BY <2>1, <2>3, <2>4, Frames DEF Typed, lobbyVars, phaseVars, threadVars, gameVars
  <1> QED
    BY <1>1, <1>2, <1>3, <1>4

LEMMA RoomRequestTyped ==
  ASSUME Typed, NEW r \in RoomKeys, RoomRequest(r)
  PROVE  Typed'
  <1>1. CASE LeaveRoom(r)
    <2>1. UNCHANGED <<sessVars, lobbyVars, phaseVars, threadVars, roomAt, gameVars, overtaken>>
      BY <1>1 DEF LeaveRoom
    <2>2. RoomsOK' /\ MakersOK' /\ SeatKey(r) \in Key
      BY <1>1, <2>1, LeaveRoomStep, PlayerMoves DEF Typed, gameVars
    <2>3. rooms[r].index \in RoomIndices
      BY <1>1, MadeIndex DEF Typed, LeaveRoom, Holding
    <2>4. [LTask("ENTER_LOBBY", SeatKey(r)) EXCEPT !.room = rooms[r].index] \in LobbyTask
      BY <2>2, <2>3, TaskTypes DEF LobbyTaskType
    <2>5. QueueOK'
      BY <1>1, <2>1, <2>4, PostedTask DEF Typed, LeaveRoom
    <2> QED
      BY <2>1, <2>2, <2>5, Frames DEF Typed, sessVars, lobbyVars, threadVars, gameVars
  <1>2. CASE DisconnectInRoom(r)
    <2> DEFINE s == SeatKey(r)[1]
               x == [sess[s] EXCEPT !.life = "DISCONNECT_PENDING"]
    <2>0. s \in Slots /\ sess[s] \in Session
      <3>1. rooms[r].seat \in Seats /\ rooms[r].seats[rooms[r].seat].state = "ACTIVE"
        BY <1>2 DEF Typed, RoomsOK, RoomOK, LifeOK, DisconnectInRoom, Holding, Visitable
      <3>2. SeatKey(r) \in Key
        BY <3>1, TakenKey DEF SeatKey, Typed
      <3> QED
        BY <3>2, KeyFacts DEF Typed, SessOK
    <2>1. x \in Session /\ x.mode = sess[s].mode /\ x.room = sess[s].room
      BY <2>0 DEF Session
    <2>2. sess' = [sess EXCEPT ![s] = x] /\ UNCHANGED conn
      BY <1>2 DEF DisconnectInRoom, BeginDisconnect
    <2> HIDE DEF x, s
    <2>3. SessOK'
      BY <2>0, <2>1, <2>2, SessionMoves DEF Typed, SessOK
    <2> QED
      BY <1>2, <2>3, Frames DEF Typed, DisconnectInRoom, lobbyVars, phaseVars, threadVars, gameVars
  <1>3. ASSUME NEW type \in {"START", "KICK", "GIVE_UP"}, NEW target \in Key \cup {NoKey}, RequestRoomTask(r, type, target)
        PROVE  Typed'
    <2>1. UNCHANGED <<sessVars, lobbyVars, lobbyTasks, phaseVars, threadVars, roomAt, gameVars, overtaken>>
      BY <1>3 DEF RequestRoomTask
    <2>2. RoomsOK' /\ MakersOK'
      BY <1>3, <2>1, RequestQuiet, QuietMoves DEF Typed, gameVars
    <2> QED
      BY <2>1, <2>2, Frames DEF Typed, sessVars, lobbyVars, phaseVars, threadVars, gameVars
  <1> QED
    BY <1>1, <1>2, <1>3 DEF RoomRequest

LEMMA TypedInit == Init => Typed
  <1> SUFFICES ASSUME Init PROVE Typed
    OBVIOUS
  <1> USE DEF Init
  <1>1. SessOK
    BY KeyFacts DEF SessOK, Session, EmptySession
  <1>2. LobbyOK
    BY KeyFacts DEF LobbyOK, EmptyEntry
  <1>3. QueueOK
    BY EmptySeq DEF QueueOK
  <1>4. ThreadOK
    BY DEF ThreadOK
  <1>5. RoomsOK
    BY NewRoomOK DEF RoomsOK, RoomOK
  <1>6. TableOK
    BY DEF TableOK
  <1>7. GameOK /\ MakersOK
    BY EmptySeq DEF GameOK, MakersOK
  <1> QED
    BY <1>1, <1>2, <1>3, <1>4, <1>5, <1>6, <1>7 DEF Typed

LEMMA TypedNext == Typed /\ [Next]_vars => Typed'
  <1> SUFFICES ASSUME Typed, [Next]_vars PROVE Typed'
    OBVIOUS
  <1>1. CASE UNCHANGED vars
    BY <1>1, Frames DEF Typed, vars, sessVars, lobbyVars, phaseVars, threadVars, gameVars
  <1>2. ASSUME NEW s \in Slots, AcquireSession(s) \/ CompleteSessionIO(s) PROVE Typed'
    BY <1>2, NetworkTyped
  <1>3. CASE StartLobbyPhase \/ EndLobbyTasks
    BY <1>3, PhaseTyped
  <1>4. ASSUME NEW t \in LobbyThreads, LobbyTaskStep(t) PROVE Typed'
    BY <1>4, QueueTyped, EnterTyped, FinalizeTyped DEF LobbyTaskStep
  <1>5. ASSUME NEW t \in LobbyThreads, LobbyRequest(t) PROVE Typed'
    BY <1>5, RequestTyped
  <1>6. ASSUME NEW t \in LobbyThreads, EndVisit(t) \/ \E s \in Slots : VisitSession(t, s) PROVE Typed'
    BY <1>6, VisitTyped
  <1>7. ASSUME NEW g \in GameThreads, CreateStep(g) PROVE Typed'
    BY <1>7, CreateTyped
  <1>8. ASSUME NEW r \in RoomKeys, ProcessRoomTask(r) PROVE Typed'
    BY <1>8, RoomTaskTyped
  <1>9. ASSUME NEW r \in RoomKeys, BeginTick(r) \/ ClaimTasks(r) \/ KeepPending(r) \/ EndRoomTasks(r)
                                     \/ VisitSeat(r) \/ EndSeatVisit(r) \/ PlayTick(r)
        PROVE  Typed'
    BY <1>9, TickTyped
  <1>10. ASSUME NEW r \in RoomKeys, RoomRequest(r) PROVE Typed'
    BY <1>10, RoomRequestTyped
  <1> QED
    BY <1>1, <1>2, <1>3, <1>4, <1>5, <1>6, <1>7, <1>8, <1>9, <1>10 DEF Next, RoomTaskStep

\* The stronger invariant implies the type invariant of the model: a room never
\* counts more players than it has seats.
LEMMA TypedTypeOK == Typed => TypeOK
  <1> SUFFICES ASSUME Typed PROVE TypeOK
    OBVIOUS
  <1>1. ASSUME NEW r \in RoomKeys
        PROVE  rooms[r] \in
          [state : {"EMPTY", "WAIT", "PLAY", "WAITING_DELETE", "DELETE_POST"},
           index : RoomIndices \cup {NoIndex}, max : {0, 1, Cardinality(Seats)},
           seats : [Seats -> [state : {"EMPTY", "PENDING", "ACTIVE"}, key : Key \cup {NoKey}]],
           count : 0..Cardinality(Seats), host : Key \cup {NoKey}, tasks : Seq(RoomTask), left : Nat,
           pc : {"unused", "init", "idle", "pending", "claim", "tasks", "seats", "hold", "play"},
           pass : {1, 2}, seat : Seats \cup {0}, held : Key \cup {NoKey}]
    <2>1. rooms[r] \in Room /\ rooms[r].count = Cardinality(Taken(rooms[r].seats))
      BY DEF Typed, RoomsOK, RoomOK, PlayersOK
    <2>2. Cardinality(Taken(rooms[r].seats)) <= Cardinality(Seats)
      BY SeatFacts, FS_Subset DEF Taken
    <2>3. rooms[r].count \in 0..Cardinality(Seats)
      BY <2>1, <2>2, SeatFacts DEF Room
    <2>4. Seat \subseteq [state : {"EMPTY", "PENDING", "ACTIVE"}, key : Key \cup {NoKey}]
      BY DEF Seat, EmptySeat
    <2>5. rooms[r].seats \in [Seats -> [state : {"EMPTY", "PENDING", "ACTIVE"}, key : Key \cup {NoKey}]]
      BY <2>1, <2>4 DEF Room
    <2> QED
      BY <2>1, <2>3, <2>5 DEF Room
  <1>2. /\ sess \in [Slots -> [life : {"NONE", "ACTIVE", "DISCONNECT_PENDING", "DISCONNECTING"}, id : Ids,
                               mode : {"NONE", "LOGIN", "LOBBY", "ROOM"},
                               room : RoomIndices \cup {NoIndex}, right : BOOLEAN]]
        /\ conn \in [Slots -> Ids]
    BY DEF Typed, SessOK, Session
  <1>3. DOMAIN rooms = RoomKeys /\ rooms = [r \in RoomKeys |-> rooms[r]]
    BY DEF Typed, RoomsOK
  <1> QED
    BY <1>1, <1>2, <1>3 DEF Typed, TypeOK, LobbyOK, QueueOK, ThreadOK, TableOK, GameOK

\* Sessions, entries, queues, threads and rooms always have their types, the claim of a lobby
\* phase never exceeds the queue, and no room counts more players than it has seats.
THEOREM ServerTyped == Spec => []TypeOK
  <1>1. Spec => []Typed
    BY TypedInit, TypedNext, PTL DEF Spec
  <1> QED
    BY <1>1, TypedTypeOK, PTL

----------------------------------------------------------------------------
(* The processing right. *)

\* Everybody who has session s, whatever side it works on.
Holders(s) ==
  ({"lobby"} \X LobbyHolders(s)) \cup ({"game"} \X GameHolders(s)) \cup ({"room"} \X RoomHolders(s))

HoldOK ==
  \A s \in Slots : IF sess[s].right THEN \E h : Holders(s) = {h} ELSE Holders(s) = {}

\* Nothing changes hands.
LEMMA HoldSame ==
  ASSUME HoldOK, \A s \in Slots : sess'[s].right = sess[s].right /\ Holders(s)' = Holders(s)
  PROVE  HoldOK'
  BY Zenon DEF HoldOK

\* The right of s is taken by h, who had seen it free; the right of s is given back by h.
LEMMA HoldTaken ==
  ASSUME HoldOK, NEW s \in Slots, NEW h, ~sess[s].right, sess'[s].right,
         Holders(s)' = Holders(s) \cup {h},
         \A q \in Slots \ {s} : sess'[q].right = sess[q].right /\ Holders(q)' = Holders(q)
  PROVE  HoldOK'
  <1>1. Holders(s)' = {h}
    BY DEF HoldOK
  <1> QED
    BY <1>1, Zenon DEF HoldOK

LEMMA HoldReleased ==
  ASSUME HoldOK, NEW s \in Slots, NEW h \in Holders(s), ~sess'[s].right,
         Holders(s)' = Holders(s) \ {h},
         \A q \in Slots \ {s} : sess'[q].right = sess[q].right /\ Holders(q)' = Holders(q)
  PROVE  HoldOK'
  <1>1. Holders(s)' = {}
    BY DEF HoldOK
  <1> QED
    BY <1>1, Zenon DEF HoldOK

LEMMA HoldOne == HoldOK => OneHolder
  <1> SUFFICES ASSUME HoldOK, NEW s \in Slots
               PROVE  Cardinality(LobbyHolders(s)) + Cardinality(GameHolders(s)) + Cardinality(RoomHolders(s))
                        = IF sess[s].right THEN 1 ELSE 0
    BY DEF OneHolder
  <1> DEFINE L == LobbyHolders(s)
             G == GameHolders(s)
             R == RoomHolders(s)
  <1>1. Cardinality({}) = 0 /\ \A x : Cardinality({x}) = 1
    BY FS_EmptySet, FS_Singleton
  <1>4. \A x : /\ (x \in L => <<"lobby", x>> \in Holders(s)) /\ (x \in G => <<"game", x>> \in Holders(s))
               /\ (x \in R => <<"room", x>> \in Holders(s))
    BY DEF Holders
  <1>2. CASE ~sess[s].right
    <2>1. Holders(s) = {}
      BY <1>2 DEF HoldOK
    <2> HIDE DEF L, G, R
    <2>2. L = {} /\ G = {} /\ R = {}
      BY <1>4, <2>1
    <2> QED
      BY <1>1, <1>2, <2>2 DEF L, G, R
  <1>3. CASE sess[s].right
    <2>1. PICK h : Holders(s) = {h}
      BY <1>3 DEF HoldOK
    <2>3. \/ (\E x \in L : h = <<"lobby", x>>) \/ (\E x \in G : h = <<"game", x>>) \/ (\E x \in R : h = <<"room", x>>)
      BY <2>1 DEF Holders
    <2> HIDE DEF L, G, R
    <2>2. \A x : /\ (x \in L => h = <<"lobby", x>>) /\ (x \in G => h = <<"game", x>>)
                 /\ (x \in R => h = <<"room", x>>)
      BY <1>4, <2>1
    <2>4. ASSUME NEW x \in L, h = <<"lobby", x>> PROVE Cardinality(L) + Cardinality(G) + Cardinality(R) = 1
      <3>3. \A y : <<"game", y>> # h /\ <<"room", y>> # h
        BY <2>4
      <3>4. G = {} /\ R = {}
        BY <2>2, <3>3
      <3>1. ASSUME NEW y \in L PROVE y = x
        <4>1. <<"lobby", y>> = <<"lobby", x>>
          BY <2>2, <2>4
        <4> QED
          BY <4>1
      <3>2. L = {x}
        BY <3>1, Zenon
      <3>5. Cardinality(L) = 1 /\ Cardinality(G) = 0 /\ Cardinality(R) = 0
        BY <1>1, <3>2, <3>4, Zenon
      <3> QED
        BY <3>5
    <2>5. ASSUME NEW x \in G, h = <<"game", x>> PROVE Cardinality(L) + Cardinality(G) + Cardinality(R) = 1
      <3>3. \A y : <<"lobby", y>> # h /\ <<"room", y>> # h
        BY <2>5
      <3>4. L = {} /\ R = {}
        BY <2>2, <3>3
      <3>1. ASSUME NEW y \in G PROVE y = x
        <4>1. <<"game", y>> = <<"game", x>>
          BY <2>2, <2>5
        <4> QED
          BY <4>1
      <3>2. G = {x}
        BY <3>1, Zenon
      <3>5. Cardinality(G) = 1 /\ Cardinality(L) = 0 /\ Cardinality(R) = 0
        BY <1>1, <3>2, <3>4, Zenon
      <3> QED
        BY <3>5
    <2>6. ASSUME NEW x \in R, h = <<"room", x>> PROVE Cardinality(L) + Cardinality(G) + Cardinality(R) = 1
      <3>3. \A y : <<"lobby", y>> # h /\ <<"game", y>> # h
        BY <2>6
      <3>4. L = {} /\ G = {}
        BY <2>2, <3>3
      <3>1. ASSUME NEW y \in R PROVE y = x
        <4>1. <<"room", y>> = <<"room", x>>
          BY <2>2, <2>6
        <4> QED
          BY <4>1
      <3>2. R = {x}
        BY <3>1, Zenon
      <3>5. Cardinality(R) = 1 /\ Cardinality(L) = 0 /\ Cardinality(G) = 0
        BY <1>1, <3>2, <3>4, Zenon
      <3> QED
        BY <3>5
    <2>7. Cardinality(L) + Cardinality(G) + Cardinality(R) = 1
      BY <2>3, <2>4, <2>5, <2>6
    <2> QED
      BY <1>3, <2>7 DEF L, G, R
  <1> QED
    BY <1>2, <1>3

Working == {"visit", "enter", "finalize"}

\* A step of thread t that leaves the other threads alone: it begins to work on a session,
\* stops, or neither.
LEMMA LobbySide ==
  ASSUME NEW t \in LobbyThreads, NEW s,
         \A u \in LobbyThreads \ {t} : lpc'[u] = lpc[u] /\ ltask'[u] = ltask[u]
  PROVE  /\ ~(lpc'[t] \in Working /\ ltask'[t].key[1] = s) => LobbyHolders(s)' = LobbyHolders(s) \ {t}
         /\ (lpc'[t] \in Working /\ ltask'[t].key[1] = s) => LobbyHolders(s)' = LobbyHolders(s) \cup {t}
         /\ t \in LobbyHolders(s) <=> lpc[t] \in Working /\ ltask[t].key[1] = s
  <1>1. t \in LobbyHolders(s) <=> lpc[t] \in Working /\ ltask[t].key[1] = s
    BY DEF LobbyHolders, Working
  <1>2. t \in LobbyHolders(s)' <=> lpc'[t] \in Working /\ ltask'[t].key[1] = s
    BY DEF LobbyHolders, Working
  <1>3. \A u : u # t => (u \in LobbyHolders(s)' <=> u \in LobbyHolders(s))
    BY DEF LobbyHolders
  <1> QED
    BY <1>1, <1>2, <1>3, Zenon

LEMMA GameSide ==
  ASSUME NEW g \in GameThreads, NEW s,
         \A h \in GameThreads \ {g} : gpc'[h] = gpc[h] /\ gkey'[h] = gkey[h]
  PROVE  /\ ~(gpc'[g] \in {"created", "init"} /\ gkey'[g][1] = s) => GameHolders(s)' = GameHolders(s) \ {g}
         /\ (gpc'[g] \in {"created", "init"} /\ gkey'[g][1] = s) => GameHolders(s)' = GameHolders(s) \cup {g}
         /\ g \in GameHolders(s) <=> gpc[g] \in {"created", "init"} /\ gkey[g][1] = s
  <1>1. g \in GameHolders(s) <=> gpc[g] \in {"created", "init"} /\ gkey[g][1] = s
    BY DEF GameHolders
  <1>2. g \in GameHolders(s)' <=> gpc'[g] \in {"created", "init"} /\ gkey'[g][1] = s
    BY DEF GameHolders
  <1>3. \A u : u # g => (u \in GameHolders(s)' <=> u \in GameHolders(s))
    BY DEF GameHolders
  <1> QED
    BY <1>1, <1>2, <1>3, Zenon

LEMMA RoomSide ==
  ASSUME RoomsOK, NEW r \in RoomKeys, NEW s, NEW v, rooms' = [rooms EXCEPT ![r] = v]
  PROVE  /\ ~(v.pc = "hold" /\ v.held[1] = s) => RoomHolders(s)' = RoomHolders(s) \ {r}
         /\ (v.pc = "hold" /\ v.held[1] = s) => RoomHolders(s)' = RoomHolders(s) \cup {r}
         /\ r \in RoomHolders(s) <=> rooms[r].pc = "hold" /\ rooms[r].held[1] = s
  <1>0. rooms'[r] = v /\ \A u \in RoomKeys : u # r => rooms'[u] = rooms[u]
    BY DEF RoomsOK
  <1>1. r \in RoomHolders(s) <=> rooms[r].pc = "hold" /\ rooms[r].held[1] = s
    BY DEF RoomHolders
  <1>2. r \in RoomHolders(s)' <=> v.pc = "hold" /\ v.held[1] = s
    BY <1>0 DEF RoomHolders
  <1>3. \A u : u # r => (u \in RoomHolders(s)' <=> u \in RoomHolders(s))
    BY <1>0 DEF RoomHolders
  <1> QED
    BY <1>1, <1>2, <1>3, Zenon

\* The sides that take no part in a step.
LobbySame == \A s \in Slots : LobbyHolders(s)' = LobbyHolders(s)
GameSame == \A s \in Slots : GameHolders(s)' = GameHolders(s)
RoomSame == \A s \in Slots : RoomHolders(s)' = RoomHolders(s)

LEMMA SidesSame ==
  /\ UNCHANGED <<lpc, ltask>> => LobbySame
  /\ UNCHANGED <<gpc, gkey>> => GameSame
  /\ UNCHANGED rooms => RoomSame
  BY DEF LobbySame, GameSame, RoomSame, LobbyHolders, GameHolders, RoomHolders

LEMMA HeldRoomSame ==
  ASSUME RoomsOK, NEW r \in RoomKeys, NEW v, HoldKept(rooms[r], v), rooms' = [rooms EXCEPT ![r] = v]
  PROVE  RoomSame
  <1> SUFFICES ASSUME NEW s \in Slots PROVE RoomHolders(s)' = RoomHolders(s)
    BY DEF RoomSame
  <1>1. v.pc = "hold" /\ v.held[1] = s <=> rooms[r].pc = "hold" /\ rooms[r].held[1] = s
    BY DEF HoldKept
  <1>2. CASE v.pc = "hold" /\ v.held[1] = s
    <2>1. RoomHolders(s)' = RoomHolders(s) \cup {r} /\ r \in RoomHolders(s)
      BY <1>1, <1>2, RoomSide
    <2> QED
      BY <2>1
  <1>3. CASE ~(v.pc = "hold" /\ v.held[1] = s)
    <2>1. RoomHolders(s)' = RoomHolders(s) \ {r} /\ r \notin RoomHolders(s)
      BY <1>1, <1>3, RoomSide
    <2> QED
      BY <2>1
  <1> QED
    BY <1>2, <1>3

LEMMA HoldersSame ==
  ASSUME LobbySame, GameSame, RoomSame
  PROVE  \A s \in Slots : Holders(s)' = Holders(s)
  BY Zenon DEF LobbySame, GameSame, RoomSame, Holders

\* Thread t, which did not work on a session, does not begin to.
LEMMA LobbyRests ==
  ASSUME NEW t \in LobbyThreads, ThreadOK, lpc[t] \notin Working,
         \A u \in LobbyThreads \ {t} : lpc'[u] = lpc[u] /\ ltask'[u] = ltask[u], lpc'[t] \notin Working
  PROVE  LobbySame
  <1> SUFFICES ASSUME NEW s \in Slots PROVE LobbyHolders(s)' = LobbyHolders(s)
    BY DEF LobbySame
  <1>1. LobbyHolders(s)' = LobbyHolders(s) \ {t} /\ t \notin LobbyHolders(s)
    BY LobbySide
  <1> QED
    BY <1>1

\* A thread of the lobby takes a session, or gives it back.
LEMMA LobbyTakes ==
  ASSUME HoldOK, NEW t \in LobbyThreads, NEW s \in Slots, lpc[t] \notin Working, ~sess[s].right, sess'[s].right,
         \A u \in LobbyThreads \ {t} : lpc'[u] = lpc[u] /\ ltask'[u] = ltask[u],
         lpc'[t] \in Working, ltask'[t].key[1] = s,
         \A q \in Slots \ {s} : sess'[q].right = sess[q].right, GameSame, RoomSame
  PROVE  HoldOK'
  <1>0. ASSUME NEW q \in Slots PROVE LobbyHolders(q)' = IF q = s THEN LobbyHolders(q) \cup {t} ELSE LobbyHolders(q)
    <2>1. t \notin LobbyHolders(q)
      BY LobbySide
    <2>2. LobbyHolders(q)' = IF q = s THEN LobbyHolders(q) \cup {t} ELSE LobbyHolders(q) \ {t}
      BY LobbySide
    <2> QED
      BY <2>1, <2>2
  <1>1. \A q \in Slots : LobbyHolders(q)' = IF q = s THEN LobbyHolders(q) \cup {t} ELSE LobbyHolders(q)
    BY <1>0
  <1>2. Holders(s)' = Holders(s) \cup {<<"lobby", t>>}
    <2>1. LobbyHolders(s)' = LobbyHolders(s) \cup {t} /\ GameHolders(s)' = GameHolders(s) /\ RoomHolders(s)' = RoomHolders(s)
      BY <1>1 DEF GameSame, RoomSame
    <2> QED
      BY <2>1 DEF Holders
  <1>3. \A q \in Slots \ {s} : Holders(q)' = Holders(q)
    BY <1>1, Zenon DEF Holders, GameSame, RoomSame
  <1> QED
    BY <1>2, <1>3, HoldTaken

LEMMA LobbyGives ==
  ASSUME HoldOK, NEW t \in LobbyThreads, NEW s \in Slots, lpc[t] \in Working, ltask[t].key[1] = s, ~sess'[s].right,
         \A u \in LobbyThreads \ {t} : lpc'[u] = lpc[u] /\ ltask'[u] = ltask[u], lpc'[t] \notin Working,
         \A q \in Slots \ {s} : sess'[q].right = sess[q].right, GameSame, RoomSame
  PROVE  HoldOK'
  <1>0. ASSUME NEW q \in Slots PROVE LobbyHolders(q)' = IF q = s THEN LobbyHolders(q) \ {t} ELSE LobbyHolders(q)
    <2>1. q # s => t \notin LobbyHolders(q)
      BY LobbySide
    <2>2. LobbyHolders(q)' = LobbyHolders(q) \ {t}
      BY LobbySide
    <2> QED
      BY <2>1, <2>2
  <1>1. \A q \in Slots : LobbyHolders(q)' = IF q = s THEN LobbyHolders(q) \ {t} ELSE LobbyHolders(q)
    BY <1>0
  <1>2. t \in LobbyHolders(s)
    BY LobbySide
  <1>3. Holders(s)' = Holders(s) \ {<<"lobby", t>>} /\ <<"lobby", t>> \in Holders(s)
    <2>1. LobbyHolders(s)' = LobbyHolders(s) \ {t} /\ GameHolders(s)' = GameHolders(s) /\ RoomHolders(s)' = RoomHolders(s)
      BY <1>1 DEF GameSame, RoomSame
    <2> QED
      BY <1>2, <2>1 DEF Holders
  <1>4. \A q \in Slots \ {s} : Holders(q)' = Holders(q)
    BY <1>1, Zenon DEF Holders, GameSame, RoomSame
  <1> QED
    BY <1>3, <1>4, HoldReleased

\* The rights when the right of one session is set.
LEMMA RightOf ==
  ASSUME SessOK, NEW s \in Slots, NEW b \in BOOLEAN, sess' = [sess EXCEPT ![s].right = b]
  PROVE  sess'[s].right = b /\ \A q \in Slots \ {s} : sess'[q] = sess[q]
  <1>1. sess \in [Slots -> Session]
    BY DEF SessOK
  <1> QED
    BY <1>1 DEF Session

LEMMA RightIn ==
  ASSUME SessOK, NEW s \in Slots, NEW x, sess' = [sess EXCEPT ![s] = x]
  PROVE  sess'[s] = x /\ \A q \in Slots \ {s} : sess'[q] = sess[q]
  BY DEF SessOK

\* Leaving the room does not change the right.
LEMMA DisconnectRight ==
  ASSUME SessOK, NEW k \in Key, sess' = AfterRoomDisconnect(sess, k)
  PROVE  \A s \in Slots : sess'[s].right = sess[s].right
  <1>0. k[1] \in Slots /\ sess[k[1]] \in Session
    BY KeyFacts DEF SessOK
  <1> DEFINE x == [sess[k[1]] EXCEPT !.mode = "NONE", !.room = NoIndex]
  <1>1. x.right = sess[k[1]].right
    BY <1>0 DEF Session
  <1>2. sess' = sess \/ sess' = [sess EXCEPT ![k[1]] = x]
    BY DEF AfterRoomDisconnect
  <1> HIDE DEF x
  <1> QED
    BY <1>0, <1>1, <1>2, RightIn

LEMMA NetworkHold ==
  ASSUME Typed, HoldOK, NEW s \in Slots, AcquireSession(s) \/ CompleteSessionIO(s)
  PROVE  HoldOK'
  <1>0. sess[s] \in Session /\ sess \in [Slots -> Session]
    BY DEF Typed, SessOK
  <1> DEFINE x == [sess[s] EXCEPT !.life = "ACTIVE", !.id = conn[s] + 1, !.mode = "LOGIN", !.room = NoIndex]
             y == [sess[s] EXCEPT !.life = "DISCONNECTING"]
  <1>1. x.right = sess[s].right /\ y.right = sess[s].right
    BY <1>0 DEF Session
  <1>2. sess' = [sess EXCEPT ![s] = x] \/ sess' = [sess EXCEPT ![s] = y]
    BY DEF AcquireSession, CompleteSessionIO
  <1> HIDE DEF x, y
  <1>3. \A q \in Slots : sess'[q].right = sess[q].right
    BY <1>1, <1>2, RightIn DEF Typed
  <1>4. UNCHANGED <<lpc, ltask, gpc, gkey, rooms>>
    BY DEF AcquireSession, CompleteSessionIO, threadVars, gameVars
  <1> QED
    BY <1>3, <1>4, SidesSame, HoldersSame, HoldSame

LEMMA PhaseHold ==
  ASSUME Typed, HoldOK, StartLobbyPhase \/ EndLobbyTasks
  PROVE  HoldOK'
  <1>1. UNCHANGED <<lpc, ltask, gpc, gkey, rooms, sess>>
    BY DEF StartLobbyPhase, EndLobbyTasks, threadVars, gameVars, sessVars
  <1> QED
    BY <1>1, SidesSame, HoldersSame, HoldSame

\* What a thread's last step with a task does to the threads.
LEMMA DoneOthers ==
  ASSUME ThreadOK, NEW t \in LobbyThreads, NEW p, DoneLobby(t) \/ GotoLobby(t, p)
  PROVE  /\ \A u \in LobbyThreads \ {t} : lpc'[u] = lpc[u] /\ ltask'[u] = ltask[u]
         /\ DoneLobby(t) => lpc'[t] = "idle"
         /\ GotoLobby(t, p) => lpc'[t] = p /\ ltask'[t] = ltask[t]
  BY DEF ThreadOK, DoneLobby, GotoLobby

\* A join that is asked for.
LEMMA JoinHold ==
  ASSUME Typed, NEW r \in RoomKeys, NEW k \in Key, NEW match \in BOOLEAN, JoinTask(r, k, match)
  PROVE  RoomSame
  BY JoinQuiet, HeldRoomSame, SidesSame DEF Typed, QuietKept

LEMMA QueueHold ==
  ASSUME Typed, HoldOK, NEW t \in LobbyThreads,
         DequeueLobbyTask(t) \/ AddSession(t) \/ ForgetSession(t) \/ RemoveActiveSession(t) \/ ReturnToLobby(t)
  PROVE  HoldOK'
  <1>1. lpc[t] \notin Working /\ UNCHANGED <<sess, gpc, gkey>>
    BY DEF DequeueLobbyTask, AddSession, ForgetSession, RemoveActiveSession, ReturnToLobby, sessVars, gameVars, Working
  <1>2. (\A u \in LobbyThreads \ {t} : lpc'[u] = lpc[u] /\ ltask'[u] = ltask[u]) /\ lpc'[t] \notin Working
    <2>1. CASE DequeueLobbyTask(t)
      BY <2>1 DEF DequeueLobbyTask, Typed, ThreadOK, Working
    <2>2. CASE AddSession(t) \/ RemoveActiveSession(t) \/ ReturnToLobby(t)
      BY <2>2, DoneOthers DEF AddSession, RemoveActiveSession, ReturnToLobby, Typed, Working
    <2>3. CASE ForgetSession(t)
      BY <2>3, DoneOthers DEF ForgetSession, Typed, Working
    <2> QED
      BY <2>1, <2>2, <2>3
  <1>3. LobbySame
    BY <1>1, <1>2, LobbyRests DEF Typed
  <1>4. RoomSame
    <2>1. CASE UNCHANGED rooms
      BY <2>1, SidesSame
    <2>2. CASE ReturnToLobby(t) /\ \E r \in RoomKeys : JoinTask(r, ltask[t].key, TRUE)
      <3>1. ltask[t].key \in Key
        BY <2>2, ThreadKey DEF Typed, ReturnToLobby
      <3> QED
        BY <2>2, <3>1, JoinHold
    <2> QED
      BY <2>1, <2>2 DEF DequeueLobbyTask, AddSession, ForgetSession, RemoveActiveSession, ReturnToLobby
  <1> QED
    BY <1>1, <1>3, <1>4, SidesSame, HoldersSame, HoldSame

LEMMA EnterHold ==
  ASSUME Typed, HoldOK, NEW t \in LobbyThreads, EnterLobby(t) \/ ActivateEntry(t)
  PROVE  HoldOK'
  <1> DEFINE k == ltask[t].key
  <1>0. k \in Key /\ k[1] \in Slots /\ sess[k[1]] \in Session
    BY ThreadKey DEF Typed, SessOK, EnterLobby, ActivateEntry
  <1>1. UNCHANGED <<gpc, gkey, rooms>>
    BY DEF EnterLobby, ActivateEntry, gameVars
  <1>2. GameSame /\ RoomSame
    BY <1>1, SidesSame
  <1>3. CASE EnterLobby(t)
    <2>1. lpc[t] \notin Working
      BY <1>3 DEF EnterLobby, Working
    <2>2. CASE DoneLobby(t) /\ UNCHANGED sess
      <3>1. LobbySame
        BY <2>1, <2>2, DoneOthers, LobbyRests DEF Typed, Working
      <3> QED
        BY <1>2, <2>2, <3>1, HoldersSame, HoldSame
    <2>3. CASE /\ RightFree(k) /\ GotoLobby(t, "enter")
               /\ sess' = [sess EXCEPT ![k[1]] = [sess[k[1]] EXCEPT !.right = TRUE, !.mode = "LOBBY", !.room = NoIndex]]
      <3> DEFINE x == [sess[k[1]] EXCEPT !.right = TRUE, !.mode = "LOBBY", !.room = NoIndex]
      <3>1. x.right = TRUE
        BY <1>0 DEF Session
      <3>2. sess' = [sess EXCEPT ![k[1]] = x]
        BY <2>3
      <3> HIDE DEF x
      <3>3. sess'[k[1]].right /\ (\A q \in Slots \ {k[1]} : sess'[q].right = sess[q].right) /\ ~sess[k[1]].right
        BY <1>0, <2>3, <3>1, <3>2, RightIn DEF Typed, RightFree
      <3>4. (\A u \in LobbyThreads \ {t} : lpc'[u] = lpc[u] /\ ltask'[u] = ltask[u]) /\ lpc'[t] \in Working /\ ltask'[t].key[1] = k[1]
        BY <2>3, DoneOthers DEF Typed, Working
      <3> QED
        BY <1>0, <1>2, <2>1, <3>3, <3>4, LobbyTakes
    <2> QED
      BY <1>3, <2>2, <2>3 DEF EnterLobby
  <1>4. CASE ActivateEntry(t)
    <2>1. lpc[t] \in Working
      BY <1>4 DEF ActivateEntry, Working
    <2>2. ~sess'[k[1]].right /\ \A q \in Slots \ {k[1]} : sess'[q].right = sess[q].right
      BY <1>0, <1>4, RightOf DEF Typed, ActivateEntry
    <2>3. (\A u \in LobbyThreads \ {t} : lpc'[u] = lpc[u] /\ ltask'[u] = ltask[u]) /\ lpc'[t] \notin Working
      BY <1>4, DoneOthers DEF Typed, Working, ActivateEntry
    <2> QED
      BY <1>0, <1>2, <2>1, <2>2, <2>3, LobbyGives
  <1> QED
    BY <1>3, <1>4

LEMMA FinalizeHold ==
  ASSUME Typed, HoldOK, NEW t \in LobbyThreads,
         BeginFinalize(t) \/ FinalizeInRoom(t) \/ FinalizeOutsideRoom(t) \/ FreeSlot(t)
  PROVE  HoldOK'
  <1> DEFINE k == ltask[t].key
             s == k[1]
  <1>0. k \in Key /\ s \in Slots /\ sess[s] \in Session /\ Occupant(s) \in Key /\ Occupant(s)[1] = s
    BY ThreadKey, OccupantKey DEF Typed, SessOK, BeginFinalize, FinalizeInRoom, FinalizeOutsideRoom, FreeSlot
  <1>1. UNCHANGED <<gpc, gkey>>
    BY DEF BeginFinalize, FinalizeInRoom, FinalizeOutsideRoom, FreeSlot, gameVars
  <1>2. GameSame
    BY <1>1, SidesSame
  <1>3. CASE BeginFinalize(t)
    <2>1. lpc[t] \notin Working /\ RoomSame
      BY <1>3, SidesSame DEF BeginFinalize, Working
    <2>2. CASE DoneLobby(t) /\ UNCHANGED sess
      <3>1. LobbySame
        BY <2>1, <2>2, DoneOthers, LobbyRests DEF Typed, Working
      <3> QED
        BY <1>2, <2>1, <2>2, <3>1, HoldersSame, HoldSame
    <2>3. CASE RightFree(k) /\ GotoLobby(t, "finalize") /\ sess' = [sess EXCEPT ![s].right = TRUE]
      <3>1. sess'[s].right /\ (\A q \in Slots \ {s} : sess'[q].right = sess[q].right) /\ ~sess[s].right
        BY <1>0, <2>3, RightOf DEF Typed, RightFree
      <3>2. (\A u \in LobbyThreads \ {t} : lpc'[u] = lpc[u] /\ ltask'[u] = ltask[u]) /\ lpc'[t] \in Working /\ ltask'[t].key[1] = s
        BY <2>3, DoneOthers DEF Typed, Working
      <3> QED
        BY <1>0, <1>2, <2>1, <3>1, <3>2, LobbyTakes
    <2> QED
      BY <1>3, <2>2, <2>3 DEF BeginFinalize
  <1>4. CASE FinalizeInRoom(t)
    <2>1. lpc[t] \in Working
      BY <1>4 DEF FinalizeInRoom, Working
    <2>2. (\A u \in LobbyThreads \ {t} : lpc'[u] = lpc[u] /\ ltask'[u] = ltask[u]) /\ lpc'[t] \notin Working
      BY <1>4, DoneOthers DEF Typed, Working, FinalizeInRoom
    <2>3. RoomSame
      <3>1. CASE UNCHANGED rooms
        BY <3>1, SidesSame
      <3>2. CASE /\ roomAt[sess[s].room] # NoRoom /\ AcceptsTasks(roomAt[sess[s].room])
                 /\ rooms' = AddRoomTask(rooms, roomAt[sess[s].room], RTask("REMOVE_PLAYER", Occupant(s)))
        <4>1. roomAt[sess[s].room] \in RoomKeys
          BY <1>0, <1>4, <3>2 DEF FinalizeInRoom, Typed, SessOK, TableOK
        <4>2. RTask("REMOVE_PLAYER", Occupant(s)) \in RoomTask
          BY <1>0, RoomTaskTypes
        <4> QED
          BY <3>2, <4>1, <4>2, QueuedQuiet, HeldRoomSame DEF Typed, QuietKept
      <3> QED
        BY <1>4, <3>1, <3>2 DEF FinalizeInRoom
    <2>4. ~sess'[s].right /\ \A q \in Slots \ {s} : sess'[q].right = sess[q].right
      <3> DEFINE R == [sess EXCEPT ![s].right = FALSE]
                 y == [sess[s] EXCEPT !.right = FALSE]
                 x == [y EXCEPT !.mode = "NONE", !.room = NoIndex]
      <3>1. y.right = FALSE /\ x.right = FALSE
        BY <1>0 DEF Session
      <3>2. R[s] = y /\ sess \in [Slots -> Session] /\ R = [sess EXCEPT ![s] = y]
        BY <1>0 DEF Typed, SessOK
      <3>3. CASE sess' = R
        BY <1>0, <3>3, RightOf DEF Typed
      <3>4. CASE sess' = AfterRoomDisconnect(R, Occupant(s))
        <4>1. sess' = R \/ sess' = [R EXCEPT ![s] = [R[s] EXCEPT !.mode = "NONE", !.room = NoIndex]]
          BY <1>0, <3>4 DEF AfterRoomDisconnect
        <4>2. sess' = [sess EXCEPT ![s] = y] \/ sess' = [sess EXCEPT ![s] = x]
          BY <1>0, <3>2, <4>1
        <4> HIDE DEF x, y
        <4> QED
          BY <1>0, <3>1, <4>2, RightIn DEF Typed
      <3> QED
        BY <1>4, <3>3, <3>4 DEF FinalizeInRoom
    <2> QED
      BY <1>0, <1>2, <2>1, <2>2, <2>3, <2>4, LobbyGives
  <1>5. CASE FinalizeOutsideRoom(t)
    <2>1. lpc[t] \in Working /\ RoomSame
      BY <1>5, SidesSame DEF FinalizeOutsideRoom, Working
    <2>2. ~sess'[s].right /\ \A q \in Slots \ {s} : sess'[q].right = sess[q].right
      BY <1>0, <1>5, RightOf DEF Typed, FinalizeOutsideRoom
    <2>3. (\A u \in LobbyThreads \ {t} : lpc'[u] = lpc[u] /\ ltask'[u] = ltask[u]) /\ lpc'[t] \notin Working
      BY <1>5 DEF FinalizeOutsideRoom, Typed, ThreadOK, Working
    <2> QED
      BY <1>0, <1>2, <2>1, <2>2, <2>3, LobbyGives
  <1>6. CASE FreeSlot(t)
    <2>1. lpc[t] \notin Working /\ RoomSame
      BY <1>6, SidesSame DEF FreeSlot, Working
    <2>2. LobbySame
      BY <1>6, <2>1, DoneOthers, LobbyRests DEF Typed, Working, FreeSlot
    <2>3. \A q \in Slots : sess'[q].right = sess[q].right
      <3> DEFINE x == [EmptySession EXCEPT !.right = sess[s].right]
      <3>1. x.right = sess[s].right
        BY DEF EmptySession
      <3>2. UNCHANGED sess \/ sess' = [sess EXCEPT ![s] = x]
        BY <1>6 DEF FreeSlot
      <3> HIDE DEF x
      <3> QED
        BY <1>0, <3>1, <3>2, RightIn DEF Typed
    <2> QED
      BY <1>2, <2>1, <2>2, <2>3, HoldersSame, HoldSame
  <1> QED
    BY <1>3, <1>4, <1>5, <1>6

LEMMA VisitHold ==
  ASSUME Typed, HoldOK, NEW t \in LobbyThreads, EndVisit(t) \/ \E s \in Slots : VisitSession(t, s)
  PROVE  HoldOK'
  <1>1. CASE EndVisit(t)
    <2>1. ltask[t].key[1] \in Slots /\ lpc[t] \in Working
      BY <1>1, ThreadKey DEF Typed, EndVisit, Working
    <2>2. GameSame /\ RoomSame
      BY <1>1, SidesSame DEF EndVisit, gameVars
    <2>3. ~sess'[ltask[t].key[1]].right /\ \A q \in Slots \ {ltask[t].key[1]} : sess'[q].right = sess[q].right
      BY <1>1, <2>1, RightOf DEF Typed, EndVisit
    <2>4. (\A u \in LobbyThreads \ {t} : lpc'[u] = lpc[u] /\ ltask'[u] = ltask[u]) /\ lpc'[t] \notin Working
      BY <1>1, DoneOthers DEF Typed, Working, EndVisit
    <2> QED
      BY <2>1, <2>2, <2>3, <2>4, LobbyGives
  <1>2. ASSUME NEW s \in Slots, VisitSession(t, s) PROVE HoldOK'
    <2>1. lpc[t] \notin Working /\ GameSame /\ RoomSame
      BY <1>2, SidesSame DEF VisitSession, gameVars, Working
    <2>2. Occupant(s)[1] = s /\ Occupant(s) \in Key
      BY OccupantKey DEF Typed
    <2>3. sess'[s].right /\ (\A q \in Slots \ {s} : sess'[q].right = sess[q].right) /\ ~sess[s].right
      BY <1>2, <2>2, RightOf DEF Typed, VisitSession, RightFree
    <2>4. LTask("VISIT", Occupant(s)).key = Occupant(s)
      BY DEF LTask
    <2>5. (\A u \in LobbyThreads \ {t} : lpc'[u] = lpc[u] /\ ltask'[u] = ltask[u]) /\ lpc'[t] \in Working /\ ltask'[t].key[1] = s
      BY <1>2, <2>2, <2>4 DEF VisitSession, Typed, ThreadOK, Working
    <2> QED
      BY <2>1, <2>3, <2>5, LobbyTakes
  <1> QED
    BY <1>1, <1>2

LEMMA RequestHold ==
  ASSUME Typed, HoldOK, NEW t \in LobbyThreads, LobbyRequest(t)
  PROVE  HoldOK'
  <1> DEFINE k == ltask[t].key
  <1>0. k \in Key /\ k[1] \in Slots /\ sess[k[1]] \in Session
    <2>1. lpc[t] = "visit"
      BY DEF LobbyRequest, Login, RequestCreate, DisconnectInLobby, RequestJoin, Transition, Visiting
    <2> QED
      BY <2>1, ThreadKey DEF Typed, SessOK
  <1>1. UNCHANGED <<lpc, ltask, gpc, gkey>>
    BY DEF LobbyRequest, Login, RequestCreate, DisconnectInLobby, RequestJoin, threadVars, gameVars
  <1>2. RoomSame
    <2>1. CASE UNCHANGED rooms
      BY <2>1, SidesSame
    <2>2. CASE \E r \in RoomKeys, match \in BOOLEAN : RequestJoin(t, r, match)
      BY <1>0, <2>2, JoinHold DEF RequestJoin
    <2> QED
      BY <2>1, <2>2 DEF LobbyRequest, Login, RequestCreate, DisconnectInLobby
  <1>3. \A q \in Slots : sess'[q].right = sess[q].right
    <2> DEFINE x == [sess[k[1]] EXCEPT !.mode = "LOBBY"]
               y == [sess[k[1]] EXCEPT !.life = "DISCONNECT_PENDING"]
    <2>1. x.right = sess[k[1]].right /\ y.right = sess[k[1]].right
      BY <1>0 DEF Session
    <2>2. UNCHANGED sess \/ sess' = [sess EXCEPT ![k[1]] = x] \/ sess' = [sess EXCEPT ![k[1]] = y]
      BY DEF LobbyRequest, Login, RequestCreate, DisconnectInLobby, RequestJoin, BeginDisconnect, sessVars
    <2> HIDE DEF x, y
    <2> QED
      BY <1>0, <2>1, <2>2, RightIn DEF Typed
  <1> QED
    BY <1>1, <1>2, <1>3, SidesSame, HoldersSame, HoldSame

LEMMA CreateHold ==
  ASSUME Typed, HoldOK, NEW g \in GameThreads, CreateStep(g)
  PROVE  HoldOK'
  <1> DEFINE k == gkey[g]
  <1>1. UNCHANGED <<lpc, ltask>>
    BY DEF CreateStep, DeleteRoom, BeginCreate, RefuseCreate, AnswerCreate, CompleteRoomInitialization, CreateRoom, threadVars
  <1>2. LobbySame
    BY <1>1, SidesSame
  <1>3. CASE DeleteRoom(g) \/ BeginCreate(g) \/ RefuseCreate(g) \/ AnswerCreate(g)
    <2>1. UNCHANGED <<sess, rooms>>
      BY <1>3 DEF DeleteRoom, BeginCreate, RefuseCreate, AnswerCreate, sessVars
    <2>2. GameSame
      <3>1. \A h \in GameThreads : gpc'[h] \in {"created", "init"} <=> gpc[h] \in {"created", "init"}
        BY <1>3 DEF DeleteRoom, BeginCreate, RefuseCreate, AnswerCreate, DoneGame, Typed, GameOK
      <3>2. \A h \in GameThreads : gpc[h] \in {"created", "init"} => gkey'[h] = gkey[h]
        BY <1>3 DEF DeleteRoom, BeginCreate, RefuseCreate, AnswerCreate, DoneGame, Typed, GameOK
      <3>3. ASSUME NEW s \in Slots PROVE GameHolders(s)' = GameHolders(s)
        BY <3>1, <3>2 DEF GameHolders
      <3> QED
        BY <3>3 DEF GameSame
    <2> QED
      BY <1>2, <2>1, <2>2, SidesSame, HoldersSame, HoldSame
  <1>4. CASE CompleteRoomInitialization(g)
    <2> DEFINE v == ReadyRoom(rooms[groom[g]])
    <2>1. /\ groom[g] \in RoomKeys /\ rooms[groom[g]].pc = "init" /\ k \in Key /\ k[1] \in Slots
          /\ RoomOK(rooms[groom[g]])
      BY <1>4, KeyFacts DEF Typed, MakersOK, GameOK, RoomsOK, CompleteRoomInitialization
    <2>0. PICK s \in Slots : s = k[1]
      BY <2>1
    <2>2. rooms' = [rooms EXCEPT ![groom[g]] = v] /\ v.pc = "idle" /\ v.held = rooms[groom[g]].held
      BY <1>4, <2>1, CompleteStep, ReadyRoomOK DEF Typed
    <2> HIDE DEF v
    <2>3. RoomSame
      BY <2>1, <2>2, HeldRoomSame DEF Typed, HoldKept
    <2>4. ~sess'[s].right /\ \A q \in Slots \ {s} : sess'[q].right = sess[q].right
      BY <1>4, <2>0, RightOf DEF Typed, CompleteRoomInitialization
    <2>5. (\A h \in GameThreads \ {g} : gpc'[h] = gpc[h] /\ gkey'[h] = gkey[h]) /\ gpc'[g] = "idle"
      BY <1>4 DEF CompleteRoomInitialization, DoneGame, Typed, GameOK
    <2>6. gpc[g] = "init"
      BY <1>4 DEF CompleteRoomInitialization
    <2>7. \A q : GameHolders(q)' = GameHolders(q) \ {g}
      BY <2>5, GameSide
    <2>8. g \in GameHolders(s) /\ \A q : q # s => g \notin GameHolders(q)
      BY <2>0, <2>6 DEF GameHolders
    <2>9. Holders(s)' = Holders(s) \ {<<"game", g>>} /\ <<"game", g>> \in Holders(s)
      <3>1. /\ LobbyHolders(s)' = LobbyHolders(s) /\ GameHolders(s)' = GameHolders(s) \ {g}
            /\ RoomHolders(s)' = RoomHolders(s)
        BY <1>2, <2>1, <2>3, <2>7 DEF LobbySame, RoomSame
      <3> QED
        BY <2>8, <3>1 DEF Holders
    <2>10. \A q \in Slots \ {s} : Holders(q)' = Holders(q)
      <3>1. \A q \in Slots \ {s} : GameHolders(q)' = GameHolders(q)
        BY <2>7, <2>8
      <3> QED
        BY <1>2, <2>3, <3>1, Zenon DEF Holders, LobbySame, RoomSame
    <2> QED
      BY <2>1, <2>4, <2>9, <2>10, HoldReleased
  <1>5. ASSUME NEW r \in RoomKeys, NEW i \in RoomIndices, NEW max \in {1, Cardinality(Seats)}, CreateRoom(g, r, i, max)
        PROVE  HoldOK'
    <2> DEFINE v == MadeRoom(i, max, k)
               x == [sess[k[1]] EXCEPT !.mode = "ROOM", !.room = i, !.right = TRUE]
    <2>1. k \in Key /\ k[1] \in Slots /\ sess[k[1]] \in Session
      BY <1>5, KeyFacts DEF CreateRoom, Typed, GameOK, SessOK
    <2>2. rooms' = [rooms EXCEPT ![r] = v] /\ rooms[r] = NewRoom
      BY <1>5, <2>1, CreateRoomStep DEF Typed
    <2>3. HoldKept(rooms[r], v)
      BY <2>2 DEF HoldKept, MadeRoom, NewRoom
    <2> HIDE DEF v
    <2>4. RoomSame
      BY <2>2, <2>3, HeldRoomSame DEF Typed
    <2>5. x.right /\ sess' = [sess EXCEPT ![k[1]] = x] /\ ~sess[k[1]].right
      BY <1>5, <2>1 DEF Session, CreateRoom, RightFree
    <2> HIDE DEF x
    <2>0. PICK s \in Slots : s = k[1]
      BY <2>1
    <2>6. sess'[s].right /\ \A q \in Slots \ {s} : sess'[q].right = sess[q].right
      BY <2>0, <2>5, RightIn DEF Typed
    <2>7. (\A h \in GameThreads \ {g} : gpc'[h] = gpc[h] /\ gkey'[h] = gkey[h]) /\ gpc'[g] = "created" /\ gkey'[g] = k
      BY <1>5 DEF CreateRoom, Typed, GameOK
    <2>8. gpc[g] = "wait"
      BY <1>5 DEF CreateRoom
    <2>9. GameHolders(s)' = GameHolders(s) \cup {g}
      BY <2>0, <2>7, GameSide
    <2>10. ASSUME NEW q \in Slots \ {s} PROVE GameHolders(q)' = GameHolders(q)
      <3>1. GameHolders(q)' = GameHolders(q) \ {g} /\ g \notin GameHolders(q)
        BY <2>0, <2>7, <2>8, GameSide
      <3> QED
        BY <3>1
    <2>11. Holders(s)' = Holders(s) \cup {<<"game", g>>}
      <3>1. /\ LobbyHolders(s)' = LobbyHolders(s) /\ RoomHolders(s)' = RoomHolders(s)
        BY <1>2, <2>4 DEF LobbySame, RoomSame
      <3> QED
        BY <2>9, <3>1 DEF Holders
    <2>12. \A q \in Slots \ {s} : Holders(q)' = Holders(q)
      BY <1>2, <2>4, <2>10, Zenon DEF Holders, LobbySame, RoomSame
    <2> QED
      BY <2>0, <2>5, <2>6, <2>11, <2>12, HoldTaken
  <1> QED
    BY <1>3, <1>4, <1>5 DEF CreateStep

LEMMA RoomTaskHold ==
  ASSUME Typed, HoldOK, NEW r \in RoomKeys, ProcessRoomTask(r)
  PROVE  HoldOK'
  <1> DEFINE task == Head(rooms[r].tasks)
             k == task.key
  <1>0. AtTask(r) /\ task \in RoomTask /\ k \in Key /\ k[1] \in Slots /\ sess[k[1]] \in Session
    <2>1. AtTask(r)
      BY DEF ProcessRoomTask, ProcessJoin, ProcessRemove, ProcessKick, ProcessStart, ProcessGiveUp, TaskReady
    <2> QED
      BY <2>1, TaskAtHand DEF Typed, SessOK
  <1>1. UNCHANGED <<lpc, ltask, gpc, gkey>>
    BY DEF ProcessRoomTask, ProcessJoin, ProcessRemove, ProcessKick, ProcessStart, ProcessGiveUp, threadVars, gameVars
  <1>2. ASSUME NEW c \in Key, Seated(r, c) # {}, rooms' = [rooms EXCEPT ![r] = RemovedFrom(AfterTask(rooms[r]), c)],
               sess' = AfterRoomDisconnect(sess, c)
        PROVE  HoldOK'
    <2>1. RoomSame
      BY <1>0, <1>2, RemovedStep, HeldRoomSame DEF Typed
    <2>2. \A q \in Slots : sess'[q].right = sess[q].right
      BY <1>2, DisconnectRight DEF Typed
    <2> QED
      BY <1>1, <2>1, <2>2, SidesSame, HoldersSame, HoldSame
  <1>3. ASSUME rooms' = [rooms EXCEPT ![r] = AfterTask(@)], UNCHANGED sess PROVE HoldOK'
    <2>1. RoomSame
      BY <1>0, <1>3, TaskDone, HeldRoomSame DEF Typed, QuietKept
    <2> QED
      BY <1>1, <1>3, <2>1, SidesSame, HoldersSame, HoldSame
  <1>4. CASE ProcessJoin(r)
    <2>1. CASE /\ MayJoin(r, k) /\ rooms' = [rooms EXCEPT ![r] = SeatPlayer(AfterTask(rooms[r]), k)]
               /\ sess' = [sess EXCEPT ![k[1]] = [sess[k[1]] EXCEPT !.mode = "ROOM", !.room = rooms[r].index]]
      <3> DEFINE x == [sess[k[1]] EXCEPT !.mode = "ROOM", !.room = rooms[r].index]
      <3>1. RoomSame
        BY <1>0, <2>1, JoinedStep, HeldRoomSame DEF Typed
      <3>2. x.right = sess[k[1]].right /\ sess' = [sess EXCEPT ![k[1]] = x]
        BY <1>0, <2>1 DEF Session
      <3> HIDE DEF x
      <3>3. \A q \in Slots : sess'[q].right = sess[q].right
        BY <1>0, <3>2, RightIn DEF Typed
      <3> QED
        BY <1>1, <3>1, <3>3, SidesSame, HoldersSame, HoldSame
    <2> QED
      BY <1>3, <1>4, <2>1 DEF ProcessJoin
  <1>5. CASE ProcessRemove(r)
    BY <1>0, <1>2, <1>3, <1>5 DEF ProcessRemove, ToLobby, SeatActive
  <1>6. CASE ProcessKick(r)
    <2>1. ASSUME NEW c \in KickTarget(r, task), ToLobby(r, AfterTask(rooms[r]), c) PROVE HoldOK'
      <3>1. SeatActive(r, c) /\ c = task.target
        BY <2>1 DEF KickTarget
      <3>2. Seated(r, c) # {} /\ c \in Key
        <4>1. PICK n \in Seats : rooms[r].seats[n].key = c /\ rooms[r].seats[n].state # "EMPTY" /\ n \in Seated(r, c)
          BY <3>1 DEF SeatActive, Seated
        <4> QED
          BY <4>1, TakenKey DEF Typed
      <3> QED
        BY <1>2, <2>1, <3>2 DEF ToLobby
    <2> QED
      BY <1>3, <1>6, <2>1 DEF ProcessKick
  <1>7. CASE ProcessStart(r) \/ ProcessGiveUp(r)
    <2>1. UNCHANGED sess
      BY <1>7 DEF ProcessStart, ProcessGiveUp, sessVars
    <2>2. RoomSame
      BY <1>7, GameQuiet, HeldRoomSame DEF Typed, QuietKept
    <2> QED
      BY <1>1, <2>1, <2>2, SidesSame, HoldersSame, HoldSame
  <1> QED
    BY <1>4, <1>5, <1>6, <1>7 DEF ProcessRoomTask

LEMMA TickHold ==
  ASSUME Typed, HoldOK, NEW r \in RoomKeys,
         \/ BeginTick(r) \/ ClaimTasks(r) \/ KeepPending(r) \/ EndRoomTasks(r) \/ VisitSeat(r) \/ EndSeatVisit(r)
         \/ PlayTick(r) \/ RoomRequest(r)
  PROVE  HoldOK'
  <1>1. UNCHANGED <<lpc, ltask, gpc, gkey>>
    BY DEF BeginTick, ClaimTasks, KeepPending, EndRoomTasks, VisitSeat, EndSeatVisit, PlayTick, RoomRequest,
           LeaveRoom, DisconnectInRoom, RequestRoomTask, threadVars, gameVars
  <1>2. LobbySame /\ GameSame
    BY <1>1, SidesSame
  <1>3. ASSUME QuietKept(r), UNCHANGED sess PROVE HoldOK'
    BY <1>2, <1>3, HeldRoomSame, HoldersSame, HoldSame DEF Typed, QuietKept
  <1>4. CASE BeginTick(r) \/ ClaimTasks(r) \/ KeepPending(r) \/ PlayTick(r)
    <2>1. UNCHANGED sess
      BY <1>4 DEF BeginTick, ClaimTasks, KeepPending, PlayTick, sessVars
    <2> QED
      BY <1>3, <1>4, <2>1, TickQuiet, PlayQuiet DEF Typed
  <1>5. CASE EndRoomTasks(r)
    <2>1. UNCHANGED sess
      BY <1>5 DEF EndRoomTasks, sessVars
    <2>2. RoomSame
      BY <1>5, EndRoomTasksStep, HeldRoomSame DEF Typed, QuietKept
    <2> QED
      BY <1>2, <2>1, <2>2, HoldersSame, HoldSame
  <1>6. CASE VisitSeat(r)
    <2> DEFINE k == SeatKey(r)
    <2>1. ASSUME k \in Key, ~sess[k[1]].right, sess' = [sess EXCEPT ![k[1]].right = TRUE],
                 NEW v, rooms' = [rooms EXCEPT ![r] = v], rooms[r].pc = "seats", v.pc = "hold", v.held = k
          PROVE  HoldOK'
      <3>1. k[1] \in Slots
        BY <2>1, KeyFacts
      <3>0. PICK s \in Slots : s = k[1]
        BY <3>1
      <3>2. sess'[s].right /\ \A q \in Slots \ {s} : sess'[q].right = sess[q].right
        BY <2>1, <3>0, RightOf DEF Typed
      <3>3. RoomHolders(s)' = RoomHolders(s) \cup {r}
        BY <2>1, <3>0, RoomSide DEF Typed
      <3>4. ASSUME NEW q \in Slots \ {s} PROVE RoomHolders(q)' = RoomHolders(q)
        <4>1. ~(v.pc = "hold" /\ v.held[1] = q) /\ rooms[r].pc # "hold" /\ RoomsOK
          BY <2>1, <3>0 DEF Typed
        <4>2. r \notin RoomHolders(q)
          BY <4>1 DEF RoomHolders
        <4>3. RoomHolders(q)' = RoomHolders(q) \ {r}
          BY <2>1, <4>1, RoomSide
        <4> QED
          BY <4>2, <4>3
      <3>5. Holders(s)' = Holders(s) \cup {<<"room", r>>}
        <4>1. LobbyHolders(s)' = LobbyHolders(s) /\ GameHolders(s)' = GameHolders(s)
          BY <1>2 DEF LobbySame, GameSame
        <4> QED
          BY <3>3, <4>1 DEF Holders
      <3>6. \A q \in Slots \ {s} : Holders(q)' = Holders(q)
        BY <1>2, <3>4, Zenon DEF Holders, LobbySame, GameSame
      <3> HIDE DEF k
      <3> QED
        BY <2>1, <3>0, <3>2, <3>5, <3>6, HoldTaken
    <2> QED
      BY <1>3, <1>6, <2>1, VisitSeatSteps DEF Typed
  <1>7. CASE EndSeatVisit(r)
    <2> DEFINE k == rooms[r].held
    <2>1. k \in Key /\ k[1] \in Slots /\ rooms[r].pc = "hold" /\ sess' = [sess EXCEPT ![k[1]].right = FALSE]
      BY <1>7, EndSeatVisitStep, KeyFacts DEF Typed, EndSeatVisit
    <2>2. PICK v : rooms' = [rooms EXCEPT ![r] = v] /\ v.pc # "hold"
      BY <1>7, EndSeatVisitStep DEF Typed
    <2>0. PICK s \in Slots : s = k[1]
      BY <2>1
    <2>3. ~sess'[s].right /\ \A q \in Slots \ {s} : sess'[q].right = sess[q].right
      BY <2>0, <2>1, RightOf DEF Typed
    <2>4. \A q : RoomHolders(q)' = RoomHolders(q) \ {r}
      BY <2>2, RoomSide DEF Typed
    <2>5. r \in RoomHolders(s) /\ \A q : q # s => r \notin RoomHolders(q)
      BY <2>0, <2>1 DEF RoomHolders
    <2>6. Holders(s)' = Holders(s) \ {<<"room", r>>} /\ <<"room", r>> \in Holders(s)
      <3>1. LobbyHolders(s)' = LobbyHolders(s) /\ GameHolders(s)' = GameHolders(s)
        BY <1>2 DEF LobbySame, GameSame
      <3>2. RoomHolders(s)' = RoomHolders(s) \ {r}
        BY <2>4
      <3> QED
        BY <2>5, <3>1, <3>2 DEF Holders
    <2>7. \A q \in Slots \ {s} : Holders(q)' = Holders(q)
      <3>1. \A q \in Slots \ {s} : RoomHolders(q)' = RoomHolders(q)
        BY <2>4, <2>5
      <3> QED
        BY <1>2, <3>1, Zenon DEF Holders, LobbySame, GameSame
    <2> HIDE DEF k
    <2> QED
      BY <2>1, <2>3, <2>6, <2>7, HoldReleased
  <1>8. CASE LeaveRoom(r)
    <2>1. UNCHANGED sess /\ RoomSame
      BY <1>8, LeaveRoomStep, HeldRoomSame DEF Typed, LeaveRoom, sessVars
    <2> QED
      BY <1>2, <2>1, HoldersSame, HoldSame
  <1>9. CASE DisconnectInRoom(r)
    <2> DEFINE s == SeatKey(r)[1]
               x == [sess[s] EXCEPT !.life = "DISCONNECT_PENDING"]
    <2>0. s \in Slots /\ sess[s] \in Session
      <3>1. rooms[r].seat \in Seats /\ rooms[r].seats[rooms[r].seat].state = "ACTIVE"
        BY <1>9 DEF Typed, RoomsOK, RoomOK, LifeOK, DisconnectInRoom, Holding, Visitable
      <3>2. SeatKey(r) \in Key
        BY <3>1, TakenKey DEF SeatKey, Typed
      <3> QED
        BY <3>2, KeyFacts DEF Typed, SessOK
    <2>1. x.right = sess[s].right
      BY <2>0 DEF Session
    <2>2. sess' = [sess EXCEPT ![s] = x] /\ UNCHANGED rooms
      BY <1>9 DEF DisconnectInRoom, BeginDisconnect
    <2> HIDE DEF x, s
    <2>3. \A q \in Slots : sess'[q].right = sess[q].right
      BY <2>0, <2>1, <2>2, RightIn DEF Typed
    <2> QED
      BY <1>2, <2>2, <2>3, SidesSame, HoldersSame, HoldSame
  <1>10. ASSUME NEW type \in {"START", "KICK", "GIVE_UP"}, NEW target \in Key \cup {NoKey}, RequestRoomTask(r, type, target)
         PROVE  HoldOK'
    BY <1>3, <1>10, RequestQuiet DEF Typed, RequestRoomTask, sessVars
  <1> QED
    BY <1>4, <1>5, <1>6, <1>7, <1>8, <1>9, <1>10 DEF RoomRequest

LEMMA HoldInit == Init => HoldOK
  <1> SUFFICES ASSUME Init, NEW s \in Slots PROVE ~sess[s].right /\ Holders(s) = {}
    BY DEF HoldOK
  <1>1. ~sess[s].right
    BY DEF Init, EmptySession
  <1>2. LobbyHolders(s) = {} /\ GameHolders(s) = {} /\ RoomHolders(s) = {}
    BY DEF Init, LobbyHolders, GameHolders, RoomHolders, NewRoom
  <1> QED
    BY <1>1, <1>2 DEF Holders

LEMMA HoldNext == Typed /\ HoldOK /\ [Next]_vars => HoldOK'
  <1> SUFFICES ASSUME Typed, HoldOK, [Next]_vars PROVE HoldOK'
    OBVIOUS
  <1>1. CASE UNCHANGED vars
    BY <1>1, SidesSame, HoldersSame, HoldSame DEF vars, sessVars, threadVars, gameVars
  <1>2. ASSUME NEW s \in Slots, AcquireSession(s) \/ CompleteSessionIO(s) PROVE HoldOK'
    BY <1>2, NetworkHold
  <1>3. CASE StartLobbyPhase \/ EndLobbyTasks
    BY <1>3, PhaseHold
  <1>4. ASSUME NEW t \in LobbyThreads, LobbyTaskStep(t) PROVE HoldOK'
    BY <1>4, QueueHold, EnterHold, FinalizeHold DEF LobbyTaskStep
  <1>5. ASSUME NEW t \in LobbyThreads, LobbyRequest(t) PROVE HoldOK'
    BY <1>5, RequestHold
  <1>6. ASSUME NEW t \in LobbyThreads, EndVisit(t) \/ \E s \in Slots : VisitSession(t, s) PROVE HoldOK'
    BY <1>6, VisitHold
  <1>7. ASSUME NEW g \in GameThreads, CreateStep(g) PROVE HoldOK'
    BY <1>7, CreateHold
  <1>8. ASSUME NEW r \in RoomKeys, ProcessRoomTask(r) PROVE HoldOK'
    BY <1>8, RoomTaskHold
  <1>9. ASSUME NEW r \in RoomKeys,
               \/ BeginTick(r) \/ ClaimTasks(r) \/ KeepPending(r) \/ EndRoomTasks(r) \/ VisitSeat(r) \/ EndSeatVisit(r)
               \/ PlayTick(r) \/ RoomRequest(r)
        PROVE  HoldOK'
    BY <1>9, TickHold
  <1> QED
    BY <1>1, <1>2, <1>3, <1>4, <1>5, <1>6, <1>7, <1>8, <1>9 DEF Next, RoomTaskStep

\* is_processing_tasks_ is set exactly while one consumer has the session, whoever takes it:
\* a lobby thread for a visit or a task, the thread that makes a room, or the tick of a room.
THEOREM RightHasOneHolder == Spec => []OneHolder
  <1>1. Typed /\ HoldOK /\ [Next]_vars => (Typed /\ HoldOK)'
    BY TypedNext, HoldNext
  <1>2. Init => Typed /\ HoldOK
    BY TypedInit, HoldInit
  <1>3. Spec => [](Typed /\ HoldOK)
    BY <1>1, <1>2, PTL DEF Spec
  <1> QED
    BY <1>3, HoldOne, PTL

----------------------------------------------------------------------------
(* The tasks of the lobby that have not been taken up yet. *)

\* The tasks in the queue and those a thread has just taken from it.
Waiting == TasksOf(lobbyTasks) \cup {ltask[t] : t \in {u \in LobbyThreads : lpc[u] = "task"}}

Flying(type, k) == \E task \in Waiting : task.type = type /\ task.key = k

\* A task of this type waits at most once for each connection.
OnceIn(seq, type) ==
  \A m, n \in DOMAIN seq :
     seq[m].type = type /\ seq[n].type = type /\ seq[m].key = seq[n].key => m = n

HasTask(t, type) == lpc[t] = "task" /\ ltask[t].type = type

Once(type) ==
  /\ OnceIn(lobbyTasks, type)
  /\ \A t, u \in LobbyThreads :
        HasTask(t, type) /\ HasTask(u, type) /\ ltask[t].key = ltask[u].key => t = u
  /\ \A t \in LobbyThreads, task \in TasksOf(lobbyTasks) :
        HasTask(t, type) /\ task.type = type => task.key # ltask[t].key

LEMMA TasksOfConcat ==
  ASSUME NEW S, NEW p \in Seq(S), NEW q \in Seq(S)
  PROVE  /\ p \o q \in Seq(S) /\ TasksOf(p \o q) = TasksOf(p) \cup TasksOf(q)
         /\ \A n \in DOMAIN p : n \in DOMAIN (p \o q) /\ (p \o q)[n] = p[n]
         /\ Len(p \o q) = Len(p) + Len(q)
  <1> DEFINE w == p \o q
  <1>1. w \in Seq(S) /\ Len(w) = Len(p) + Len(q)
        /\ \A i \in 1..Len(w) : w[i] = IF i <= Len(p) THEN p[i] ELSE q[i - Len(p)]
    BY ConcatProperties
  <1>2. Len(p) \in Nat /\ Len(q) \in Nat /\ DOMAIN p = 1..Len(p) /\ DOMAIN q = 1..Len(q) /\ DOMAIN w = 1..Len(w)
    BY <1>1, LenProperties
  <1> HIDE DEF w
  <1>3. \A n \in DOMAIN p : n \in DOMAIN w /\ w[n] = p[n]
    BY <1>1, <1>2
  <1>4. \A n \in DOMAIN q : n + Len(p) \in DOMAIN w /\ w[n + Len(p)] = q[n]
    BY <1>1, <1>2
  <1>5. \A n \in DOMAIN w : (n \in DOMAIN p /\ w[n] = p[n]) \/ (n - Len(p) \in DOMAIN q /\ w[n] = q[n - Len(p)])
    BY <1>1, <1>2
  <1>6. \A y : /\ y \in TasksOf(w) <=> \E n \in DOMAIN w : y = w[n]
               /\ y \in TasksOf(p) <=> \E n \in DOMAIN p : y = p[n]
               /\ y \in TasksOf(q) <=> \E n \in DOMAIN q : y = q[n]
    BY DEF TasksOf
  <1>7. \A y : y \in TasksOf(w) <=> y \in TasksOf(p) \/ y \in TasksOf(q)
    BY <1>3, <1>4, <1>5, <1>6
  <1>8. TasksOf(w) = TasksOf(p) \cup TasksOf(q)
    BY <1>7
  <1> QED
    BY <1>1, <1>3, <1>8 DEF w

\* Tasks are added at the end of a queue, or its first one is taken.
LEMMA OnceConcat ==
  ASSUME NEW S, NEW p \in Seq(S), NEW q \in Seq(S), NEW type, OnceIn(p, type), OnceIn(q, type),
         \A x \in TasksOf(p), y \in TasksOf(q) : x.type = type /\ y.type = type => x.key # y.key
  PROVE  OnceIn(p \o q, type)
  <1> DEFINE w == p \o q
  <1>1. w \in Seq(S) /\ Len(w) = Len(p) + Len(q)
        /\ \A i \in 1..Len(w) : w[i] = IF i <= Len(p) THEN p[i] ELSE q[i - Len(p)]
    BY ConcatProperties
  <1>2. Len(p) \in Nat /\ Len(q) \in Nat /\ DOMAIN p = 1..Len(p) /\ DOMAIN q = 1..Len(q) /\ DOMAIN w = 1..Len(w)
    BY <1>1, LenProperties
  <1> HIDE DEF w
  <1>3. SUFFICES ASSUME NEW m \in 1..Len(w), NEW n \in 1..Len(w), w[m].type = type, w[n].type = type, w[m].key = w[n].key
                 PROVE  m = n
    BY <1>2 DEF OnceIn, w
  <1>4. \A i \in DOMAIN p : p[i] \in TasksOf(p)
    BY DEF TasksOf
  <1>5. \A i \in DOMAIN q : q[i] \in TasksOf(q)
    BY DEF TasksOf
  <1>10. \A i \in 1..Len(w) : i <= Len(p) => w[i] = p[i] /\ i \in DOMAIN p
    BY <1>1, <1>2
  <1>11. \A i \in 1..Len(w) : i > Len(p) => w[i] = q[i - Len(p)] /\ i - Len(p) \in DOMAIN q
    BY <1>1, <1>2
  <1>6. CASE m <= Len(p) /\ n <= Len(p)
    <2>1. w[m] = p[m] /\ m \in DOMAIN p /\ w[n] = p[n] /\ n \in DOMAIN p
      BY <1>6, <1>10
    <2> QED
      BY <1>3, <2>1 DEF OnceIn
  <1>7. CASE m <= Len(p) /\ n > Len(p)
    <2>1. w[m] = p[m] /\ m \in DOMAIN p /\ w[n] = q[n - Len(p)] /\ n - Len(p) \in DOMAIN q
      BY <1>7, <1>10, <1>11
    <2>2. w[m] \in TasksOf(p) /\ w[n] \in TasksOf(q)
      BY <1>4, <1>5, <2>1
    <2> QED
      BY <1>3, <2>2
  <1>8. CASE m > Len(p) /\ n <= Len(p)
    <2>1. w[n] = p[n] /\ n \in DOMAIN p /\ w[m] = q[m - Len(p)] /\ m - Len(p) \in DOMAIN q
      BY <1>8, <1>10, <1>11
    <2>2. w[n] \in TasksOf(p) /\ w[m] \in TasksOf(q)
      BY <1>4, <1>5, <2>1
    <2> QED
      BY <1>3, <2>2
  <1>9. CASE m > Len(p) /\ n > Len(p)
    <2>1. w[m] = q[m - Len(p)] /\ w[n] = q[n - Len(p)] /\ m - Len(p) \in DOMAIN q /\ n - Len(p) \in DOMAIN q
      BY <1>1, <1>2, <1>9
    <2>2. m - Len(p) = n - Len(p)
      BY <1>3, <2>1 DEF OnceIn
    <2> QED
      BY <1>2, <2>2
  <1> QED
    BY <1>2, <1>6, <1>7, <1>8, <1>9

LEMMA OnceTail ==
  ASSUME NEW S, NEW seq \in Seq(S), seq # <<>>, NEW type, OnceIn(seq, type)
  PROVE  /\ OnceIn(Tail(seq), type)
         /\ \A y \in TasksOf(Tail(seq)) : Head(seq).type = type /\ y.type = type => y.key # Head(seq).key
  <1>1. Tail(seq) \in Seq(S) /\ Len(Tail(seq)) = Len(seq) - 1 /\ \A n \in 1..Len(Tail(seq)) : Tail(seq)[n] = seq[n + 1]
    BY HeadTailProperties
  <1>2. Len(seq) \in Nat \ {0} /\ DOMAIN seq = 1..Len(seq) /\ DOMAIN Tail(seq) = 1..Len(Tail(seq)) /\ Head(seq) = seq[1]
    BY <1>1, LenProperties, EmptySeq
  <1>3. \A n \in DOMAIN Tail(seq) : n + 1 \in DOMAIN seq /\ n + 1 # 1 /\ Tail(seq)[n] = seq[n + 1] /\ n \in Nat
    BY <1>1, <1>2
  <1>4. 1 \in DOMAIN seq
    BY <1>2
  <1>5. OnceIn(Tail(seq), type)
    <2>1. SUFFICES ASSUME NEW m \in DOMAIN Tail(seq), NEW n \in DOMAIN Tail(seq), Tail(seq)[m].type = type,
                          Tail(seq)[n].type = type, Tail(seq)[m].key = Tail(seq)[n].key
                   PROVE  m = n
      BY DEF OnceIn
    <2>2. m + 1 = n + 1
      BY <1>3, <2>1 DEF OnceIn
    <2> QED
      BY <1>3, <2>2
  <1>6. ASSUME NEW y \in TasksOf(Tail(seq)), Head(seq).type = type, y.type = type, y.key = Head(seq).key PROVE FALSE
    <2>1. PICK n \in DOMAIN Tail(seq) : y = Tail(seq)[n]
      BY DEF TasksOf
    <2>2. n + 1 = 1
      BY <1>2, <1>3, <1>4, <1>6, <2>1 DEF OnceIn
    <2> QED
      BY <1>3, <2>2
  <1> QED
    BY <1>5, <1>6

----------------------------------------------------------------------------
(* What the lobby remembers. *)

Forgetting(k) == \E t \in LobbyThreads : lpc[t] = "forget" /\ ltask[t].key = k

\* An entry belongs to the occupant of its slot; an active session has an entry, unless a
\* thread that has cleared it is just removing the session from the list.
EntryOwned == \A s \in Slots : entry[s].state # "EMPTY" => Found(<<s, entry[s].id>>)
ActiveOwned == \A k \in active : EntryMatches(k) \/ Forgetting(k)

\* Between the two steps of ENTER_LOBBY the session stays in the lobby; it can be active only
\* if a thread has not finished removing it.
TakenBack(k) == IsActive(k) /\ sess[k[1]].mode = "LOBBY" /\ (k \in active => Forgetting(k))
EnterOwned == \A t \in LobbyThreads, k \in Key : lpc[t] = "enter" /\ ltask[t].key = k => TakenBack(k)

\* A session that has not been added yet has not begun anything.
Issued == \A s \in Slots : sess[s].id <= conn[s]
NotAdded(k) == Found(k) => sess[k[1]].life = "ACTIVE" /\ sess[k[1]].mode = "LOGIN" /\ ~EntryMatches(k)
AddOwned ==
  \A task \in Waiting, k \in Key :
     task.type = "ADD_SESSION" /\ task.key = k => k[2] <= conn[k[1]] /\ NotAdded(k)

\* While a thread finalizes the connection of a slot, the slot keeps this connection, is free,
\* or has a new one whose ADD_SESSION task is not run before the phase ends.
Fresh(s) ==
  /\ sess[s].life = "ACTIVE" /\ sess[s].mode = "LOGIN" /\ entry[s].state = "EMPTY"
  /\ \E n \in DOMAIN lobbyTasks : n > claim /\ lobbyTasks[n] = LTask("ADD_SESSION", Occupant(s))
Closing(k) == Found(k) /\ sess[k[1]].life = "DISCONNECTING"
Closed(k) == Closing(k) /\ sess[k[1]].mode # "ROOM" /\ entry[k[1]].state = "EMPTY"
Replaced(s) == sess[s].life = "NONE" \/ Fresh(s)
FinalizeOwned ==
  \A t \in LobbyThreads, k \in Key : ltask[t].key = k =>
     /\ lpc[t] = "finalize" => Closing(k) \/ Replaced(k[1])
     /\ lpc[t] = "free" => Closed(k) \/ Replaced(k[1])

Owned ==
  EntryOwned /\ ActiveOwned /\ EnterOwned /\ Issued /\ AddOwned /\ FinalizeOwned /\ Once("ADD_SESSION")

\* A thread goes on as before, or ends a task that is not the removal of an active session.
ThreadKept(t) ==
  \/ lpc'[t] = lpc[t] /\ ltask'[t] = ltask[t]
  \/ lpc[t] # "forget" /\ lpc'[t] \in {"idle", "visit"}
ThreadsKept == \A t \in LobbyThreads : ThreadKept(t)

\* Tasks are posted.
Posting(q) == q \in Seq(LobbyTask) /\ lobbyTasks' = lobbyTasks \o q

\* No task is taken from the queue.
NoneTaken == \A t \in LobbyThreads : lpc'[t] = "task" => lpc[t] = "task" /\ ltask'[t] = ltask[t]

LEMMA KeptNoneTaken == ThreadsKept => NoneTaken
  BY DEF ThreadsKept, ThreadKept, NoneTaken

LEMMA WaitingKept ==
  ASSUME QueueOK, NoneTaken, NEW q, Posting(q)
  PROVE  /\ Waiting' \subseteq Waiting \cup TasksOf(q)
         /\ TasksOf(lobbyTasks') = TasksOf(lobbyTasks) \cup TasksOf(q)
         /\ \A t \in LobbyThreads : \A type : HasTask(t, type)' => HasTask(t, type) /\ ltask'[t] = ltask[t]
  <1>1. TasksOf(lobbyTasks') = TasksOf(lobbyTasks) \cup TasksOf(q)
    BY TasksOfConcat DEF QueueOK, Posting
  <1>2. ASSUME NEW t \in LobbyThreads, lpc'[t] = "task" PROVE lpc[t] = "task" /\ ltask'[t] = ltask[t]
    BY <1>2 DEF NoneTaken
  <1>3. ASSUME NEW x \in Waiting' PROVE x \in Waiting \cup TasksOf(q)
    BY <1>1, <1>2, <1>3 DEF Waiting
  <1> QED
    BY <1>1, <1>2, <1>3 DEF HasTask

\* Tasks of this type are only taken up, never posted.
LEMMA OnceKept ==
  ASSUME QueueOK, NoneTaken, NEW q, Posting(q), NEW type, Once(type), \A x \in TasksOf(q) : x.type # type
  PROVE  Once(type)'
  <1>1. OnceIn(q, type)
    BY DEF OnceIn, TasksOf
  <1>2. OnceIn(lobbyTasks', type)
    BY <1>1, OnceConcat DEF QueueOK, Once, Posting
  <1>3. \A t, u \in LobbyThreads :
          HasTask(t, type)' /\ HasTask(u, type)' /\ ltask'[t].key = ltask'[u].key => t = u
    BY WaitingKept DEF Once
  <1>4. \A t \in LobbyThreads, task \in TasksOf(lobbyTasks') :
          HasTask(t, type)' /\ task.type = type => task.key # ltask'[t].key
    BY WaitingKept DEF Once
  <1> QED
    BY <1>2, <1>3, <1>4 DEF Once

\* A step outside of the lobby's own bookkeeping: no connection comes or goes, nobody that has
\* no entry leaves LOGIN, and nobody that a thread is just taking back leaves the lobby.
SessionKept(s, x, y) ==
  /\ y.id = x.id
  /\ \/ y.life = x.life /\ y.mode = x.mode
     \/ /\ x.life # "NONE" /\ y.life # "NONE"
        /\ x.life = "ACTIVE" /\ x.mode = "LOBBY" => \A t \in LobbyThreads : lpc[t] = "enter" => ltask[t].key[1] # s
        /\ x.life = "ACTIVE" /\ x.mode = "LOGIN" => EntryMatches(Occupant(s))
        /\ x.life = "DISCONNECTING" => y.life = x.life /\ (y.mode = "ROOM" => x.mode = "ROOM")
SessionsKept == \A s \in Slots : SessionKept(s, sess[s], sess'[s])
EntriesKept ==
  \A s \in Slots : entry'[s].id = entry[s].id /\ (entry'[s].state = "EMPTY" <=> entry[s].state = "EMPTY")

LEMMA OutsideStep ==
  ASSUME Typed, Owned, ThreadsKept, SessionsKept, EntriesKept, UNCHANGED <<conn, active, claim>>,
         NEW q, Posting(q), \A x \in TasksOf(q) : x.type # "ADD_SESSION"
  PROVE  Owned'
  <1>1. \A k \in Key : k[1] \in Slots /\ k = <<k[1], k[2]>>
    BY KeyFacts
  <1>2. \A k \in Key : EntryMatches(k)' <=> EntryMatches(k)
    BY <1>1 DEF EntryMatches, EntriesKept
  <1>3. \A k \in Key : Found(k)' <=> Found(k)
    BY <1>1 DEF Found, SessionsKept, SessionKept
  <1>4. ASSUME NEW k, Forgetting(k) PROVE Forgetting(k)'
    BY <1>4 DEF Forgetting, ThreadsKept, ThreadKept
  <1>5. EntryOwned'
    <2>1. \A s \in Slots : <<s, entry[s].id>> \in Key /\ entry'[s].id = entry[s].id
      BY KeyFacts DEF Typed, LobbyOK, EntriesKept
    <2> QED
      BY <1>3, <2>1 DEF Owned, EntryOwned, EntriesKept
  <1>6. ActiveOwned'
    BY <1>2, <1>4 DEF Owned, ActiveOwned, Typed, LobbyOK
  <1>7. \A t \in LobbyThreads : lpc'[t] \notin {"idle", "visit"} => lpc'[t] = lpc[t] /\ ltask'[t] = ltask[t] /\ ltask[t].key \in Key
    BY ThreadKey DEF ThreadsKept, ThreadKept, Typed
  <1>8. EnterOwned'
    <2>1. SUFFICES ASSUME NEW t \in LobbyThreads, NEW k \in Key, lpc'[t] = "enter", ltask'[t].key = k
                   PROVE  TakenBack(k)'
      BY DEF EnterOwned
    <2>2. lpc[t] = "enter" /\ ltask[t].key = k /\ k[1] \in Slots
      BY <1>1, <1>7, <2>1
    <2>3. TakenBack(k)
      BY <2>2 DEF Owned, EnterOwned
    <2>4. sess'[k[1]].life = "ACTIVE" /\ sess'[k[1]].mode = "LOBBY"
      BY <2>2, <2>3 DEF SessionsKept, SessionKept, IsActive, TakenBack
    <2> QED
      BY <1>3, <1>4, <2>3, <2>4 DEF IsActive, TakenBack
  <1>9. Issued'
    BY DEF Owned, Issued, SessionsKept, SessionKept
  <1>10. AddOwned'
    <2>1. SUFFICES ASSUME NEW task \in Waiting', NEW k \in Key, task.type = "ADD_SESSION", task.key = k
                   PROVE  k[2] <= conn'[k[1]] /\ NotAdded(k)'
      BY DEF AddOwned
    <2>2. task \in Waiting
      BY <2>1, KeptNoneTaken, WaitingKept DEF Typed
    <2>3. k[1] \in Slots
      BY <1>1
    <2>4. k[2] <= conn[k[1]] /\ NotAdded(k)
      BY <2>1, <2>2 DEF Owned, AddOwned
    <2>5. ASSUME Found(k) PROVE sess'[k[1]].life = "ACTIVE" /\ sess'[k[1]].mode = "LOGIN"
      <3>1. sess[k[1]].life = "ACTIVE" /\ sess[k[1]].mode = "LOGIN" /\ ~EntryMatches(Occupant(k[1]))
        BY <2>3, <2>4, <2>5 DEF NotAdded, Found, Occupant, EntryMatches
      <3> QED
        BY <2>3, <3>1 DEF SessionsKept, SessionKept
    <2> QED
      BY <1>2, <1>3, <2>3, <2>4, <2>5 DEF NotAdded
  <1>11. ASSUME NEW s \in Slots, Replaced(s) PROVE Replaced(s)'
    <2>1. CASE sess[s].life = "NONE"
      BY <2>1 DEF Replaced, SessionsKept, SessionKept
    <2>2. CASE Fresh(s)
      <3>1. ~EntryMatches(Occupant(s))
        BY <2>2, OccupantKey DEF Typed, Fresh, EntryMatches
      <3>2. sess'[s].life = "ACTIVE" /\ sess'[s].mode = "LOGIN" /\ sess'[s].id = sess[s].id /\ entry'[s].state = "EMPTY"
        BY <2>2, <3>1 DEF Fresh, SessionsKept, SessionKept, EntriesKept
      <3>3. PICK n \in DOMAIN lobbyTasks : n > claim /\ lobbyTasks[n] = LTask("ADD_SESSION", Occupant(s))
        BY <2>2 DEF Fresh
      <3>4. n \in DOMAIN lobbyTasks' /\ lobbyTasks'[n] = lobbyTasks[n]
        BY <3>3, TasksOfConcat DEF Typed, QueueOK, Posting
      <3>5. Occupant(s)' = Occupant(s)
        BY <3>2 DEF Occupant
      <3>6. lobbyTasks'[n] = LTask("ADD_SESSION", Occupant(s))'
        BY <3>3, <3>4, <3>5
      <3> QED
        BY <3>2, <3>3, <3>4, <3>6 DEF Replaced, Fresh
    <2> QED
      BY <1>11, <2>1, <2>2 DEF Replaced
  <1>12. FinalizeOwned'
    <2>1. SUFFICES ASSUME NEW t \in LobbyThreads, NEW k \in Key, ltask'[t].key = k, lpc'[t] \in {"finalize", "free"}
                   PROVE  /\ lpc'[t] = "finalize" => Closing(k)' \/ Replaced(k[1])'
                          /\ lpc'[t] = "free" => Closed(k)' \/ Replaced(k[1])'
      BY DEF FinalizeOwned
    <2>2. k[1] \in Slots /\ k = ltask[t].key /\ lpc'[t] = lpc[t]
      BY <1>1, <1>7, <2>1
    <2>3. Closing(k) => Closing(k)'
      BY <1>3, <2>2 DEF Closing, SessionsKept, SessionKept
    <2>4. Closed(k) => Closed(k)'
      BY <2>2, <2>3 DEF Closed, Closing, SessionsKept, SessionKept, EntriesKept
    <2>5. Replaced(k[1]) => Replaced(k[1])'
      BY <1>11, <2>2
    <2>6. /\ lpc[t] = "finalize" => Closing(k) \/ Replaced(k[1])
          /\ lpc[t] = "free" => Closed(k) \/ Replaced(k[1])
      BY <2>2 DEF Owned, FinalizeOwned
    <2> QED
      BY <2>2, <2>3, <2>4, <2>5, <2>6
  <1>13. Once("ADD_SESSION")'
    BY KeptNoneTaken, OnceKept DEF Typed, Owned
  <1> QED
    BY <1>5, <1>6, <1>8, <1>9, <1>10, <1>12, <1>13 DEF Owned

\* The ways in which a step outside of the lobby's bookkeeping posts tasks and changes sessions.
NothingNew == \E q : Posting(q) /\ \A x \in TasksOf(q) : x.type # "ADD_SESSION"

LEMMA PostNothing ==
  ASSUME QueueOK, UNCHANGED lobbyTasks
  PROVE  Posting(<<>>) /\ TasksOf(<<>>) = {}
  <1>1. lobbyTasks \o <<>> = lobbyTasks /\ <<>> \in Seq(LobbyTask)
    BY ConcatEmptySeq, EmptySeq DEF QueueOK
  <1>2. TasksOf(<<>>) = {}
    BY DEF TasksOf
  <1> QED
    BY <1>1, <1>2 DEF Posting

LEMMA PostOne ==
  ASSUME QueueOK, NEW x \in LobbyTask, lobbyTasks' = Append(lobbyTasks, x)
  PROVE  Posting(<<x>>) /\ TasksOf(<<x>>) = {x}
  <1>1. Append(lobbyTasks, x) = lobbyTasks \o <<x>> /\ <<x>> \in Seq(LobbyTask)
    BY AppendIsConcat DEF QueueOK
  <1>2. TasksOf(<<x>>) = {x}
    BY DEF TasksOf
  <1> QED
    BY <1>1, <1>2 DEF Posting

LEMMA NothingPosted ==
  ASSUME QueueOK, \/ UNCHANGED lobbyTasks
                  \/ \E x \in LobbyTask : x.type # "ADD_SESSION" /\ lobbyTasks' = Append(lobbyTasks, x)
  PROVE  NothingNew
  BY PostNothing, PostOne DEF NothingNew

LEMMA NoticePosted ==
  ASSUME NEW k \in Key
  PROVE  RoomDisconnectNotice(k) \in Seq(LobbyTask) /\ \A x \in TasksOf(RoomDisconnectNotice(k)) : x = LTask("DISCONNECT", k)
  <1>1. TasksOf(<<LTask("DISCONNECT", k)>>) = {LTask("DISCONNECT", k)} /\ TasksOf(<<>>) = {}
    BY DEF TasksOf
  <1> QED
    BY <1>1, NoticeTyped DEF RoomDisconnectNotice

LEMMA SessionSet ==
  ASSUME SessOK, NEW s \in Slots, NEW x, sess' = [sess EXCEPT ![s] = x], SessionKept(s, sess[s], x)
  PROVE  SessionsKept
  BY RightIn DEF SessionsKept, SessionKept

LEMMA SessionsSame ==
  /\ UNCHANGED sess => SessionsKept
  /\ \A s \in Slots, b \in BOOLEAN : SessOK /\ sess' = [sess EXCEPT ![s].right = b] => SessionsKept
  <1>1. UNCHANGED sess => SessionsKept
    BY DEF SessionsKept, SessionKept
  <1>2. ASSUME NEW s \in Slots, NEW b \in BOOLEAN, SessOK, sess' = [sess EXCEPT ![s].right = b] PROVE SessionsKept
    <2> DEFINE x == [sess[s] EXCEPT !.right = b]
    <2>1. sess[s] \in Session
      BY <1>2 DEF SessOK
    <2>2. x.id = sess[s].id /\ x.life = sess[s].life /\ x.mode = sess[s].mode
      BY <2>1 DEF Session
    <2>3. sess' = [sess EXCEPT ![s] = x]
      BY <1>2
    <2> HIDE DEF x
    <2> QED
      BY <1>2, <2>2, <2>3, SessionSet DEF SessionKept
  <1> QED
    BY <1>1, <1>2

\* A session that is being disconnected leaves its room.
LEMMA DisconnectKept ==
  ASSUME SessOK, NEW k \in Key, sess' = AfterRoomDisconnect(sess, k)
  PROVE  SessionsKept
  <1>1. CASE LeavesRoom(k)
    <2> DEFINE x == [sess[k[1]] EXCEPT !.mode = "NONE", !.room = NoIndex]
    <2>1. k[1] \in Slots /\ sess[k[1]] \in Session
      BY KeyFacts DEF SessOK
    <2>2. sess' = [sess EXCEPT ![k[1]] = x]
      BY <1>1 DEF AfterRoomDisconnect
    <2>3. x.id = sess[k[1]].id /\ x.life = sess[k[1]].life /\ x.mode = "NONE"
      BY <2>1 DEF Session
    <2>4. sess[k[1]].life \in {"DISCONNECT_PENDING", "DISCONNECTING"}
      BY <1>1 DEF LeavesRoom, Disconnecting
    <2> HIDE DEF x
    <2> QED
      BY <2>1, <2>2, <2>3, <2>4, SessionSet DEF SessionKept
  <1>2. CASE ~LeavesRoom(k)
    BY <1>2, SessionsSame DEF AfterRoomDisconnect
  <1> QED
    BY <1>1, <1>2

\* Neither the threads nor the entries take part.
LEMMA AwayStep ==
  ASSUME Typed, Owned, UNCHANGED <<conn, entry, active, claim, lpc, ltask>>, SessionsKept, NothingNew
  PROVE  Owned'
  <1>1. ThreadsKept /\ EntriesKept
    BY DEF ThreadsKept, ThreadKept, EntriesKept
  <1> QED
    BY <1>1, OutsideStep DEF NothingNew

\* While the right of a session is free no thread of the lobby has it, and never two.
LEMMA FreeOfThreads ==
  ASSUME HoldOK, NEW s \in Slots
  PROVE  /\ ~sess[s].right => \A t \in LobbyThreads : lpc[t] \in Working => ltask[t].key[1] # s
         /\ \A t, u \in LobbyThreads : lpc[t] \in Working /\ ltask[t].key[1] = s
                                       /\ lpc[u] \in Working /\ ltask[u].key[1] = s => t = u
         /\ \A t \in LobbyThreads, r \in RoomKeys :
              ~(lpc[t] \in Working /\ ltask[t].key[1] = s /\ rooms[r].pc = "hold" /\ rooms[r].held[1] = s)
  <1>1. ASSUME NEW t \in LobbyThreads, lpc[t] \in Working, ltask[t].key[1] = s
        PROVE  <<"lobby", t>> \in Holders(s)
    BY <1>1 DEF Holders, LobbyHolders, Working
  <1>2. ASSUME NEW r \in RoomKeys, rooms[r].pc = "hold", rooms[r].held[1] = s
        PROVE  <<"room", r>> \in Holders(s)
    BY <1>2 DEF Holders, RoomHolders
  <1>3. ~sess[s].right => Holders(s) = {}
    BY DEF HoldOK
  <1>4. \A x, y \in Holders(s) : x = y
    BY DEF HoldOK
  <1>5. \A t, u : (<<"lobby", t>> = <<"lobby", u>> => t = u) /\ <<"lobby", t>> # <<"room", u>>
    OBVIOUS
  <1>6. ~sess[s].right => \A t \in LobbyThreads : lpc[t] \in Working => ltask[t].key[1] # s
    BY <1>1, <1>3
  <1>7. \A t, u \in LobbyThreads : lpc[t] \in Working /\ ltask[t].key[1] = s
                                   /\ lpc[u] \in Working /\ ltask[u].key[1] = s => t = u
    BY <1>1, <1>4, <1>5
  <1>8. \A t \in LobbyThreads, r \in RoomKeys :
          ~(lpc[t] \in Working /\ ltask[t].key[1] = s /\ rooms[r].pc = "hold" /\ rooms[r].held[1] = s)
    BY <1>1, <1>2, <1>4, <1>5
  <1> QED
    BY <1>6, <1>7, <1>8

----------------------------------------------------------------------------
(* The steps of the network, the game threads and the rooms. *)

LEMMA CompleteOwned ==
  ASSUME Typed, Owned, NEW s \in Slots, CompleteSessionIO(s)
  PROVE  Owned'
  <1> DEFINE x == [sess[s] EXCEPT !.life = "DISCONNECTING"]
  <1>1. sess[s] \in Session /\ Occupant(s) \in Key
    BY OccupantKey DEF Typed
  <1>2. x.id = sess[s].id /\ x.life = "DISCONNECTING" /\ x.mode = sess[s].mode
    BY <1>1 DEF Session
  <1>3. sess' = [sess EXCEPT ![s] = x] /\ sess[s].life = "DISCONNECT_PENDING"
    BY DEF CompleteSessionIO
  <1> HIDE DEF x
  <1>4. SessionsKept
    BY <1>2, <1>3, SessionSet DEF Typed, SessionKept
  <1>5. LTask("DISCONNECT", Occupant(s)) \in LobbyTask /\ LTask("DISCONNECT", Occupant(s)).type = "DISCONNECT"
    BY <1>1, TaskTypes DEF LobbyTaskType
  <1>6. NothingNew
    BY <1>5, NothingPosted DEF Typed, CompleteSessionIO
  <1> QED
    BY <1>4, <1>6, AwayStep DEF CompleteSessionIO, lobbyVars, phaseVars, threadVars

LEMMA CreateOwned ==
  ASSUME Typed, HoldOK, Owned, NEW g \in GameThreads, CreateStep(g)
  PROVE  Owned'
  <1>1. UNCHANGED <<conn, entry, active, claim, lpc, ltask>>
    BY DEF CreateStep, DeleteRoom, BeginCreate, RefuseCreate, AnswerCreate, CompleteRoomInitialization, CreateRoom,
           sessVars, lobbyVars, phaseVars, threadVars
  <1>2. NothingNew
    <2>1. CASE UNCHANGED lobbyTasks
      BY <2>1, NothingPosted DEF Typed
    <2>2. ASSUME NEW k \in Key, NEW ok \in BOOLEAN, lobbyTasks' = Append(lobbyTasks, TransitionResult(k, ok, FALSE))
          PROVE  NothingNew
      BY <2>2, TaskTypes, NothingPosted DEF Typed
    <2>3. CASE BeginCreate(g)
      <3> DEFINE k == Head(lifeTasks).key
      <3>1. CASE lobbyTasks' = CreateRefused(k) /\ lifeTasks # <<>> /\ Head(lifeTasks).type = "CREATE"
        <4>1. Head(lifeTasks) \in LifecycleTask
          BY <3>1, QueueFacts DEF Typed, GameOK
        <4>2. k \in Key
          BY <3>1, <4>1 DEF LifecycleTask
        <4> QED
          BY <2>2, <3>1, <4>2 DEF CreateRefused
      <3> QED
        BY <2>1, <2>3, <3>1 DEF BeginCreate
    <2>4. CASE RefuseCreate(g) \/ AnswerCreate(g)
      <3>1. gkey[g] \in Key
        BY <2>4 DEF Typed, GameOK, RefuseCreate, AnswerCreate
      <3> QED
        BY <2>2, <2>4, <3>1 DEF RefuseCreate, AnswerCreate, CreateRefused
    <2> QED
      BY <2>1, <2>3, <2>4 DEF CreateStep, DeleteRoom, CompleteRoomInitialization, CreateRoom
  <1>3. SessionsKept
    <2>1. CASE UNCHANGED sess
      BY <2>1, SessionsSame
    <2>2. CASE CompleteRoomInitialization(g)
      <3>1. gkey[g][1] \in Slots
        BY <2>2, KeyFacts DEF Typed, GameOK, CompleteRoomInitialization
      <3> QED
        BY <2>2, <3>1, SessionsSame DEF CompleteRoomInitialization, Typed
    <2>3. ASSUME NEW r \in RoomKeys, NEW i \in RoomIndices, NEW max \in {1, Cardinality(Seats)}, CreateRoom(g, r, i, max)
          PROVE  SessionsKept
      <3> DEFINE s == gkey[g][1]
                 x == [sess[s] EXCEPT !.mode = "ROOM", !.room = i, !.right = TRUE]
      <3>1. s \in Slots /\ sess[s] \in Session
        BY <2>3, KeyFacts DEF Typed, GameOK, SessOK, CreateRoom
      <3>2. x.id = sess[s].id /\ x.life = sess[s].life /\ x.mode = "ROOM"
        BY <3>1 DEF Session
      <3>3. sess' = [sess EXCEPT ![s] = x] /\ ~sess[s].right /\ sess[s].mode = "LOBBY" /\ sess[s].life = "ACTIVE"
        BY <2>3 DEF CreateRoom, RightFree, IsActive
      <3> HIDE DEF x
      <3>4. \A t \in LobbyThreads : lpc[t] = "enter" => ltask[t].key[1] # s
        BY <3>1, <3>3, FreeOfThreads DEF Working
      <3> QED
        BY <3>1, <3>2, <3>3, <3>4, SessionSet DEF Typed, SessionKept
    <2> QED
      BY <2>1, <2>2, <2>3 DEF CreateStep, DeleteRoom, BeginCreate, RefuseCreate, AnswerCreate, sessVars
  <1> QED
    BY <1>1, <1>2, <1>3, AwayStep

\* RequestLobbyTransition posts an ENTER_LOBBY task after the notice of a disconnection.
LEMMA ToLobbyPosts ==
  ASSUME Typed, NEW r \in RoomKeys, AtTask(r), NEW k \in Key, ToLobby(r, AfterTask(rooms[r]), k)
  PROVE  \E x \in LobbyTask : /\ x = [LTask("ENTER_LOBBY", k) EXCEPT !.room = rooms[r].index]
                              /\ x.type = "ENTER_LOBBY" /\ x.key = k /\ x.room = rooms[r].index
                              /\ Posting(RoomDisconnectNotice(k) \o <<x>>)
                              /\ TasksOf(RoomDisconnectNotice(k) \o <<x>>) = TasksOf(RoomDisconnectNotice(k)) \cup {x}
  <1> DEFINE task == [LTask("ENTER_LOBBY", k) EXCEPT !.room = rooms[r].index]
  <1>1. AfterTask(rooms[r]).index = rooms[r].index /\ rooms[r].index \in RoomIndices
    BY AfterTaskOK, MadeIndex DEF Typed, RoomsOK, AtTask
  <1>2. task \in LobbyTask /\ task.type = "ENTER_LOBBY" /\ task.key = k
    BY <1>1, TaskTypes DEF LobbyTaskType
  <1>6. task.room = rooms[r].index
    BY DEF LTask
  <1>3. lobbyTasks' = (lobbyTasks \o RoomDisconnectNotice(k)) \o <<task>>
    BY <1>1 DEF ToLobby
  <1> HIDE DEF task
  <1>4. <<task>> \in Seq(LobbyTask) /\ RoomDisconnectNotice(k) \in Seq(LobbyTask) /\ lobbyTasks \in Seq(LobbyTask)
        /\ TasksOf(<<task>>) = {task}
    BY <1>2, NoticeTyped DEF Typed, QueueOK, TasksOf
  <1>5. /\ lobbyTasks' = lobbyTasks \o (RoomDisconnectNotice(k) \o <<task>>)
        /\ RoomDisconnectNotice(k) \o <<task>> \in Seq(LobbyTask)
        /\ TasksOf(RoomDisconnectNotice(k) \o <<task>>) = TasksOf(RoomDisconnectNotice(k)) \cup {task}
    <2>1. (lobbyTasks \o RoomDisconnectNotice(k)) \o <<task>> = lobbyTasks \o (RoomDisconnectNotice(k) \o <<task>>)
      BY <1>4, ConcatAssociative
    <2>2. /\ RoomDisconnectNotice(k) \o <<task>> \in Seq(LobbyTask)
          /\ TasksOf(RoomDisconnectNotice(k) \o <<task>>) = TasksOf(RoomDisconnectNotice(k)) \cup TasksOf(<<task>>)
      BY <1>4, TasksOfConcat, Zenon
    <2> QED
      BY <1>3, <1>4, <2>1, <2>2
  <1> QED
    BY <1>2, <1>5, <1>6 DEF Posting, task

LEMMA ToLobbyOwned ==
  ASSUME Typed, NEW r \in RoomKeys, AtTask(r), NEW k \in Key, ToLobby(r, AfterTask(rooms[r]), k)
  PROVE  SessionsKept /\ NothingNew
  <1>1. SessionsKept
    BY DisconnectKept DEF Typed, ToLobby
  <1>2. \A x \in TasksOf(RoomDisconnectNotice(k)) : x.type # "ADD_SESSION"
    BY NoticePosted, TaskTypes DEF LobbyTaskType
  <1>3. PICK x \in LobbyTask : x.type = "ENTER_LOBBY" /\ Posting(RoomDisconnectNotice(k) \o <<x>>)
                              /\ TasksOf(RoomDisconnectNotice(k) \o <<x>>) = TasksOf(RoomDisconnectNotice(k)) \cup {x}
    BY ToLobbyPosts
  <1>4. \A y \in TasksOf(RoomDisconnectNotice(k) \o <<x>>) : y.type # "ADD_SESSION"
    BY <1>2, <1>3
  <1> QED
    BY <1>1, <1>3, <1>4 DEF NothingNew

\* Whoever a task is about is not in other hands.
LEMMA TaskRight ==
  ASSUME NEW r \in RoomKeys, NEW type, TaskReady(r, type)
  PROVE  /\ Found(Head(rooms[r].tasks).key) => ~sess[Head(rooms[r].tasks).key[1]].right
         /\ \A k \in KickTarget(r, Head(rooms[r].tasks)) :
              type = "KICK" /\ RequestValid(r, Head(rooms[r].tasks).key) => ~sess[k[1]].right
  BY DEF TaskReady, Needs, RightFree, RequestValid

LEMMA TargetKey ==
  ASSUME RoomsOK, NEW r \in RoomKeys, NEW c \in KickTarget(r, Head(rooms[r].tasks))
  PROVE  Seated(r, c) # {} /\ c \in Key
  <1>1. SeatActive(r, c)
    BY DEF KickTarget
  <1>2. PICK n \in Seats : rooms[r].seats[n].key = c /\ rooms[r].seats[n].state # "EMPTY" /\ n \in Seated(r, c)
    BY <1>1 DEF SeatActive, Seated
  <1> QED
    BY <1>2, TakenKey

LEMMA RoomTaskOwned ==
  ASSUME Typed, HoldOK, Owned, NEW r \in RoomKeys, ProcessRoomTask(r)
  PROVE  Owned'
  <1> DEFINE task == Head(rooms[r].tasks)
             k == task.key
  <1>0. AtTask(r) /\ task \in RoomTask /\ k \in Key /\ k[1] \in Slots /\ sess[k[1]] \in Session
    <2>1. AtTask(r)
      BY DEF ProcessRoomTask, ProcessJoin, ProcessRemove, ProcessKick, ProcessStart, ProcessGiveUp, TaskReady
    <2> QED
      BY <2>1, TaskAtHand DEF Typed, SessOK
  <1>1. UNCHANGED <<conn, entry, active, claim, lpc, ltask>>
    BY DEF ProcessRoomTask, ProcessJoin, ProcessRemove, ProcessKick, ProcessStart, ProcessGiveUp,
           sessVars, lobbyVars, phaseVars, threadVars
  <1>2. CASE UNCHANGED <<sess, lobbyTasks>>
    BY <1>1, <1>2, SessionsSame, NothingPosted, AwayStep DEF Typed
  <1>3. CASE ProcessJoin(r)
    <2>1. NothingNew
      <3>1. \A ok \in BOOLEAN : TransitionResult(k, ok, task.match) \in LobbyTask
                                 /\ TransitionResult(k, ok, task.match).type = "ROOM_TRANSITION_RESULT"
        BY <1>0, TaskTypes DEF RoomTask
      <3> QED
        BY <1>3, <3>1, NothingPosted DEF Typed, ProcessJoin
    <2>2. CASE /\ MayJoin(r, k)
               /\ sess' = [sess EXCEPT ![k[1]] = [sess[k[1]] EXCEPT !.mode = "ROOM", !.room = rooms[r].index]]
      <3> DEFINE x == [sess[k[1]] EXCEPT !.mode = "ROOM", !.room = rooms[r].index]
      <3>1. x.id = sess[k[1]].id /\ x.life = sess[k[1]].life /\ x.mode = "ROOM"
        BY <1>0 DEF Session
      <3>2. sess[k[1]].life = "ACTIVE" /\ sess[k[1]].mode = "LOBBY" /\ ~sess[k[1]].right
        BY <1>3, <2>2, TaskRight DEF MayJoin, IsActive, ProcessJoin
      <3> HIDE DEF x
      <3>3. \A t \in LobbyThreads : lpc[t] = "enter" => ltask[t].key[1] # k[1]
        BY <1>0, <3>2, FreeOfThreads DEF Working
      <3>4. SessionsKept
        BY <1>0, <2>2, <3>1, <3>2, <3>3, SessionSet DEF Typed, SessionKept, x
      <3> QED
        BY <1>1, <2>1, <3>4, AwayStep
    <2>3. CASE UNCHANGED sess
      BY <1>1, <2>1, <2>3, SessionsSame, AwayStep
    <2> QED
      BY <1>3, <2>2, <2>3 DEF ProcessJoin
  <1>4. CASE ProcessRemove(r)
    <2>1. CASE ToLobby(r, AfterTask(rooms[r]), k)
      BY <1>0, <1>1, <2>1, ToLobbyOwned, AwayStep
    <2>2. CASE sess' = AfterRoomDisconnect(sess, k) /\ lobbyTasks' = lobbyTasks \o RoomDisconnectNotice(k)
      <3>1. SessionsKept
        BY <1>0, <2>2, DisconnectKept DEF Typed
      <3>2. NothingNew
        BY <1>0, <2>2, NoticePosted, TaskTypes DEF NothingNew, Posting, LobbyTaskType
      <3> QED
        BY <1>1, <3>1, <3>2, AwayStep
    <2> QED
      BY <1>2, <1>4, <2>1, <2>2 DEF ProcessRemove
  <1>5. CASE ProcessKick(r)
    <2>1. ASSUME NEW c \in KickTarget(r, task), ToLobby(r, AfterTask(rooms[r]), c) PROVE Owned'
      BY <1>0, <1>1, <2>1, TargetKey, ToLobbyOwned, AwayStep DEF Typed
    <2> QED
      BY <1>2, <1>5, <2>1 DEF ProcessKick
  <1>6. CASE ProcessStart(r) \/ ProcessGiveUp(r)
    BY <1>2, <1>6 DEF ProcessStart, ProcessGiveUp, sessVars
  <1> QED
    BY <1>3, <1>4, <1>5, <1>6 DEF ProcessRoomTask

\* The session on the seat that a tick visits.
LEMMA VisitedKey ==
  ASSUME RoomsOK, NEW r \in RoomKeys, Holding(r)
  PROVE  SeatKey(r) \in Key /\ SeatKey(r)[1] \in Slots /\ rooms[r].seat \in Seats
         /\ rooms[r].seat \in Seated(r, SeatKey(r))
  <1>1. rooms[r].seat \in Seats /\ rooms[r].seats[rooms[r].seat].state = "ACTIVE"
    BY DEF RoomsOK, RoomOK, LifeOK, Holding, Visitable
  <1>2. SeatKey(r) \in Key
    BY <1>1, TakenKey DEF SeatKey
  <1> QED
    BY <1>1, <1>2, KeyFacts DEF Seated, SeatKey

LEMMA TickOwned ==
  ASSUME Typed, Owned, NEW r \in RoomKeys,
         \/ BeginTick(r) \/ ClaimTasks(r) \/ KeepPending(r) \/ EndRoomTasks(r) \/ VisitSeat(r) \/ EndSeatVisit(r)
         \/ PlayTick(r) \/ RoomRequest(r)
  PROVE  Owned'
  <1>1. UNCHANGED <<conn, entry, active, claim, lpc, ltask>>
    BY DEF BeginTick, ClaimTasks, KeepPending, EndRoomTasks, VisitSeat, EndSeatVisit, PlayTick, RoomRequest, LeaveRoom,
           DisconnectInRoom, RequestRoomTask, sessVars, lobbyVars, phaseVars, threadVars
  <1>2. CASE UNCHANGED <<sess, lobbyTasks>>
    BY <1>1, <1>2, SessionsSame, NothingPosted, AwayStep DEF Typed
  <1>3. CASE BeginTick(r) \/ ClaimTasks(r) \/ KeepPending(r) \/ EndRoomTasks(r) \/ PlayTick(r)
    BY <1>2, <1>3 DEF BeginTick, ClaimTasks, KeepPending, EndRoomTasks, PlayTick, sessVars
  <1>4. CASE VisitSeat(r) \/ EndSeatVisit(r)
    <2>1. UNCHANGED lobbyTasks
      BY <1>4 DEF VisitSeat, EndSeatVisit
    <2>2. CASE VisitSeat(r)
      <3>1. SeatKey(r) \in Key => SeatKey(r)[1] \in Slots
        BY KeyFacts
      <3>2. SessionsKept
        BY <2>2, <3>1, VisitSeatSteps, SessionsSame DEF Typed
      <3> QED
        BY <1>1, <2>1, <3>2, NothingPosted, AwayStep DEF Typed
    <2>3. CASE EndSeatVisit(r)
      <3>1. rooms[r].held[1] \in Slots
        BY <2>3, KeyFacts DEF Typed, RoomsOK, RoomOK, LifeOK, EndSeatVisit
      <3>2. SessionsKept
        BY <2>3, <3>1, SessionsSame DEF Typed, EndSeatVisit
      <3> QED
        BY <1>1, <2>1, <3>2, NothingPosted, AwayStep DEF Typed
    <2> QED
      BY <1>4, <2>2, <2>3
  <1>5. CASE LeaveRoom(r)
    <2>1. SeatKey(r) \in Key
      BY <1>5, VisitedKey DEF Typed, LeaveRoom
    <2>2. rooms[r].index \in RoomIndices
      BY <1>5, MadeIndex DEF Typed, LeaveRoom, Holding
    <2>3. NothingNew
      BY <1>5, <2>1, <2>2, TaskTypes, NothingPosted DEF LeaveRoom, Typed, LobbyTaskType
    <2> QED
      BY <1>1, <1>5, <2>3, SessionsSame, AwayStep DEF LeaveRoom, sessVars
  <1>6. CASE DisconnectInRoom(r)
    <2> DEFINE s == SeatKey(r)[1]
               x == [sess[s] EXCEPT !.life = "DISCONNECT_PENDING"]
    <2>1. s \in Slots /\ sess[s] \in Session
      BY <1>6, VisitedKey DEF Typed, SessOK, DisconnectInRoom
    <2>2. x.id = sess[s].id /\ x.life = "DISCONNECT_PENDING"
      BY <2>1 DEF Session
    <2>3. sess' = [sess EXCEPT ![s] = x] /\ sess[s].life = "ACTIVE" /\ sess[s].mode = "ROOM"
      BY <1>6 DEF DisconnectInRoom, BeginDisconnect, Holding, Visitable, IsActive, InRoom
    <2> HIDE DEF x
    <2>4. SessionsKept
      BY <2>1, <2>2, <2>3, SessionSet DEF Typed, SessionKept
    <2> QED
      BY <1>1, <1>6, <2>4, NothingPosted, AwayStep DEF Typed, DisconnectInRoom
  <1>7. ASSUME NEW type \in {"START", "KICK", "GIVE_UP"}, NEW target \in Key \cup {NoKey}, RequestRoomTask(r, type, target)
        PROVE  Owned'
    BY <1>2, <1>7 DEF RequestRoomTask, sessVars
  <1> QED
    BY <1>3, <1>4, <1>5, <1>6, <1>7 DEF RoomRequest

----------------------------------------------------------------------------
(* The steps of a lobby thread. *)

\* What Owned says of one slot.
OwnedAt(s) ==
  /\ entry[s].state # "EMPTY" => sess[s].life # "NONE" /\ sess[s].id = entry[s].id
  /\ \A k \in active : k[1] = s => EntryMatches(k) \/ Forgetting(k)
  /\ \A t \in LobbyThreads, k \in Key : k[1] = s /\ lpc[t] = "enter" /\ ltask[t].key = k => TakenBack(k)
  /\ sess[s].id <= conn[s]
  /\ \A task \in Waiting, k \in Key : k[1] = s /\ task.type = "ADD_SESSION" /\ task.key = k => k[2] <= conn[s] /\ NotAdded(k)
  /\ \A t \in LobbyThreads, k \in Key : k[1] = s /\ ltask[t].key = k =>
        /\ lpc[t] = "finalize" => Closing(k) \/ Replaced(s)
        /\ lpc[t] = "free" => Closed(k) \/ Replaced(s)

LEMMA OwnedSlots ==
  ASSUME Typed
  PROVE  Owned => \A s \in Slots : OwnedAt(s)
  <1> SUFFICES ASSUME Owned, NEW s \in Slots PROVE OwnedAt(s)
    OBVIOUS
  <1>1. entry[s].state # "EMPTY" => sess[s].life # "NONE" /\ sess[s].id = entry[s].id
    BY DEF Owned, EntryOwned, Found
  <1> QED
    BY <1>1 DEF OwnedAt, Owned, ActiveOwned, EnterOwned, Issued, AddOwned, FinalizeOwned

\* Thread t works on the connection of slot s: what has to be shown of the step is about s.
SlotStep(t, s) ==
  /\ ltask[t].key[1] = s
  /\ lpc'[t] # "task" /\ (lpc'[t] # "idle" => ltask'[t].key[1] = s)
  /\ \A u \in LobbyThreads \ {t} : lpc'[u] = lpc[u] /\ ltask'[u] = ltask[u]
  /\ \A q \in Slots \ {s} : sess'[q] = sess[q] /\ entry'[q] = entry[q]
  /\ \A k \in active' : k[1] # s => k \in active
  /\ UNCHANGED <<conn, lobbyTasks, claim>>

LEMMA SlotWaiting ==
  ASSUME Typed, NEW t \in LobbyThreads, NEW s \in Slots, SlotStep(t, s)
  PROVE  /\ \A x \in Waiting' : x \in Waiting /\ (Once("ADD_SESSION") /\ HasTask(t, "ADD_SESSION") /\ x.type = "ADD_SESSION"
                                                   => x.key # ltask[t].key)
         /\ Once("ADD_SESSION") => Once("ADD_SESSION")'
  <1>1. \A u \in LobbyThreads : lpc'[u] = "task" => u # t /\ lpc[u] = "task" /\ ltask'[u] = ltask[u]
    BY DEF SlotStep
  <1>2. UNCHANGED lobbyTasks
    BY DEF SlotStep
  <1>3. ASSUME NEW x \in Waiting' PROVE x \in TasksOf(lobbyTasks) \/ \E u \in LobbyThreads : u # t /\ lpc[u] = "task" /\ x = ltask[u]
    <2>1. TasksOf(lobbyTasks') = TasksOf(lobbyTasks)
      BY <1>2
    <2> QED
      BY <1>1, <1>3, <2>1 DEF Waiting
  <1>4. ASSUME NEW x \in Waiting' PROVE x \in Waiting /\ (Once("ADD_SESSION") /\ HasTask(t, "ADD_SESSION") /\ x.type = "ADD_SESSION"
                                                   => x.key # ltask[t].key)
    BY <1>3, <1>4 DEF Waiting, Once, HasTask
  <1>5. ASSUME Once("ADD_SESSION") PROVE Once("ADD_SESSION")'
    <2>1. OnceIn(lobbyTasks', "ADD_SESSION") /\ TasksOf(lobbyTasks') = TasksOf(lobbyTasks)
      BY <1>2, <1>5 DEF Once
    <2> QED
      BY <1>1, <1>5, <2>1 DEF Once, HasTask
  <1> QED
    BY <1>4, <1>5

LEMMA OtherSlots ==
  ASSUME Typed, Typed', Owned, NEW t \in LobbyThreads, NEW s \in Slots, SlotStep(t, s), OwnedAt(s)'
  PROVE  Owned'
  <1>1. \A k \in Key : k[1] \in Slots /\ k = <<k[1], k[2]>>
    BY KeyFacts
  <1>2. \A k \in Key : k[1] # s => /\ (EntryMatches(k)' <=> EntryMatches(k)) /\ (Found(k)' <=> Found(k))
                                   /\ sess'[k[1]] = sess[k[1]] /\ entry'[k[1]] = entry[k[1]]
    BY <1>1 DEF SlotStep, EntryMatches, Found
  <1>3. ASSUME NEW k, k[1] # s, Forgetting(k) PROVE Forgetting(k)'
    BY <1>3 DEF SlotStep, Forgetting
  <1>4. EntryOwned'
    <2>1. SUFFICES ASSUME NEW q \in Slots, entry'[q].state # "EMPTY", NEW n, n = entry'[q].id PROVE Found(<<q, n>>)'
      BY DEF EntryOwned
    <2>2. CASE q = s
      BY <2>1, <2>2 DEF OwnedAt, Found
    <2>3. CASE q # s
      <3>1. entry[q].state # "EMPTY" /\ n = entry[q].id /\ sess'[q] = sess[q]
        BY <2>1, <2>3 DEF SlotStep
      <3> QED
        BY <3>1 DEF Owned, EntryOwned, Found
    <2> QED
      BY <2>2, <2>3
  <1>5. ActiveOwned'
    <2>1. SUFFICES ASSUME NEW k \in active' PROVE EntryMatches(k)' \/ Forgetting(k)'
      BY DEF ActiveOwned
    <2>2. CASE k[1] = s
      BY <2>2 DEF OwnedAt
    <2>3. CASE k[1] # s
      <3>1. k \in active /\ k \in Key
        BY <2>3 DEF SlotStep, Typed, LobbyOK
      <3> QED
        BY <1>2, <1>3, <2>3, <3>1 DEF Owned, ActiveOwned
    <2> QED
      BY <2>2, <2>3
  <1>6. EnterOwned'
    <2>1. SUFFICES ASSUME NEW u \in LobbyThreads, NEW k \in Key, lpc'[u] = "enter", ltask'[u].key = k PROVE TakenBack(k)'
      BY DEF EnterOwned
    <2>2. CASE k[1] = s
      BY <2>1, <2>2 DEF OwnedAt
    <2>3. CASE k[1] # s
      <3>1. lpc[u] = "enter" /\ ltask[u].key = k
        BY <2>1, <2>3 DEF SlotStep
      <3>2. TakenBack(k)
        BY <3>1 DEF Owned, EnterOwned
      <3>3. k \in active' => k \in active
        BY <2>3 DEF SlotStep
      <3> QED
        BY <1>2, <1>3, <2>3, <3>2, <3>3 DEF TakenBack, IsActive
    <2> QED
      BY <2>2, <2>3
  <1>7. Issued'
    BY DEF OwnedAt, SlotStep, Owned, Issued
  <1>8. AddOwned'
    <2>1. SUFFICES ASSUME NEW task \in Waiting', NEW k \in Key, task.type = "ADD_SESSION", task.key = k
                   PROVE  k[2] <= conn'[k[1]] /\ NotAdded(k)'
      BY DEF AddOwned
    <2>2. CASE k[1] = s
      BY <2>1, <2>2 DEF OwnedAt
    <2>3. CASE k[1] # s
      <3>1. k[2] <= conn[k[1]] /\ NotAdded(k)
        BY <2>1, SlotWaiting DEF Owned, AddOwned
      <3>2. conn' = conn
        BY DEF SlotStep
      <3> QED
        BY <1>2, <2>3, <3>1, <3>2 DEF NotAdded
    <2> QED
      BY <2>2, <2>3
  <1>9. ASSUME NEW q \in Slots, q # s, Replaced(q) PROVE Replaced(q)'
    <2>1. sess'[q] = sess[q] /\ entry'[q] = entry[q] /\ claim' = claim /\ lobbyTasks' = lobbyTasks
      BY <1>9 DEF SlotStep
    <2>2. Occupant(q)' = Occupant(q)
      BY <2>1 DEF Occupant
    <2> QED
      BY <1>9, <2>1, <2>2 DEF Replaced, Fresh
  <1>10. FinalizeOwned'
    <2>1. SUFFICES ASSUME NEW u \in LobbyThreads, NEW k \in Key, ltask'[u].key = k, lpc'[u] \in {"finalize", "free"}
                   PROVE  /\ lpc'[u] = "finalize" => Closing(k)' \/ Replaced(k[1])'
                          /\ lpc'[u] = "free" => Closed(k)' \/ Replaced(k[1])'
      BY DEF FinalizeOwned
    <2>2. CASE k[1] = s
      <3>1. /\ lpc'[u] = "finalize" => Closing(k)' \/ Replaced(s)'
            /\ lpc'[u] = "free" => Closed(k)' \/ Replaced(s)'
        BY <2>1, <2>2 DEF OwnedAt
      <3> QED
        BY <2>2, <3>1
    <2>3. CASE k[1] # s
      <3>1. lpc'[u] = lpc[u] /\ ltask[u].key = k
        BY <2>1, <2>3 DEF SlotStep
      <3>2. Replaced(k[1]) => Replaced(k[1])'
        BY <1>1, <1>9, <2>3
      <3>3. (Closing(k) => Closing(k)') /\ (Closed(k) => Closed(k)')
        BY <1>2, <2>3 DEF Closing, Closed
      <3> QED
        BY <3>1, <3>2, <3>3 DEF Owned, FinalizeOwned
    <2> QED
      BY <2>2, <2>3
  <1> QED
    BY <1>4, <1>5, <1>6, <1>7, <1>8, <1>10, SlotWaiting DEF Owned

\* What is at hand when thread t works on slot s: the keys of this slot, and the other threads.
LEMMA AtSlot ==
  ASSUME Typed, HoldOK, Owned, NEW t \in LobbyThreads, NEW s \in Slots, SlotStep(t, s)
  PROVE  /\ OwnedAt(s)
         /\ \A k \in Key : k[1] = s => /\ EntryMatches(k) <=> entry[s].state # "EMPTY" /\ entry[s].id = k[2]
                                       /\ EntryMatches(k)' <=> entry'[s].state # "EMPTY" /\ entry'[s].id = k[2]
                                       /\ Found(k) <=> sess[s].life # "NONE" /\ sess[s].id = k[2]
                                       /\ Found(k)' <=> sess'[s].life # "NONE" /\ sess'[s].id = k[2]
         /\ \A j, k \in Key : j[1] = k[1] /\ j[2] = k[2] => j = k
         /\ \A u \in LobbyThreads : u # t => lpc'[u] = lpc[u] /\ ltask'[u] = ltask[u]
         /\ \A k \in Key : Forgetting(k) /\ ~(lpc[t] = "forget" /\ ltask[t].key = k) => Forgetting(k)'
         /\ Fresh(s) /\ sess'[s].life = "ACTIVE" /\ sess'[s].mode = "LOGIN" /\ sess'[s].id = sess[s].id
               /\ entry'[s].state = "EMPTY" => Fresh(s)'
  <1>1. OwnedAt(s)
    BY OwnedSlots
  <1>2. \A k \in Key : k[1] = s => /\ EntryMatches(k) <=> entry[s].state # "EMPTY" /\ entry[s].id = k[2]
                                   /\ EntryMatches(k)' <=> entry'[s].state # "EMPTY" /\ entry'[s].id = k[2]
                                   /\ Found(k) <=> sess[s].life # "NONE" /\ sess[s].id = k[2]
                                   /\ Found(k)' <=> sess'[s].life # "NONE" /\ sess'[s].id = k[2]
    BY DEF EntryMatches, Found
  <1>3. \A j, k \in Key : j[1] = k[1] /\ j[2] = k[2] => j = k
    BY KeyFacts
  <1>4. \A u \in LobbyThreads : u # t => lpc'[u] = lpc[u] /\ ltask'[u] = ltask[u]
    BY DEF SlotStep
  <1>5. \A k \in Key : Forgetting(k) /\ ~(lpc[t] = "forget" /\ ltask[t].key = k) => Forgetting(k)'
    BY <1>4 DEF Forgetting
  <1>6. ASSUME Fresh(s), sess'[s].life = "ACTIVE", sess'[s].mode = "LOGIN", sess'[s].id = sess[s].id, entry'[s].state = "EMPTY"
        PROVE  Fresh(s)'
    <2>1. claim' = claim /\ lobbyTasks' = lobbyTasks
      BY DEF SlotStep
    <2>2. Occupant(s)' = Occupant(s)
      BY <1>6 DEF Occupant
    <2> QED
      BY <1>6, <2>1, <2>2 DEF Fresh
  <1> QED
    BY <1>1, <1>2, <1>3, <1>4, <1>5, <1>6

\* ADD_SESSION, when the entry is made.
LEMMA AddedOwned ==
  ASSUME Typed, Typed', HoldOK, Owned, NEW t \in LobbyThreads, NEW k \in Key, lpc[t] = "task", ltask[t].type = "ADD_SESSION",
         ltask[t].key = k, IsActive(k), entry[k[1]].state = "EMPTY",
         entry' = [entry EXCEPT ![k[1]] = [state |-> "ACTIVE", id |-> k[2]]], active' = active \cup {k}, DoneLobby(t),
         UNCHANGED <<sessVars, lobbyTasks, phaseVars>>
  PROVE  Owned'
  <1>1. PICK s \in Slots : s = k[1]
    BY KeyFacts
  <1>2. entry'[s] = [state |-> "ACTIVE", id |-> k[2]] /\ \A q \in Slots \ {s} : entry'[q] = entry[q]
    BY <1>1 DEF Typed, LobbyOK
  <1>3. SlotStep(t, s)
    BY <1>1, <1>2, DoneOthers DEF SlotStep, Typed, sessVars, phaseVars
  <1>4. sess' = sess /\ conn' = conn /\ Found(k) /\ sess[s].id = k[2] /\ sess[s].life = "ACTIVE" /\ lpc'[t] = "idle"
    BY <1>1, DoneOthers DEF Typed, sessVars, IsActive, Found
  <1>5. OwnedAt(s)'
    <2>1. OwnedAt(s)
      BY <1>3, AtSlot
    <2>2. \A task \in Waiting', j \in Key : task.type = "ADD_SESSION" /\ task.key = j => j # k
      BY <1>3, SlotWaiting DEF Owned, HasTask
    <2>3. ltask[t] \in Waiting /\ NotAdded(k)
      BY <1>1, <2>1 DEF Waiting, OwnedAt
    <2>4. \A j \in active' : j[1] = s => EntryMatches(j)' \/ Forgetting(j)'
      <3>1. \A j \in active : j[1] = s => Forgetting(j)
        BY <1>1, <2>1 DEF OwnedAt, EntryMatches
      <3>2. active \subseteq Key
        BY DEF Typed, LobbyOK
      <3> QED
        BY <1>1, <1>2, <1>3, <3>1, <3>2, AtSlot
    <2>5. \A u \in LobbyThreads, j \in Key : j[1] = s /\ lpc'[u] = "enter" /\ ltask'[u].key = j => TakenBack(j)'
      <3> SUFFICES ASSUME NEW u \in LobbyThreads, NEW j \in Key, j[1] = s, lpc'[u] = "enter", ltask'[u].key = j PROVE FALSE
        OBVIOUS
      <3>1. u # t /\ lpc[u] = "enter" /\ ltask[u].key = j
        BY <1>3, <1>4, AtSlot
      <3>2. sess[s].mode = "LOBBY"
        BY <2>1, <3>1 DEF OwnedAt, TakenBack
      <3> QED
        BY <1>1, <1>4, <2>3, <3>2 DEF NotAdded
    <2>6. \A task \in Waiting', j \in Key : j[1] = s /\ task.type = "ADD_SESSION" /\ task.key = j => j[2] <= conn'[s] /\ NotAdded(j)'
      <3> SUFFICES ASSUME NEW task \in Waiting', NEW j \in Key, j[1] = s, task.type = "ADD_SESSION", task.key = j
                   PROVE  j[2] <= conn'[s] /\ NotAdded(j)'
        OBVIOUS
      <3>1. j[2] <= conn[s] /\ j # k
        BY <1>3, <2>1, <2>2, SlotWaiting DEF OwnedAt
      <3>2. ~Found(j)'
        BY <1>1, <1>3, <1>4, <3>1, AtSlot
      <3> QED
        BY <1>4, <3>1, <3>2 DEF NotAdded
    <2>7. \A u \in LobbyThreads, j \in Key : j[1] = s /\ ltask'[u].key = j => lpc'[u] \notin {"finalize", "free"}
      <3> SUFFICES ASSUME NEW u \in LobbyThreads, NEW j \in Key, j[1] = s, lpc'[u] \in {"finalize", "free"}, ltask'[u].key = j PROVE FALSE
        OBVIOUS
      <3>1. u # t /\ lpc[u] \in {"finalize", "free"} /\ ltask[u].key = j
        BY <1>3, <1>4, AtSlot
      <3>2. Fresh(s)
        BY <1>4, <2>1, <3>1 DEF OwnedAt, Replaced, Closing, Closed
      <3>3. PICK n \in DOMAIN lobbyTasks : lobbyTasks[n] = LTask("ADD_SESSION", Occupant(s))
        BY <3>2 DEF Fresh
      <3>4. Occupant(s) = k
        BY <1>1, <1>4, KeyFacts DEF Occupant
      <3>5. lobbyTasks[n] \in TasksOf(lobbyTasks) /\ lobbyTasks[n].type = "ADD_SESSION" /\ lobbyTasks[n].key = k
        BY <3>3, <3>4, TaskTypes DEF TasksOf, LobbyTaskType
      <3> QED
        BY <3>5 DEF Owned, Once, HasTask
    <2> QED
      BY <1>2, <1>4, <2>1, <2>4, <2>5, <2>6, <2>7 DEF OwnedAt
  <1> QED
    BY <1>3, <1>5, OtherSlots

\* A step that does not move the session and, at most, clears its entry or activates it.
SessionStays(s) ==
  /\ sess'[s].life = sess[s].life /\ sess'[s].mode = sess[s].mode /\ sess'[s].id = sess[s].id
  /\ entry'[s].state # "EMPTY" => entry[s].state # "EMPTY" /\ entry'[s].id = entry[s].id

LEMMA StayingSession ==
  ASSUME Typed, Typed', HoldOK, Owned, NEW t \in LobbyThreads, NEW s \in Slots, SlotStep(t, s), SessionStays(s),
         \A k \in active' : k[1] = s => EntryMatches(k)' \/ Forgetting(k)',
         \A u \in LobbyThreads, k \in Key :
            u # t /\ k[1] = s /\ lpc[u] = "enter" /\ ltask[u].key = k /\ k \in active' => k \in active /\ Forgetting(k)',
         \A k \in Key : k[1] = s /\ ltask'[t].key = k =>
            /\ lpc'[t] # "enter"
            /\ lpc'[t] = "finalize" => Closing(k)' \/ Replaced(s)'
            /\ lpc'[t] = "free" => Closed(k)' \/ Replaced(s)'
  PROVE  Owned'
  <1>1. OwnedAt(s)
    BY AtSlot
  <1>2. \A u \in LobbyThreads, k \in Key : k[1] = s /\ lpc'[u] = "enter" /\ ltask'[u].key = k => TakenBack(k)'
    <2> SUFFICES ASSUME NEW u \in LobbyThreads, NEW k \in Key, k[1] = s, lpc'[u] = "enter", ltask'[u].key = k
                 PROVE  TakenBack(k)'
      OBVIOUS
    <2>1. u # t /\ lpc[u] = "enter" /\ ltask[u].key = k
      BY AtSlot
    <2>2. TakenBack(k)
      BY <1>1, <2>1 DEF OwnedAt
    <2>3. IsActive(k)' /\ sess'[k[1]].mode = "LOBBY"
      BY <2>2 DEF TakenBack, IsActive, Found, SessionStays
    <2> QED
      BY <2>1, <2>3 DEF TakenBack
  <1>3. \A task \in Waiting', k \in Key : k[1] = s /\ task.type = "ADD_SESSION" /\ task.key = k => k[2] <= conn'[s] /\ NotAdded(k)'
    <2> SUFFICES ASSUME NEW task \in Waiting', NEW k \in Key, k[1] = s, task.type = "ADD_SESSION", task.key = k
                 PROVE  k[2] <= conn'[s] /\ NotAdded(k)'
      OBVIOUS
    <2>1. k[2] <= conn[s] /\ NotAdded(k) /\ conn' = conn
      BY <1>1, SlotWaiting DEF OwnedAt, SlotStep
    <2>2. EntryMatches(k)' => EntryMatches(k)
      BY AtSlot DEF SessionStays
    <2>3. Found(k)' => Found(k)
      BY DEF Found, SessionStays
    <2> QED
      BY <2>1, <2>2, <2>3 DEF NotAdded, SessionStays
  <1>4. Replaced(s) => Replaced(s)'
    <2>1. Fresh(s) => Fresh(s)'
      <3>1. Fresh(s) => sess'[s].life = "ACTIVE" /\ sess'[s].mode = "LOGIN" /\ sess'[s].id = sess[s].id
                       /\ entry'[s].state = "EMPTY"
        BY DEF Fresh, SessionStays
      <3> QED
        BY <3>1, AtSlot
    <2> QED
      BY <2>1 DEF Replaced, SessionStays
  <1>5. \A k \in Key : k[1] = s => (Closing(k) => Closing(k)') /\ (Closed(k) => Closed(k)')
    BY DEF Closing, Closed, SessionStays, Found
  <1>6. \A u \in LobbyThreads, k \in Key : k[1] = s /\ ltask'[u].key = k =>
           /\ lpc'[u] = "finalize" => Closing(k)' \/ Replaced(s)'
           /\ lpc'[u] = "free" => Closed(k)' \/ Replaced(s)'
    <2> SUFFICES ASSUME NEW u \in LobbyThreads, u # t, NEW k \in Key, k[1] = s, ltask'[u].key = k
                 PROVE  /\ lpc'[u] = "finalize" => Closing(k)' \/ Replaced(s)'
                        /\ lpc'[u] = "free" => Closed(k)' \/ Replaced(s)'
      OBVIOUS
    <2>1. lpc'[u] = lpc[u] /\ ltask[u].key = k
      BY AtSlot
    <2> QED
      BY <1>1, <1>4, <1>5, <2>1 DEF OwnedAt
  <1>7. /\ entry'[s].state # "EMPTY" => sess'[s].life # "NONE" /\ sess'[s].id = entry'[s].id
        /\ sess'[s].id <= conn'[s]
    BY <1>1 DEF OwnedAt, SessionStays, SlotStep
  <1>8. OwnedAt(s)'
    BY <1>2, <1>3, <1>6, <1>7 DEF OwnedAt
  <1> QED
    BY <1>8, OtherSlots

\* The entry of k after a step that clears it.
LEMMA ClearedEntry ==
  ASSUME LobbyOK, NEW k \in Key, entry' = ClearEntry(k)
  PROVE  /\ \A q \in Slots \ {k[1]} : entry'[q] = entry[q]
         /\ EntryMatches(k) => entry'[k[1]].state = "EMPTY"
         /\ ~EntryMatches(k) => entry' = entry
         /\ entry'[k[1]].state # "EMPTY" => entry'[k[1]] = entry[k[1]]
  <1>1. k[1] \in Slots
    BY KeyFacts
  <1> QED
    BY <1>1 DEF LobbyOK, ClearEntry, EmptyEntry

LEMMA ForgotOwned ==
  ASSUME Typed, Typed', HoldOK, Owned, NEW t \in LobbyThreads, NEW k \in Key, lpc[t] = "task", ltask[t].key = k,
         EntryMatches(k), entry' = ClearEntry(k), GotoLobby(t, "forget"), UNCHANGED <<sessVars, active, lobbyTasks, phaseVars>>
  PROVE  Owned'
  <1>1. PICK s \in Slots : s = k[1]
    BY KeyFacts
  <1>2. entry'[s].state = "EMPTY" /\ \A q \in Slots \ {s} : entry'[q] = entry[q]
    BY <1>1, ClearedEntry DEF Typed
  <1>3. lpc'[t] = "forget" /\ ltask'[t] = ltask[t] /\ \A u \in LobbyThreads \ {t} : lpc'[u] = lpc[u] /\ ltask'[u] = ltask[u]
    BY DoneOthers DEF Typed
  <1>4. SlotStep(t, s) /\ SessionStays(s)
    BY <1>1, <1>2, <1>3 DEF SlotStep, SessionStays, sessVars, phaseVars
  <1>5. Forgetting(k)'
    BY <1>3 DEF Forgetting
  <1>6. \A j \in active' : j[1] = s => EntryMatches(j)' \/ Forgetting(j)'
    <2> SUFFICES ASSUME NEW j \in active, j[1] = s, j # k PROVE Forgetting(j)'
      BY <1>5
    <2>1. j \in Key
      BY DEF Typed, LobbyOK
    <2>2. ~EntryMatches(j)
      BY <1>1, <1>4, <2>1, AtSlot
    <2> QED
      BY <1>4, <2>1, <2>2, AtSlot DEF Owned, ActiveOwned
  <1>7. \A u \in LobbyThreads, j \in Key :
          u # t /\ j[1] = s /\ lpc[u] = "enter" /\ ltask[u].key = j /\ j \in active' => j \in active /\ Forgetting(j)'
    BY <1>4, AtSlot DEF Owned, EnterOwned, TakenBack
  <1> QED
    BY <1>3, <1>4, <1>6, <1>7, StayingSession

LEMMA RemovedOwned ==
  ASSUME Typed, Typed', HoldOK, Owned, NEW t \in LobbyThreads, RemoveActiveSession(t)
  PROVE  Owned'
  <1>0. PICK k \in Key : k = ltask[t].key
    BY ThreadKey DEF Typed, RemoveActiveSession
  <1>1. PICK s \in Slots : s = k[1]
    BY KeyFacts
  <1>3. lpc'[t] = "idle" /\ \A u \in LobbyThreads \ {t} : lpc'[u] = lpc[u] /\ ltask'[u] = ltask[u]
    BY DoneOthers DEF Typed, RemoveActiveSession
  <1>4. SlotStep(t, s) /\ SessionStays(s)
    BY <1>0, <1>1, <1>3 DEF SlotStep, SessionStays, sessVars, phaseVars, RemoveActiveSession
  <1>5. active' = active \ {k} /\ entry' = entry
    BY <1>0 DEF RemoveActiveSession
  <1>2. \A j \in Key : j # k /\ Forgetting(j) => Forgetting(j)'
    BY <1>0, <1>4, AtSlot
  <1>6. \A j \in active' : j[1] = s => EntryMatches(j)' \/ Forgetting(j)'
    <2> SUFFICES ASSUME NEW j \in active', j[1] = s PROVE EntryMatches(j)' \/ Forgetting(j)'
      OBVIOUS
    <2>1. j \in Key /\ j \in active /\ j # k
      BY <1>5 DEF Typed, LobbyOK
    <2>2. EntryMatches(j) => EntryMatches(j)'
      BY <1>5 DEF EntryMatches
    <2> QED
      BY <1>2, <2>1, <2>2 DEF Owned, ActiveOwned
  <1>7. \A u \in LobbyThreads, j \in Key :
          u # t /\ j[1] = s /\ lpc[u] = "enter" /\ ltask[u].key = j /\ j \in active' => j \in active /\ Forgetting(j)'
    BY <1>2, <1>5 DEF Owned, EnterOwned, TakenBack
  <1> QED
    BY <1>3, <1>4, <1>6, <1>7, StayingSession

\* ENTER_LOBBY, when the session is taken.
LEMMA EnteredOwned ==
  ASSUME Typed, Typed', HoldOK, Owned, NEW t \in LobbyThreads, NEW k \in Key, lpc[t] = "task", ltask[t].key = k,
         IsActive(k), RightFree(k), sess[k[1]].mode = "ROOM", entry[k[1]].state = "EMPTY",
         entry' = [entry EXCEPT ![k[1]] = [state |-> "PENDING", id |-> k[2]]],
         sess' = [sess EXCEPT ![k[1]] = [@ EXCEPT !.right = TRUE, !.mode = "LOBBY", !.room = NoIndex]],
         GotoLobby(t, "enter"), UNCHANGED <<conn, active, lobbyTasks, phaseVars>>
  PROVE  Owned'
  <1>1. PICK s \in Slots : s = k[1]
    BY KeyFacts
  <1>2. entry'[s] = [state |-> "PENDING", id |-> k[2]] /\ \A q \in Slots \ {s} : entry'[q] = entry[q]
    BY <1>1 DEF Typed, LobbyOK
  <1> DEFINE x == [sess[s] EXCEPT !.right = TRUE, !.mode = "LOBBY", !.room = NoIndex]
  <1>3. x.life = sess[s].life /\ x.id = sess[s].id /\ x.mode = "LOBBY" /\ sess' = [sess EXCEPT ![s] = x]
    BY <1>1 DEF Typed, SessOK, Session
  <1>4. sess[s].life = "ACTIVE" /\ sess[s].id = k[2] /\ sess[s].mode = "ROOM" /\ ~sess[s].right /\ entry[s].state = "EMPTY"
    BY <1>1 DEF IsActive, Found, RightFree
  <1> HIDE DEF x
  <1>5. sess'[s].life = "ACTIVE" /\ sess'[s].id = k[2] /\ sess'[s].mode = "LOBBY" /\ \A q \in Slots \ {s} : sess'[q] = sess[q]
    BY <1>3, <1>4, RightIn DEF Typed
  <1>6. lpc'[t] = "enter" /\ ltask'[t] = ltask[t] /\ \A u \in LobbyThreads \ {t} : lpc'[u] = lpc[u] /\ ltask'[u] = ltask[u]
    BY DoneOthers DEF Typed
  <1>7. SlotStep(t, s)
    BY <1>1, <1>2, <1>5, <1>6 DEF SlotStep, phaseVars
  <1>8. OwnedAt(s)
    BY <1>7, AtSlot
  <1>9. \A j \in Key : j[1] = s /\ j \in active => Forgetting(j)'
    BY <1>4, <1>7, <1>8, AtSlot DEF OwnedAt
  <1>10. \A j \in active' : j[1] = s => EntryMatches(j)' \/ Forgetting(j)'
    BY <1>9 DEF Typed, LobbyOK
  <1>11. \A u \in LobbyThreads, j \in Key : j[1] = s /\ lpc'[u] = "enter" /\ ltask'[u].key = j => TakenBack(j)'
    <2> SUFFICES ASSUME NEW u \in LobbyThreads, NEW j \in Key, j[1] = s, lpc'[u] = "enter", ltask'[u].key = j PROVE TakenBack(j)'
      OBVIOUS
    <2>1. u = t
      <3>1. u # t => lpc[u] = "enter" /\ ltask[u].key = j
        BY <1>7, AtSlot
      <3> QED
        BY <1>4, <3>1, FreeOfThreads DEF Working
    <2>2. j = k
      BY <1>6, <2>1
    <2>3. Found(k)'
      BY <1>1, <1>5, <1>7, AtSlot
    <2>4. k \in active' => Forgetting(k)'
      BY <1>1, <1>9
    <2> QED
      BY <1>1, <1>5, <2>2, <2>3, <2>4 DEF TakenBack, IsActive
  <1>12. \A task \in Waiting', j \in Key : j[1] = s /\ task.type = "ADD_SESSION" /\ task.key = j => j[2] <= conn'[s] /\ NotAdded(j)'
    <2> SUFFICES ASSUME NEW task \in Waiting', NEW j \in Key, j[1] = s, task.type = "ADD_SESSION", task.key = j
                 PROVE  j[2] <= conn'[s] /\ NotAdded(j)'
      OBVIOUS
    <2>1. j[2] <= conn[s] /\ NotAdded(j) /\ conn' = conn
      BY <1>7, <1>8, SlotWaiting DEF OwnedAt, SlotStep
    <2>2. ~Found(j)
      BY <1>4, <2>1 DEF NotAdded
    <2>3. ~Found(j)'
      BY <1>4, <1>5, <1>7, <2>2, AtSlot
    <2> QED
      BY <2>1, <2>3 DEF NotAdded
  <1>13. \A u \in LobbyThreads, j \in Key : j[1] = s /\ ltask'[u].key = j => lpc'[u] \notin {"finalize", "free"}
    <2> SUFFICES ASSUME NEW u \in LobbyThreads, NEW j \in Key, j[1] = s, lpc'[u] \in {"finalize", "free"}, ltask'[u].key = j PROVE FALSE
      OBVIOUS
    <2>1. u # t /\ lpc[u] \in {"finalize", "free"} /\ ltask[u].key = j
      BY <1>6, <1>7, AtSlot
    <2> QED
      BY <1>4, <1>8, <2>1 DEF OwnedAt, Replaced, Fresh, Closing, Closed
  <1>14. sess'[s].id <= conn'[s]
    BY <1>4, <1>5, <1>8 DEF OwnedAt
  <1>15. OwnedAt(s)'
    BY <1>2, <1>5, <1>10, <1>11, <1>12, <1>13, <1>14 DEF OwnedAt
  <1> QED
    BY <1>7, <1>15, OtherSlots

\* The step of a thread that only sets the right of the session.
LEMMA RightStays ==
  ASSUME Typed, NEW s \in Slots, NEW b \in BOOLEAN, sess' = [sess EXCEPT ![s].right = b],
         entry'[s].state # "EMPTY" => entry[s].state # "EMPTY" /\ entry'[s].id = entry[s].id
  PROVE  SessionStays(s) /\ \A q \in Slots \ {s} : sess'[q] = sess[q]
  <1> DEFINE x == [sess[s] EXCEPT !.right = b]
  <1>1. x.life = sess[s].life /\ x.mode = sess[s].mode /\ x.id = sess[s].id /\ sess' = [sess EXCEPT ![s] = x]
    BY DEF Typed, SessOK, Session
  <1> HIDE DEF x
  <1> QED
    BY <1>1, RightIn DEF SessionStays, Typed

LEMMA ActivatedOwned ==
  ASSUME Typed, Typed', HoldOK, Owned, NEW t \in LobbyThreads, ActivateEntry(t)
  PROVE  Owned'
  <1>0. PICK k \in Key : k = ltask[t].key
    BY ThreadKey DEF Typed, ActivateEntry
  <1>1. PICK s \in Slots : s = k[1]
    BY KeyFacts
  <1>2. lpc[t] = "enter" /\ sess' = [sess EXCEPT ![s].right = FALSE] /\ UNCHANGED <<conn, lobbyTasks, claim>>
    BY <1>0, <1>1 DEF ActivateEntry, phaseVars
  <1>3. lpc'[t] = "idle" /\ \A u \in LobbyThreads \ {t} : lpc'[u] = lpc[u] /\ ltask'[u] = ltask[u]
    BY DoneOthers DEF Typed, ActivateEntry
  <1>4. /\ \A q \in Slots \ {s} : entry'[q] = entry[q]
        /\ entry'[s].state # "EMPTY" => entry[s].state # "EMPTY" /\ entry'[s].id = entry[s].id
        /\ \/ EntryMatches(k) /\ active' = active \cup {k} /\ entry'[s].id = entry[s].id /\ entry'[s].state = "ACTIVE"
           \/ active' = active /\ EntryMatches(k) /\ k \in active /\ entry'[s].state = "EMPTY"
           \/ active' = active /\ entry' = entry
    <2>1. CASE EntryMatches(k) /\ entry' = [entry EXCEPT ![s].state = "ACTIVE"] /\ active' = active \cup {k}
      BY <1>0, <1>1, <2>1 DEF Typed, LobbyOK, EntryMatches
    <2>2. CASE EntryMatches(k) /\ k \in active /\ entry' = ClearEntry(k) /\ UNCHANGED active
      BY <1>0, <1>1, <2>2, ClearedEntry DEF Typed
    <2>3. CASE UNCHANGED <<entry, active>>
      BY <2>3
    <2> QED
      BY <1>0, <1>1, <2>1, <2>2, <2>3 DEF ActivateEntry
  <1>5. SessionStays(s) /\ \A q \in Slots \ {s} : sess'[q] = sess[q]
    BY <1>2, <1>4, RightStays
  <1>6. SlotStep(t, s)
    BY <1>0, <1>1, <1>2, <1>3, <1>4, <1>5 DEF SlotStep
  <1>7. TakenBack(k)
    BY <1>0, <1>2 DEF Owned, EnterOwned
  <1>8. \A j \in Key : Forgetting(j) => Forgetting(j)'
    BY <1>2, <1>6, AtSlot
  <1>9. \A j \in active' : j[1] = s => EntryMatches(j)' \/ Forgetting(j)'
    <2> SUFFICES ASSUME NEW j \in active', j[1] = s, ~Forgetting(j) PROVE EntryMatches(j)'
      BY <1>8 DEF Typed, LobbyOK
    <2>1. j \in Key
      BY DEF Typed, LobbyOK
    <2>2. j \in active => EntryMatches(j)
      BY DEF Owned, ActiveOwned
    <2>3. EntryMatches(j) \/ j = k
      BY <1>4, <2>2
    <2>4. EntryMatches(j) /\ EntryMatches(k) => j = k
      BY <1>1, <1>6, <2>1, AtSlot
    <2>5. k \in active => Forgetting(k)
      BY <1>7 DEF TakenBack
    <2> QED
      BY <1>1, <1>4, <1>6, <2>1, <2>2, <2>3, <2>4, <2>5, AtSlot
  <1>10. \A u \in LobbyThreads, j \in Key : u # t /\ j[1] = s /\ lpc[u] = "enter" => ltask[u].key # j
    BY <1>0, <1>1, <1>2, FreeOfThreads DEF Working
  <1> QED
    BY <1>3, <1>5, <1>6, <1>9, <1>10, StayingSession

LEMMA BegunOwned ==
  ASSUME Typed, Typed', HoldOK, Owned, NEW t \in LobbyThreads, NEW k \in Key, lpc[t] = "task", ltask[t].key = k, Closing(k),
         sess' = [sess EXCEPT ![k[1]].right = TRUE], GotoLobby(t, "finalize"), UNCHANGED <<conn, lobbyVars, lobbyTasks, phaseVars>>
  PROVE  Owned'
  <1>1. PICK s \in Slots : s = k[1]
    BY KeyFacts
  <1>2. SessionStays(s) /\ (\A q \in Slots \ {s} : sess'[q] = sess[q]) /\ entry' = entry /\ active' = active
    BY <1>1, RightStays DEF lobbyVars
  <1>3. lpc'[t] = "finalize" /\ ltask'[t] = ltask[t] /\ \A u \in LobbyThreads \ {t} : lpc'[u] = lpc[u] /\ ltask'[u] = ltask[u]
    BY DoneOthers DEF Typed
  <1>4. SlotStep(t, s)
    BY <1>1, <1>2, <1>3 DEF SlotStep, phaseVars
  <1>5. \A j \in Key : Forgetting(j) => Forgetting(j)'
    BY <1>4, AtSlot
  <1>6. \A j \in active' : j[1] = s => EntryMatches(j)' \/ Forgetting(j)'
    BY <1>2, <1>5 DEF Owned, ActiveOwned, EntryMatches, Typed, LobbyOK
  <1>7. \A u \in LobbyThreads, j \in Key :
          u # t /\ j[1] = s /\ lpc[u] = "enter" /\ ltask[u].key = j /\ j \in active' => j \in active /\ Forgetting(j)'
    BY <1>2, <1>5 DEF Owned, EnterOwned, TakenBack
  <1>8. Closing(k)'
    BY <1>1, <1>2 DEF Closing, SessionStays, Found
  <1>9. ltask'[t].key = k
    BY <1>3
  <1> QED
    BY <1>2, <1>3, <1>4, <1>6, <1>7, <1>8, <1>9, StayingSession

LEMMA OutsideRoomOwned ==
  ASSUME Typed, Typed', HoldOK, Owned, NEW t \in LobbyThreads, FinalizeOutsideRoom(t)
  PROVE  Owned'
  <1>0. PICK k0 \in Key : k0 = ltask[t].key
    BY ThreadKey DEF Typed, FinalizeOutsideRoom
  <1>1. PICK s \in Slots : s = k0[1]
    BY KeyFacts
  <1>2. PICK k \in Key : k = Occupant(s) /\ k[1] = s /\ k[2] = sess[s].id
    BY OccupantKey DEF Typed
  <1>3. /\ lpc[t] = "finalize" /\ sess[s].mode # "ROOM" /\ entry' = ClearEntry(k)
        /\ active' = IF EntryMatches(k) THEN active \ {k} ELSE active
        /\ sess' = [sess EXCEPT ![s].right = FALSE] /\ UNCHANGED <<conn, lobbyTasks, claim>>
        /\ lpc' = [lpc EXCEPT ![t] = "free"] /\ ltask' = [ltask EXCEPT ![t].key = k]
    BY <1>0, <1>1, <1>2 DEF FinalizeOutsideRoom, phaseVars
  <1>4. lpc'[t] = "free" /\ ltask'[t].key = k /\ \A u \in LobbyThreads \ {t} : lpc'[u] = lpc[u] /\ ltask'[u] = ltask[u]
    <2>1. ltask[t] \in LobbyTask
      BY <1>3 DEF Typed, ThreadOK
    <2> QED
      BY <1>3, <2>1 DEF Typed, ThreadOK, LobbyTask
  <1>5. /\ \A q \in Slots \ {s} : entry'[q] = entry[q]
        /\ EntryMatches(k) => entry'[s].state = "EMPTY"
        /\ ~EntryMatches(k) => entry' = entry
        /\ entry'[s].state # "EMPTY" => entry[s].state # "EMPTY" /\ entry'[s].id = entry[s].id
    BY <1>2, <1>3, ClearedEntry DEF Typed
  <1>6. SessionStays(s) /\ \A q \in Slots \ {s} : sess'[q] = sess[q]
    BY <1>3, <1>5, RightStays
  <1>7. SlotStep(t, s)
    BY <1>0, <1>1, <1>2, <1>3, <1>4, <1>5, <1>6 DEF SlotStep
  <1>8. OwnedAt(s)
    BY <1>7, AtSlot
  <1>9. \A j \in Key : Forgetting(j) => Forgetting(j)'
    BY <1>3, <1>7, AtSlot
  <1>10. \A j \in active' : j[1] = s => EntryMatches(j)' \/ Forgetting(j)'
    <2> SUFFICES ASSUME NEW j \in active', j[1] = s, ~Forgetting(j) PROVE EntryMatches(j)'
      BY <1>9 DEF Typed, LobbyOK
    <2>1. j \in Key /\ j \in active /\ (EntryMatches(k) => j # k)
      BY <1>3 DEF Typed, LobbyOK
    <2>2. EntryMatches(j)
      BY <2>1 DEF Owned, ActiveOwned
    <2>3. ~EntryMatches(k)
      BY <1>2, <1>7, <2>1, <2>2, AtSlot
    <2> QED
      BY <1>5, <2>2, <2>3 DEF EntryMatches
  <1>11. \A u \in LobbyThreads, j \in Key :
          u # t /\ j[1] = s /\ lpc[u] = "enter" /\ ltask[u].key = j /\ j \in active' => j \in active /\ Forgetting(j)'
    BY <1>3, <1>9 DEF Owned, EnterOwned, TakenBack
  <1>12. entry'[s].state = "EMPTY"
    <2>1. CASE entry[s].state = "EMPTY"
      BY <1>5, <2>1
    <2>2. CASE entry[s].state # "EMPTY"
      <3>1. EntryMatches(k)
        BY <1>2, <1>7, <1>8, <2>2, AtSlot DEF OwnedAt
      <3> QED
        BY <1>5, <3>1
    <2> QED
      BY <2>1, <2>2
  <1>13. Closed(k)' \/ Replaced(s)'
    <2>1. Closing(k0) \/ Replaced(s)
      BY <1>0, <1>1, <1>3 DEF Owned, FinalizeOwned
    <2>2. CASE Closing(k0)
      <3>1. sess[s].life = "DISCONNECTING"
        BY <1>1, <2>2 DEF Closing
      <3> QED
        BY <1>2, <1>3, <1>6, <1>12, <3>1 DEF Closed, Closing, Found, SessionStays
    <2>3. CASE sess[s].life = "NONE"
      BY <1>6, <2>3 DEF Replaced, SessionStays
    <2>4. CASE Fresh(s)
      <3>1. sess'[s].life = "ACTIVE" /\ sess'[s].mode = "LOGIN" /\ sess'[s].id = sess[s].id
        BY <1>6, <2>4 DEF Fresh, SessionStays
      <3>2. Fresh(s)'
        BY <1>7, <1>12, <2>4, <3>1, AtSlot
      <3> QED
        BY <3>2 DEF Replaced
    <2> QED
      BY <2>1, <2>2, <2>3, <2>4 DEF Replaced
  <1> QED
    BY <1>4, <1>6, <1>7, <1>10, <1>11, <1>13, StayingSession

LEMMA FreedOwned ==
  ASSUME Typed, Typed', HoldOK, Owned, NEW t \in LobbyThreads, NEW k \in Key, lpc[t] = "free", ltask[t].key = k,
         sess[k[1]].life = "DISCONNECTING", sess[k[1]].id = k[2],
         sess' = [sess EXCEPT ![k[1]] = [EmptySession EXCEPT !.right = sess[k[1]].right]],
         DoneLobby(t), UNCHANGED <<conn, lobbyVars, lobbyTasks, phaseVars>>
  PROVE  Owned'
  <1>1. PICK s \in Slots : s = k[1]
    BY KeyFacts
  <1> DEFINE x == [EmptySession EXCEPT !.right = sess[s].right]
  <1>2. x.life = "NONE" /\ x.id = 0 /\ sess' = [sess EXCEPT ![s] = x]
    BY <1>1 DEF EmptySession
  <1> HIDE DEF x
  <1>3. sess'[s].life = "NONE" /\ sess'[s].id = 0 /\ \A q \in Slots \ {s} : sess'[q] = sess[q]
    BY <1>2, RightIn DEF Typed
  <1>4. lpc'[t] = "idle" /\ \A u \in LobbyThreads \ {t} : lpc'[u] = lpc[u] /\ ltask'[u] = ltask[u]
    BY DoneOthers DEF Typed
  <1>5. SlotStep(t, s) /\ entry' = entry /\ active' = active
    BY <1>1, <1>3, <1>4 DEF SlotStep, lobbyVars, phaseVars
  <1>6. OwnedAt(s)
    BY <1>5, AtSlot
  <1>7. entry[s].state = "EMPTY"
    BY <1>1, <1>6 DEF OwnedAt, Closed, Replaced, Fresh
  <1>8. \A j \in active' : j[1] = s => EntryMatches(j)' \/ Forgetting(j)'
    BY <1>5, <1>6, AtSlot DEF OwnedAt, EntryMatches, Typed, LobbyOK
  <1>9. \A u \in LobbyThreads, j \in Key : j[1] = s /\ ltask'[u].key = j => lpc'[u] # "enter"
    <2> SUFFICES ASSUME NEW u \in LobbyThreads, NEW j \in Key, j[1] = s, ltask'[u].key = j, lpc'[u] = "enter" PROVE FALSE
      OBVIOUS
    <2>1. lpc[u] = "enter" /\ ltask[u].key = j
      BY <1>4, <1>5, AtSlot
    <2> QED
      BY <1>1, <1>6, <2>1 DEF OwnedAt, TakenBack, IsActive
  <1>10. \A task \in Waiting', j \in Key : j[1] = s /\ task.type = "ADD_SESSION" /\ task.key = j => j[2] <= conn'[s] /\ NotAdded(j)'
    <2> SUFFICES ASSUME NEW task \in Waiting', NEW j \in Key, j[1] = s, task.type = "ADD_SESSION", task.key = j
                 PROVE  j[2] <= conn'[s] /\ NotAdded(j)'
      OBVIOUS
    <2>1. j[2] <= conn[s] /\ conn' = conn
      BY <1>5, <1>6, SlotWaiting DEF OwnedAt, SlotStep
    <2>2. ~Found(j)'
      BY <1>3 DEF Found
    <2> QED
      BY <2>1, <2>2 DEF NotAdded
  <1>11. Replaced(s)'
    BY <1>3 DEF Replaced
  <1>12. sess'[s].id <= conn'[s]
    BY <1>3, KeyFacts DEF Typed, Typed, SessOK, lobbyVars, Ids
  <1>13. OwnedAt(s)'
    BY <1>5, <1>7, <1>8, <1>9, <1>10, <1>11, <1>12 DEF OwnedAt
  <1> QED
    BY <1>5, <1>13, OtherSlots

\* A thread ends a task without touching an entry, or does not get the right for it.
LEMMA EndedOwned ==
  ASSUME Typed, Owned, NEW t \in LobbyThreads, lpc[t] # "forget", DoneLobby(t), SessionsKept, EntriesKept, NothingNew,
         UNCHANGED <<conn, active, claim>>
  PROVE  Owned'
  <1>1. ThreadsKept
    BY DoneOthers DEF Typed, ThreadsKept, ThreadKept
  <1> QED
    BY <1>1, OutsideStep DEF NothingNew

\* A thread that finalizes a session has a DISCONNECT task.
Sorted == \A t \in LobbyThreads : lpc[t] = "finalize" => ltask[t].type = "DISCONNECT"

LEMMA SortedNext ==
  ASSUME Typed, Sorted, [Next]_vars
  PROVE  Sorted'
  <1>1. ASSUME UNCHANGED threadVars PROVE Sorted'
    BY <1>1 DEF Sorted, threadVars
  <1>2. ASSUME NEW t \in LobbyThreads, DoneLobby(t) PROVE Sorted'
    BY <1>2 DEF Sorted, DoneLobby, Typed, ThreadOK
  <1>12. ASSUME NEW t \in LobbyThreads, NEW p, GotoLobby(t, p), p = "finalize" => ltask[t].type = "DISCONNECT"
         PROVE  Sorted'
    BY <1>12 DEF Sorted, GotoLobby, Typed, ThreadOK
  <1>3. ASSUME NEW t \in LobbyThreads, LobbyTaskStep(t) PROVE Sorted'
    <2>1. CASE DequeueLobbyTask(t)
      BY <2>1 DEF DequeueLobbyTask, Sorted, Typed, ThreadOK
    <2>2. CASE AddSession(t) \/ RemoveActiveSession(t) \/ ReturnToLobby(t) \/ ActivateEntry(t) \/ FinalizeInRoom(t)
               \/ FreeSlot(t)
      BY <1>2, <2>2 DEF AddSession, RemoveActiveSession, ReturnToLobby, ActivateEntry, FinalizeInRoom, FreeSlot
    <2>4. CASE ForgetSession(t)
      <3>1. DoneLobby(t) \/ GotoLobby(t, "forget")
        BY <2>4 DEF ForgetSession
      <3> QED
        BY <1>2, <1>12, <3>1
    <2>5. CASE EnterLobby(t)
      <3>1. DoneLobby(t) \/ GotoLobby(t, "enter")
        BY <2>5 DEF EnterLobby
      <3> QED
        BY <1>2, <1>12, <3>1
    <2>6. CASE BeginFinalize(t)
      <3>1. DoneLobby(t) \/ (GotoLobby(t, "finalize") /\ ltask[t].type = "DISCONNECT")
        BY <2>6 DEF BeginFinalize
      <3> QED
        BY <1>2, <1>12, <3>1
    <2>3. CASE FinalizeOutsideRoom(t)
      BY <2>3 DEF FinalizeOutsideRoom, Sorted, Typed, ThreadOK
    <2> QED
      BY <1>3, <2>1, <2>2, <2>3, <2>4, <2>5, <2>6 DEF LobbyTaskStep
  <1>4. ASSUME NEW t \in LobbyThreads, EndVisit(t) \/ \E s \in Slots : VisitSession(t, s) PROVE Sorted'
    BY <1>2, <1>4 DEF EndVisit, VisitSession, Sorted, Typed, ThreadOK
  <1>5. CASE UNCHANGED vars
    BY <1>1, <1>5 DEF vars
  <1>6. ASSUME NEW s \in Slots, AcquireSession(s) \/ CompleteSessionIO(s) PROVE Sorted'
    BY <1>1, <1>6 DEF AcquireSession, CompleteSessionIO
  <1>7. CASE StartLobbyPhase \/ EndLobbyTasks
    BY <1>1, <1>7 DEF StartLobbyPhase, EndLobbyTasks
  <1>8. ASSUME NEW t \in LobbyThreads, LobbyRequest(t) PROVE Sorted'
    BY <1>1, <1>8 DEF LobbyRequest, Login, RequestCreate, RequestJoin, DisconnectInLobby
  <1>9. ASSUME NEW g \in GameThreads, CreateStep(g) PROVE Sorted'
    BY <1>1, <1>9 DEF CreateStep, DeleteRoom, BeginCreate, RefuseCreate, AnswerCreate, CompleteRoomInitialization, CreateRoom
  <1>10. ASSUME NEW r \in RoomKeys, ProcessRoomTask(r) PROVE Sorted'
    BY <1>1, <1>10 DEF ProcessRoomTask, ProcessJoin, ProcessRemove, ProcessKick, ProcessStart, ProcessGiveUp
  <1>11. ASSUME NEW r \in RoomKeys,
               \/ BeginTick(r) \/ ClaimTasks(r) \/ KeepPending(r) \/ EndRoomTasks(r) \/ VisitSeat(r) \/ EndSeatVisit(r)
               \/ PlayTick(r) \/ RoomRequest(r)
        PROVE  Sorted'
    BY <1>1, <1>11 DEF BeginTick, ClaimTasks, KeepPending, EndRoomTasks, VisitSeat, EndSeatVisit, PlayTick, RoomRequest,
                       LeaveRoom, DisconnectInRoom, RequestRoomTask
  <1> QED
    BY <1>3, <1>4, <1>5, <1>6, <1>7, <1>8, <1>9, <1>10, <1>11 DEF Next, RoomTaskStep

\* A session whose right is released may leave its room at the same time.
LEMMA ReleasedKept ==
  ASSUME SessOK, NEW k \in Key, sess' = AfterRoomDisconnect([sess EXCEPT ![k[1]].right = FALSE], k)
  PROVE  SessionsKept
  <1> DEFINE s == k[1]
             R == [sess EXCEPT ![s].right = FALSE]
             y == [sess[s] EXCEPT !.right = FALSE]
             x == [y EXCEPT !.mode = "NONE", !.room = NoIndex]
  <1>1. s \in Slots /\ sess[s] \in Session
    BY KeyFacts DEF SessOK
  <1>2. R = [sess EXCEPT ![s] = y] /\ R[s] = y
    BY <1>1 DEF SessOK
  <1>3. y.id = sess[s].id /\ y.life = sess[s].life /\ y.mode = sess[s].mode
        /\ x.id = sess[s].id /\ x.life = sess[s].life /\ x.mode = "NONE"
    BY <1>1 DEF Session
  <1>4. CASE LeavesRoom(k)
    <2>1. sess' = [R EXCEPT ![s] = [R[s] EXCEPT !.mode = "NONE", !.room = NoIndex]]
      BY <1>4 DEF AfterRoomDisconnect
    <2>2. sess' = [sess EXCEPT ![s] = x]
      BY <1>1, <1>2, <2>1
    <2>3. sess[s].life \in {"DISCONNECT_PENDING", "DISCONNECTING"}
      BY <1>4 DEF LeavesRoom, Disconnecting
    <2> HIDE DEF x, y, R
    <2> QED
      BY <1>1, <1>3, <2>2, <2>3, SessionSet DEF SessionKept
  <1>5. CASE ~LeavesRoom(k)
    BY <1>1, <1>5, SessionsSame DEF AfterRoomDisconnect
  <1> QED
    BY <1>4, <1>5

LEMMA EntriesSame ==
  /\ UNCHANGED entry => EntriesKept
  /\ \A s \in Slots, st \in {"ACTIVE", "PENDING"} :
       LobbyOK /\ entry[s].state # "EMPTY" /\ entry' = [entry EXCEPT ![s].state = st] => EntriesKept
  BY DEF EntriesKept, LobbyOK

\* The task that a thread puts back.
LEMMA PutBack ==
  ASSUME Typed, NEW t \in LobbyThreads, lpc[t] # "idle", ltask[t].type # "ADD_SESSION", lobbyTasks' = Requeued(ltask[t])
  PROVE  NothingNew
  BY ThreadKey, NothingPosted DEF Typed, Requeued

LEMMA QueueOwned ==
  ASSUME Typed, Typed', HoldOK, Owned, NEW t \in LobbyThreads, AddSession(t) \/ ForgetSession(t) \/ ReturnToLobby(t)
  PROVE  Owned'
  <1>1. lpc[t] = "task"
    BY DEF AddSession, ForgetSession, ReturnToLobby
  <1>2. PICK k \in Key : k = ltask[t].key /\ k[1] \in Slots /\ ltask[t] \in LobbyTask
    BY <1>1, ThreadKey DEF Typed
  <1>3. UNCHANGED <<sess, conn, claim>> /\ SessionsKept
    <2>1. UNCHANGED <<sess, conn, claim>>
      BY DEF AddSession, ForgetSession, ReturnToLobby, sessVars, phaseVars
    <2> QED
      BY <2>1, SessionsSame
  <1>4. ASSUME AddSession(t) PROVE Owned'
    <2>1. CASE UNCHANGED lobbyVars
      BY <1>1, <1>3, <1>4, <2>1, EntriesSame, NothingPosted, EndedOwned DEF AddSession, Typed, lobbyVars
    <2>2. CASE IsActive(k) /\ entry[k[1]].state = "EMPTY" /\ active' = active \cup {k}
               /\ entry' = [entry EXCEPT ![k[1]] = [state |-> "ACTIVE", id |-> k[2]]]
      BY <1>1, <1>2, <1>4, <2>2, AddedOwned DEF AddSession
    <2> QED
      BY <1>2, <1>4, <2>1, <2>2 DEF AddSession
  <1>5. ASSUME ForgetSession(t) PROVE Owned'
    <2>1. CASE EntryMatches(k)
      BY <1>1, <1>2, <1>5, <2>1, ForgotOwned DEF ForgetSession
    <2>2. CASE ~EntryMatches(k)
      <3>1. entry' = entry /\ DoneLobby(t) /\ UNCHANGED <<active, lobbyTasks>>
        BY <1>2, <1>5, <2>2 DEF ForgetSession, ClearEntry
      <3> QED
        BY <1>1, <1>3, <3>1, EntriesSame, NothingPosted, EndedOwned DEF Typed
    <2> QED
      BY <2>1, <2>2
  <1>6. ASSUME ReturnToLobby(t) PROVE Owned'
    <2>1. EntriesKept
      BY <1>2, <1>6, EntriesSame DEF ReturnToLobby, Typed
    <2>2. NothingNew
      <3>1. CASE UNCHANGED lobbyTasks
        BY <3>1, NothingPosted DEF Typed
      <3>2. ASSUME NEW r \in RoomKeys, JoinTask(r, k, TRUE) PROVE NothingNew
        <4>1. TransitionResult(k, FALSE, TRUE) \in LobbyTask /\ TransitionResult(k, FALSE, TRUE).type # "ADD_SESSION"
          BY TaskTypes
        <4> QED
          BY <3>1, <3>2, <4>1, NothingPosted DEF JoinTask, JoinRefused, Typed
      <3> QED
        BY <1>2, <1>6, <3>1, <3>2 DEF ReturnToLobby
    <2> QED
      BY <1>1, <1>3, <1>6, <2>1, <2>2, EndedOwned DEF ReturnToLobby
  <1> QED
    BY <1>4, <1>5, <1>6

LEMMA EnterOwnedStep ==
  ASSUME Typed, Typed', HoldOK, Owned, NEW t \in LobbyThreads, EnterLobby(t)
  PROVE  Owned'
  <1>1. lpc[t] = "task" /\ ltask[t].type = "ENTER_LOBBY" /\ UNCHANGED <<conn, active, phaseVars>>
    BY DEF EnterLobby
  <1>2. PICK k \in Key : k = ltask[t].key /\ k[1] \in Slots
    BY <1>1, ThreadKey DEF Typed
  <1>3. CASE DoneLobby(t) /\ UNCHANGED <<sess, entry>> /\ (UNCHANGED lobbyTasks \/ lobbyTasks' = Requeued(ltask[t]))
    <2>1. NothingNew
      BY <1>1, <1>3, NothingPosted, PutBack DEF Typed
    <2> QED
      BY <1>1, <1>3, <2>1, SessionsSame, EntriesSame, EndedOwned DEF phaseVars
  <1>4. CASE /\ IsActive(k) /\ RightFree(k) /\ InRoom(k, ltask[t].room) /\ entry[k[1]].state = "EMPTY"
             /\ entry' = [entry EXCEPT ![k[1]] = [state |-> "PENDING", id |-> k[2]]]
             /\ sess' = [sess EXCEPT ![k[1]] = [@ EXCEPT !.right = TRUE, !.mode = "LOBBY", !.room = NoIndex]]
             /\ GotoLobby(t, "enter") /\ UNCHANGED lobbyTasks
    BY <1>1, <1>2, <1>4, EnteredOwned DEF InRoom
  <1> QED
    BY <1>2, <1>3, <1>4 DEF EnterLobby

LEMMA FinalizeOwnedStep ==
  ASSUME Typed, Typed', HoldOK, Sorted, Owned, NEW t \in LobbyThreads,
         BeginFinalize(t) \/ FinalizeInRoom(t) \/ FreeSlot(t)
  PROVE  Owned'
  <1>1. lpc[t] \notin {"idle", "forget"} /\ UNCHANGED <<conn, entry, active, claim>> /\ UNCHANGED <<lobbyVars, phaseVars>>
    BY DEF BeginFinalize, FinalizeInRoom, FreeSlot, lobbyVars, phaseVars
  <1>2. PICK k \in Key : k = ltask[t].key /\ k[1] \in Slots
    BY <1>1, ThreadKey DEF Typed
  <1>3. ASSUME BeginFinalize(t) PROVE Owned'
    <2>1. CASE DoneLobby(t) /\ UNCHANGED sess /\ (UNCHANGED lobbyTasks \/ lobbyTasks' = Requeued(ltask[t]))
      <3>1. NothingNew
        BY <1>1, <1>3, <2>1, NothingPosted, PutBack DEF Typed, BeginFinalize
      <3> QED
        BY <1>1, <2>1, <3>1, SessionsSame, EntriesSame, EndedOwned
    <2>2. CASE Closing(k) /\ sess' = [sess EXCEPT ![k[1]].right = TRUE] /\ GotoLobby(t, "finalize") /\ UNCHANGED lobbyTasks
      BY <1>1, <1>2, <1>3, <2>2, BegunOwned DEF BeginFinalize
    <2> QED
      BY <1>2, <1>3, <2>1, <2>2 DEF BeginFinalize, Closing
  <1>4. ASSUME FreeSlot(t) PROVE Owned'
    <2>1. CASE UNCHANGED sess
      BY <1>1, <1>4, <2>1, SessionsSame, EntriesSame, NothingPosted, EndedOwned DEF FreeSlot, Typed
    <2>2. CASE sess[k[1]].life = "DISCONNECTING" /\ sess[k[1]].id = k[2]
               /\ sess' = [sess EXCEPT ![k[1]] = [EmptySession EXCEPT !.right = sess[k[1]].right]]
      BY <1>1, <1>2, <1>4, <2>2, FreedOwned DEF FreeSlot
    <2> QED
      BY <1>2, <1>4, <2>1, <2>2 DEF FreeSlot
  <1>5. ASSUME FinalizeInRoom(t) PROVE Owned'
    <2>1. PICK s \in Slots : s = k[1] /\ s = ltask[t].key[1]
      BY <1>2
    <2>2. PICK c \in Key : c = Occupant(s) /\ c[1] = s
      BY OccupantKey DEF Typed
    <2>3. DoneLobby(t)
      BY <1>5 DEF FinalizeInRoom
    <2>4. CASE sess' = [sess EXCEPT ![s].right = FALSE] /\ (UNCHANGED lobbyTasks \/ lobbyTasks' = Requeued(ltask[t]))
      <3>1. CASE UNCHANGED lobbyTasks
        BY <1>1, <2>3, <2>4, <3>1, SessionsSame, EntriesSame, NothingPosted, EndedOwned DEF Typed
      <3>2. CASE lobbyTasks' = Requeued(ltask[t]) /\ ltask[t].type # "ADD_SESSION"
        BY <1>1, <2>3, <2>4, <3>2, SessionsSame, EntriesSame, PutBack, EndedOwned DEF Typed
      <3> QED
        BY <1>5, <2>4, <3>1, <3>2 DEF Sorted, FinalizeInRoom
    <2>5. CASE /\ sess' = AfterRoomDisconnect([sess EXCEPT ![s].right = FALSE], c)
               /\ lobbyTasks' = lobbyTasks \o RoomDisconnectNotice(c)
      <3>1. SessionsKept
        BY <2>2, <2>5, ReleasedKept DEF Typed
      <3>2. NothingNew
        BY <2>5, NoticePosted, TaskTypes DEF NothingNew, Posting, LobbyTaskType
      <3> QED
        BY <1>1, <2>3, <3>1, <3>2, EntriesSame, EndedOwned
    <2> QED
      BY <1>5, <2>1, <2>2, <2>4, <2>5 DEF FinalizeInRoom
  <1> QED
    BY <1>3, <1>4, <1>5


\* A new connection: its slot has no entry, and its key has not been used before.
LEMMA AcquireOwned ==
  ASSUME Typed, Typed', Owned, NEW s \in Slots, AcquireSession(s)
  PROVE  Owned'
  <1>1. PICK new \in Key : new = <<s, conn[s] + 1>> /\ new[1] = s /\ new[2] = conn[s] + 1
    BY IdsLeft, KeyFacts DEF AcquireSession, Typed, SessOK
  <1>2. PICK task \in LobbyTask : task = LTask("ADD_SESSION", new) /\ task.type = "ADD_SESSION" /\ task.key = new
    BY TaskTypes DEF LobbyTaskType
  <1>3. sess[s].life = "NONE" /\ UNCHANGED <<entry, active, claim, lpc, ltask>>
    BY DEF AcquireSession, lobbyVars, phaseVars, threadVars
  <1>4. /\ sess'[s].life = "ACTIVE" /\ sess'[s].mode = "LOGIN" /\ sess'[s].id = conn[s] + 1
        /\ conn'[s] = conn[s] + 1 /\ conn[s] \in Nat
        /\ \A q \in Slots \ {s} : sess'[q] = sess[q] /\ conn'[q] = conn[q]
    <2> DEFINE x == [sess[s] EXCEPT !.life = "ACTIVE", !.id = conn[s] + 1, !.mode = "LOGIN", !.room = NoIndex]
    <2>1. sess[s] \in Session /\ conn[s] \in Nat
      BY KeyFacts DEF Typed, SessOK
    <2>2. x.life = "ACTIVE" /\ x.id = conn[s] + 1 /\ x.mode = "LOGIN"
      BY <2>1 DEF Session
    <2>3. sess' = [sess EXCEPT ![s] = x]
      BY DEF AcquireSession
    <2> HIDE DEF x
    <2>4. sess'[s] = x /\ \A q \in Slots \ {s} : sess'[q] = sess[q]
      BY <2>3 DEF Typed, SessOK
    <2> QED
      BY <2>1, <2>2, <2>4 DEF AcquireSession, Typed, SessOK
  <1>5. Posting(<<task>>) /\ TasksOf(<<task>>) = {task} /\ lobbyTasks' = Append(lobbyTasks, task)
    BY <1>1, <1>2, PostOne DEF AcquireSession, Typed
  <1>6. ThreadsKept
    BY <1>3 DEF ThreadsKept, ThreadKept
  <1>7. entry[s].state = "EMPTY"
    BY <1>3 DEF Owned, EntryOwned, Found
  <1>8. \A k \in Key : /\ k[1] \in Slots /\ k = <<k[1], k[2]>>
                       /\ EntryMatches(k)' <=> EntryMatches(k)
                       /\ k[1] # s => (Found(k)' <=> Found(k)) /\ sess'[k[1]] = sess[k[1]]
                       /\ k[1] = s => ~Found(k) /\ (Found(k)' <=> k = new) /\ ~EntryMatches(k)
    BY <1>1, <1>3, <1>4, <1>7, KeyFacts DEF EntryMatches, Found
  <1>9. \A k : Forgetting(k) => Forgetting(k)'
    BY <1>3 DEF Forgetting
  <1>10. EntryOwned'
    <2>1. SUFFICES ASSUME NEW q \in Slots, entry'[q].state # "EMPTY", NEW n, n = entry'[q].id PROVE Found(<<q, n>>)'
      BY DEF EntryOwned
    <2>2. q # s /\ sess'[q] = sess[q] /\ entry[q].state # "EMPTY" /\ n = entry[q].id
      BY <1>3, <1>4, <1>7, <2>1
    <2> QED
      BY <2>2 DEF Owned, EntryOwned, Found
  <1>11. ActiveOwned'
    BY <1>3, <1>8, <1>9 DEF Owned, ActiveOwned, Typed, LobbyOK
  <1>12. EnterOwned'
    <2>1. SUFFICES ASSUME NEW t \in LobbyThreads, NEW k \in Key, lpc'[t] = "enter", ltask'[t].key = k PROVE TakenBack(k)'
      BY DEF EnterOwned
    <2>2. TakenBack(k)
      BY <1>3, <2>1 DEF Owned, EnterOwned
    <2>3. k[1] # s
      BY <1>8, <2>2 DEF TakenBack, IsActive
    <2> QED
      BY <1>3, <1>8, <1>9, <2>2, <2>3 DEF TakenBack, IsActive
  <1>13. Issued'
    BY <1>4 DEF Owned, Issued
  <1>14. \A x \in Waiting : x.type = "ADD_SESSION" => x.key # new
    BY <1>1, <1>4 DEF Owned, AddOwned
  <1>15. AddOwned'
    <2>1. SUFFICES ASSUME NEW x \in Waiting', NEW k \in Key, x.type = "ADD_SESSION", x.key = k
                   PROVE  k[2] <= conn'[k[1]] /\ NotAdded(k)'
      BY DEF AddOwned
    <2>2. CASE x = task
      BY <1>1, <1>2, <1>4, <1>8, <2>1, <2>2 DEF NotAdded
    <2>3. CASE x \in Waiting
      <3>1. k # new /\ k[2] <= conn[k[1]] /\ NotAdded(k)
        BY <1>14, <2>1, <2>3 DEF Owned, AddOwned
      <3>2. CASE k[1] = s
        <4>1. ~Found(k)' /\ k[2] <= conn[s] /\ k[2] \in Nat
          BY <1>8, <3>1, <3>2, KeyFacts
        <4> QED
          BY <1>4, <3>2, <4>1 DEF NotAdded
      <3>3. CASE k[1] # s
        BY <1>4, <1>8, <3>1, <3>3 DEF NotAdded
      <3> QED
        BY <3>2, <3>3
    <2> QED
      BY <1>5, <1>6, <2>1, <2>2, <2>3, KeptNoneTaken, WaitingKept DEF Typed
  <1>16. Fresh(s)'
    <2>1. Len(lobbyTasks) \in Nat /\ lobbyTasks \in Seq(LobbyTask) /\ claim \in 0..Len(lobbyTasks)
      BY LenProperties DEF Typed, QueueOK
    <2>2. /\ lobbyTasks'[Len(lobbyTasks) + 1] = task
          /\ lobbyTasks' \in Seq(LobbyTask) /\ Len(lobbyTasks') = Len(lobbyTasks) + 1
      BY <1>5, <2>1, AppendProperties
    <2>3. Len(lobbyTasks) + 1 \in DOMAIN lobbyTasks' /\ Len(lobbyTasks) + 1 > claim'
      BY <1>3, <2>1, <2>2, LenProperties
    <2>4. Occupant(s)' = new
      BY <1>1, <1>4 DEF Occupant
    <2>5. lobbyTasks'[Len(lobbyTasks) + 1] = LTask("ADD_SESSION", Occupant(s))'
      BY <1>2, <2>2, <2>4 DEF LTask
    <2> QED
      BY <1>3, <1>4, <1>7, <2>3, <2>5 DEF Fresh
  <1>17. ASSUME NEW q \in Slots, q # s, Replaced(q) PROVE Replaced(q)'
    <2>1. sess'[q] = sess[q]
      BY <1>4, <1>17
    <2>2. CASE Fresh(q)
      <3>1. PICK n \in DOMAIN lobbyTasks : n > claim /\ lobbyTasks[n] = LTask("ADD_SESSION", Occupant(q))
        BY <2>2 DEF Fresh
      <3>2. n \in DOMAIN lobbyTasks' /\ lobbyTasks'[n] = lobbyTasks[n]
        BY <1>5, TasksOfConcat DEF Typed, QueueOK, Posting
      <3>3. Occupant(q)' = Occupant(q)
        BY <2>1 DEF Occupant
      <3>4. lobbyTasks'[n] = LTask("ADD_SESSION", Occupant(q))'
        BY <3>1, <3>2, <3>3
      <3> QED
        BY <1>3, <2>1, <2>2, <3>1, <3>2, <3>4 DEF Fresh, Replaced
    <2> QED
      BY <1>17, <2>1, <2>2 DEF Replaced
  <1>18. FinalizeOwned'
    <2>1. SUFFICES ASSUME NEW t \in LobbyThreads, NEW k \in Key, ltask'[t].key = k, lpc'[t] \in {"finalize", "free"}
                   PROVE  /\ lpc'[t] = "finalize" => Closing(k)' \/ Replaced(k[1])'
                          /\ lpc'[t] = "free" => Closed(k)' \/ Replaced(k[1])'
      BY DEF FinalizeOwned
    <2>2. CASE k[1] = s
      <3>1. Replaced(s)'
        BY <1>16 DEF Replaced
      <3> QED
        BY <2>2, <3>1
    <2>3. CASE k[1] # s
      <3>1. Replaced(k[1]) => Replaced(k[1])'
        BY <1>8, <1>17, <2>3
      <3>2. (Closing(k) => Closing(k)') /\ (Closed(k) => Closed(k)')
        BY <1>3, <1>8, <2>3 DEF Closing, Closed
      <3>3. lpc[t] = lpc'[t] /\ ltask[t].key = k
        BY <1>3, <2>1
      <3> QED
        BY <3>1, <3>2, <3>3 DEF Owned, FinalizeOwned
    <2> QED
      BY <2>2, <2>3
  <1>19. Once("ADD_SESSION")'
    <2>1. OnceIn(<<task>>, "ADD_SESSION") /\ <<task>> \in Seq(LobbyTask)
      BY DEF OnceIn
    <2>2. \A x \in TasksOf(lobbyTasks), y \in TasksOf(<<task>>) : x.type = "ADD_SESSION" => x.key # y.key
      BY <1>2, <1>5, <1>14 DEF Waiting
    <2>3. OnceIn(lobbyTasks', "ADD_SESSION")
      <3>1. lobbyTasks' = lobbyTasks \o <<task>> /\ lobbyTasks \in Seq(LobbyTask) /\ OnceIn(lobbyTasks, "ADD_SESSION")
        BY <1>5 DEF Owned, Once, Typed, QueueOK, Posting
      <3>2. OnceIn(lobbyTasks \o <<task>>, "ADD_SESSION")
        BY <2>1, <2>2, <3>1, OnceConcat
      <3> QED
        BY <3>1, <3>2
    <2>4. \A t \in LobbyThreads : HasTask(t, "ADD_SESSION")' => HasTask(t, "ADD_SESSION") /\ ltask'[t] = ltask[t]
                                                                /\ ltask[t].key # new
      BY <1>3, <1>14 DEF HasTask, Waiting
    <2>5. TasksOf(lobbyTasks') = TasksOf(lobbyTasks) \cup {task}
      BY <1>5, <1>6, KeptNoneTaken, WaitingKept DEF Typed
    <2>6. \A t \in LobbyThreads, x \in TasksOf(lobbyTasks') :
            HasTask(t, "ADD_SESSION")' /\ x.type = "ADD_SESSION" => x.key # ltask'[t].key
      BY <1>2, <2>4, <2>5 DEF Owned, Once
    <2> QED
      BY <2>3, <2>4, <2>6 DEF Owned, Once
  <1> QED
    BY <1>10, <1>11, <1>12, <1>13, <1>15, <1>18, <1>19 DEF Owned


\* The phases of the lobby: only what is claimed changes, while no thread is at work.
LEMMA PhaseOwned ==
  ASSUME Typed, Owned, StartLobbyPhase \/ EndLobbyTasks
  PROVE  Owned'
  <1>1. UNCHANGED <<sess, conn, entry, active, lobbyTasks, lpc, ltask>> /\ \A t \in LobbyThreads : lpc[t] = "idle"
    BY DEF StartLobbyPhase, EndLobbyTasks, LobbyIdle, sessVars, lobbyVars, threadVars
  <1>2. \A t \in LobbyThreads : lpc'[t] = "idle"
    BY <1>1
  <1>3. Waiting' = Waiting
    BY <1>1 DEF Waiting
  <1>4. \A k \in Key : (Found(k)' <=> Found(k)) /\ (EntryMatches(k)' <=> EntryMatches(k)) /\ (NotAdded(k)' <=> NotAdded(k))
    BY <1>1 DEF Found, EntryMatches, NotAdded
  <1>5. EntryOwned' /\ Issued'
    BY <1>1 DEF Owned, EntryOwned, Issued, Found
  <1>6. ActiveOwned'
    <2>1. \A k : ~Forgetting(k)
      BY <1>1 DEF Forgetting
    <2> QED
      BY <1>1, <1>4, <2>1 DEF Owned, ActiveOwned, Typed, LobbyOK
  <1>7. EnterOwned' /\ FinalizeOwned'
    BY <1>2 DEF EnterOwned, FinalizeOwned
  <1>8. AddOwned'
    BY <1>1, <1>3, <1>4 DEF Owned, AddOwned
  <1>9. Once("ADD_SESSION")'
    BY <1>1 DEF Owned, Once, HasTask
  <1> QED
    BY <1>5, <1>6, <1>7, <1>8, <1>9 DEF Owned

\* The first task of the queue is taken by a thread: it goes on waiting.
LEMMA DequeueOnce ==
  ASSUME Typed, NEW t \in LobbyThreads, DequeueLobbyTask(t), NEW type, Once(type)
  PROVE  Waiting' \subseteq Waiting /\ Once(type)'
  <1> DEFINE seq == lobbyTasks
  <1>1. /\ UNCHANGED <<sess, conn, entry, active>> /\ lpc[t] = "idle" /\ claim' = claim - 1 /\ claim > 0
        /\ lobbyTasks' = Tail(seq)
    BY DEF DequeueLobbyTask, sessVars, lobbyVars
  <1>2. lpc'[t] = "task" /\ ltask'[t] = Head(seq) /\ \A u \in LobbyThreads \ {t} : lpc'[u] = lpc[u] /\ ltask'[u] = ltask[u]
    BY DEF DequeueLobbyTask, Typed, ThreadOK
  <1>3. seq \in Seq(LobbyTask) /\ claim \in 1..Len(seq) /\ Len(seq) \in Nat /\ seq # <<>>
    <2>1. seq \in Seq(LobbyTask) /\ claim \in 0..Len(seq) /\ Len(seq) \in Nat
      BY LenProperties DEF Typed, QueueOK
    <2>2. seq # <<>>
      BY <1>1, <2>1, EmptySeq
    <2> QED
      BY <1>1, <2>1, <2>2
  <1>4. Head(seq) \in TasksOf(seq) /\ TasksOf(lobbyTasks') \subseteq TasksOf(seq)
    BY <1>1, <1>3, QueueFacts
  <1>5. Waiting' \subseteq Waiting
    <2>1. SUFFICES ASSUME NEW x \in Waiting' PROVE x \in Waiting
      OBVIOUS
    <2>2. x \in TasksOf(lobbyTasks') \/ \E u \in LobbyThreads : lpc'[u] = "task" /\ x = ltask'[u]
      BY DEF Waiting
    <2> QED
      BY <1>2, <1>4, <2>2 DEF Waiting
  <1>6. Once(type)'
    <2>1. /\ OnceIn(Tail(seq), type)
          /\ \A y \in TasksOf(Tail(seq)) : Head(seq).type = type /\ y.type = type => y.key # Head(seq).key
      BY <1>3, OnceTail DEF Once
    <2>2. \A u \in LobbyThreads : HasTask(u, type)' =>
             \/ u = t /\ ltask'[u] = Head(seq) /\ Head(seq).type = type
             \/ u # t /\ HasTask(u, type) /\ ltask'[u] = ltask[u]
      BY <1>2 DEF HasTask
    <2>3. \A u, v \in LobbyThreads :
            HasTask(u, type)' /\ HasTask(v, type)' /\ ltask'[u].key = ltask'[v].key => u = v
      BY <1>4, <2>2 DEF Once
    <2>4. \A u \in LobbyThreads, x \in TasksOf(lobbyTasks') :
            HasTask(u, type)' /\ x.type = type => x.key # ltask'[u].key
      BY <1>1, <1>4, <2>1, <2>2 DEF Once
    <2> QED
      BY <1>1, <2>1, <2>3, <2>4 DEF Once
  <1> QED
    BY <1>5, <1>6

LEMMA DequeueOwned ==
  ASSUME Typed, Owned, NEW t \in LobbyThreads, DequeueLobbyTask(t)
  PROVE  Owned'
  <1> DEFINE seq == lobbyTasks
  <1>1. /\ UNCHANGED <<sess, conn, entry, active>> /\ lpc[t] = "idle" /\ claim' = claim - 1 /\ claim > 0
        /\ lobbyTasks' = Tail(seq)
    BY DEF DequeueLobbyTask, sessVars, lobbyVars
  <1>2. lpc'[t] = "task" /\ ltask'[t] = Head(seq) /\ \A u \in LobbyThreads \ {t} : lpc'[u] = lpc[u] /\ ltask'[u] = ltask[u]
    BY DEF DequeueLobbyTask, Typed, ThreadOK
  <1>3. seq \in Seq(LobbyTask) /\ claim \in 1..Len(seq) /\ Len(seq) \in Nat /\ seq # <<>>
    <2>1. seq \in Seq(LobbyTask) /\ claim \in 0..Len(seq) /\ Len(seq) \in Nat
      BY LenProperties DEF Typed, QueueOK
    <2>2. seq # <<>>
      BY <1>1, <2>1, EmptySeq
    <2> QED
      BY <1>1, <2>1, <2>2
  <1>4. Head(seq) \in TasksOf(seq) /\ TasksOf(lobbyTasks') \subseteq TasksOf(seq)
    BY <1>1, <1>3, QueueFacts
  <1>5. Waiting' \subseteq Waiting /\ Once("ADD_SESSION")'
    BY DequeueOnce DEF Owned
  <1>6. \A k \in Key : (Found(k)' <=> Found(k)) /\ (EntryMatches(k)' <=> EntryMatches(k)) /\ (NotAdded(k)' <=> NotAdded(k))
    BY <1>1 DEF Found, EntryMatches, NotAdded
  <1>7. EntryOwned' /\ Issued'
    BY <1>1 DEF Owned, EntryOwned, Issued, Found
  <1>8. \A u \in LobbyThreads : lpc'[u] # "task" => lpc[u] = lpc'[u] /\ ltask'[u] = ltask[u]
    BY <1>2
  <1>9. \A k : Forgetting(k) => Forgetting(k)'
    BY <1>1, <1>2 DEF Forgetting
  <1>10. ActiveOwned'
    BY <1>1, <1>6, <1>9 DEF Owned, ActiveOwned, Typed, LobbyOK
  <1>11. EnterOwned'
    <2>1. SUFFICES ASSUME NEW u \in LobbyThreads, NEW k \in Key, lpc'[u] = "enter", ltask'[u].key = k PROVE TakenBack(k)'
      BY DEF EnterOwned
    <2>2. TakenBack(k)
      BY <1>8, <2>1 DEF Owned, EnterOwned
    <2> QED
      BY <1>1, <1>9, <2>2 DEF TakenBack, IsActive, Found
  <1>12. AddOwned'
    BY <1>1, <1>5, <1>6 DEF Owned, AddOwned
  <1>13. ASSUME NEW s \in Slots, Replaced(s) PROVE Replaced(s)'
    <2>1. CASE Fresh(s)
      <3>1. PICK n \in DOMAIN seq : n > claim /\ seq[n] = LTask("ADD_SESSION", Occupant(s))
        BY <2>1 DEF Fresh
      <3>2. /\ Len(Tail(seq)) = Len(seq) - 1 /\ \A m \in 1..Len(Tail(seq)) : Tail(seq)[m] = seq[m + 1]
            /\ DOMAIN seq = 1..Len(seq) /\ DOMAIN Tail(seq) = 1..Len(Tail(seq))
        BY <1>3, HeadTailProperties, LenProperties
      <3>3. n - 1 \in DOMAIN Tail(seq) /\ Tail(seq)[n - 1] = seq[n] /\ n - 1 > claim - 1
        BY <1>3, <3>1, <3>2
      <3>4. Occupant(s)' = Occupant(s)
        BY <1>1 DEF Occupant
      <3>5. n - 1 \in DOMAIN lobbyTasks' /\ n - 1 > claim' /\ lobbyTasks'[n - 1] = LTask("ADD_SESSION", Occupant(s))'
        BY <1>1, <3>1, <3>3, <3>4 DEF LTask
      <3> QED
        BY <1>1, <2>1, <3>5 DEF Fresh, Replaced
    <2> QED
      BY <1>1, <1>13, <2>1 DEF Replaced
  <1>14. FinalizeOwned'
    <2>1. SUFFICES ASSUME NEW u \in LobbyThreads, NEW k \in Key, ltask'[u].key = k, lpc'[u] \in {"finalize", "free"}
                   PROVE  /\ lpc'[u] = "finalize" => Closing(k)' \/ Replaced(k[1])'
                          /\ lpc'[u] = "free" => Closed(k)' \/ Replaced(k[1])'
      BY DEF FinalizeOwned
    <2>2. lpc[u] = lpc'[u] /\ ltask[u].key = k /\ k[1] \in Slots
      BY <1>8, <2>1, KeyFacts
    <2>3. Replaced(k[1]) => Replaced(k[1])'
      BY <1>13, <2>2
    <2>4. (Closing(k) => Closing(k)') /\ (Closed(k) => Closed(k)')
      BY <1>1 DEF Closing, Closed, Found
    <2> QED
      BY <2>2, <2>3, <2>4 DEF Owned, FinalizeOwned
  <1> QED
    BY <1>5, <1>7, <1>10, <1>11, <1>12, <1>14 DEF Owned

\* A visit begins or ends.
LEMMA VisitOwned ==
  ASSUME Typed, Owned, NEW t \in LobbyThreads, EndVisit(t) \/ \E s \in Slots : VisitSession(t, s)
  PROVE  Owned'
  <1>1. UNCHANGED <<conn, entry, active, claim, lobbyTasks>>
    BY DEF EndVisit, VisitSession, lobbyVars, phaseVars
  <1>2. EntriesKept /\ NothingNew
    BY <1>1, EntriesSame, NothingPosted DEF Typed
  <1>3. CASE EndVisit(t)
    <2>1. ltask[t].key[1] \in Slots
      BY <1>3, ThreadKey DEF Typed, EndVisit
    <2>2. SessionsKept
      BY <1>3, <2>1, SessionsSame DEF Typed, EndVisit
    <2> QED
      BY <1>1, <1>2, <1>3, <2>2, EndedOwned DEF EndVisit
  <1>4. ASSUME NEW s \in Slots, VisitSession(t, s) PROVE Owned'
    <2>1. SessionsKept
      BY <1>4, SessionsSame DEF Typed, VisitSession
    <2>2. ThreadsKept
      BY <1>4 DEF Typed, ThreadOK, ThreadsKept, ThreadKept, VisitSession
    <2> QED
      BY <1>1, <1>2, <2>1, <2>2, OutsideStep DEF NothingNew
  <1> QED
    BY <1>3, <1>4

\* A request of a client in the lobby.
LEMMA RequestOwned ==
  ASSUME Typed, HoldOK, Owned, NEW t \in LobbyThreads, LobbyRequest(t)
  PROVE  Owned'
  <1>1. Visiting(t) /\ lpc[t] = "visit" /\ UNCHANGED <<conn, active, claim, lpc, ltask>>
    BY DEF LobbyRequest, Login, RequestCreate, RequestJoin, DisconnectInLobby, Transition, Visiting, sessVars, lobbyVars,
           phaseVars, threadVars
  <1>2. PICK k \in Key : k = ltask[t].key /\ k[1] \in Slots /\ sess[k[1]] \in Session
    BY <1>1, ThreadKey DEF Typed, SessOK
  <1>3. InLobby(k) /\ EntryMatches(k) /\ Found(k) /\ sess[k[1]].life = "ACTIVE" /\ Occupant(k[1]) = k
    BY <1>1, <1>2, KeyFacts DEF Visiting, InLobby, IsActive, Found, Occupant
  <1>4. \A u \in LobbyThreads : lpc[u] = "enter" => ltask[u].key[1] # k[1]
    <2> SUFFICES ASSUME NEW u \in LobbyThreads, lpc[u] = "enter", ltask[u].key[1] = k[1] PROVE FALSE
      OBVIOUS
    <2>1. lpc[u] \in Working /\ lpc[t] \in Working /\ ltask[t].key[1] = k[1]
      BY <1>1, <1>2 DEF Working
    <2>2. u = t
      BY <1>2, <2>1, FreeOfThreads
    <2> QED
      BY <1>1, <2>2
  <1>5. CASE Login(t)
    <2> DEFINE x == [sess[k[1]] EXCEPT !.mode = "LOBBY"]
    <2>1. x.id = sess[k[1]].id /\ x.life = sess[k[1]].life /\ x.mode = "LOBBY"
      BY <1>2 DEF Session
    <2>2. sess' = [sess EXCEPT ![k[1]] = x] /\ sess[k[1]].mode = "LOGIN" /\ UNCHANGED <<entry, lobbyTasks>>
      BY <1>2, <1>5 DEF Login, lobbyVars
    <2> HIDE DEF x
    <2>3. SessionsKept
      BY <1>2, <1>3, <2>1, <2>2, SessionSet DEF Typed, SessionKept
    <2> QED
      BY <1>1, <2>2, <2>3, NothingPosted, AwayStep DEF Typed
  <1>6. CASE DisconnectInLobby(t)
    <2> DEFINE x == [sess[k[1]] EXCEPT !.life = "DISCONNECT_PENDING"]
    <2>1. x.id = sess[k[1]].id /\ x.life = "DISCONNECT_PENDING"
      BY <1>2 DEF Session
    <2>2. sess' = [sess EXCEPT ![k[1]] = x] /\ UNCHANGED <<entry, lobbyTasks>>
      BY <1>2, <1>6 DEF DisconnectInLobby, BeginDisconnect, lobbyVars
    <2> HIDE DEF x
    <2>3. SessionsKept
      BY <1>2, <1>3, <1>4, <2>1, <2>2, SessionSet DEF Typed, SessionKept
    <2> QED
      BY <1>1, <2>2, <2>3, NothingPosted, AwayStep DEF Typed
  <1>7. CASE entry' = PendingEntry(k) /\ UNCHANGED sess /\ NothingNew
    <2>1. EntriesKept
      BY <1>2, <1>3, <1>7, EntriesSame DEF Typed, PendingEntry, EntryMatches
    <2>2. ThreadsKept
      BY <1>1 DEF ThreadsKept, ThreadKept
    <2> QED
      BY <1>1, <1>7, <2>1, <2>2, SessionsSame, OutsideStep DEF NothingNew
  <1>8. CASE RequestCreate(t)
    BY <1>2, <1>7, <1>8, NothingPosted DEF RequestCreate, Typed, sessVars
  <1>9. ASSUME NEW r \in RoomKeys, NEW match \in BOOLEAN, RequestJoin(t, r, match) PROVE Owned'
    <2>1. TransitionResult(k, FALSE, match) \in LobbyTask /\ TransitionResult(k, FALSE, match).type # "ADD_SESSION"
      BY TaskTypes
    <2>2. NothingNew
      BY <1>2, <1>9, <2>1, NothingPosted DEF RequestJoin, JoinTask, JoinRefused, Typed
    <2> QED
      BY <1>2, <1>7, <1>9, <2>2 DEF RequestJoin, sessVars
  <1> QED
    BY <1>5, <1>6, <1>8, <1>9 DEF LobbyRequest

----------------------------------------------------------------------------
(* The lobby forgets. *)

LEMMA OwnedInit == Init => Owned /\ Sorted
  <1> SUFFICES ASSUME Init PROVE Owned /\ Sorted
    OBVIOUS
  <1>1. TasksOf(lobbyTasks) = {} /\ Waiting = {}
    BY DEF Init, TasksOf, Waiting
  <1>2. EntryOwned /\ ActiveOwned /\ EnterOwned /\ Issued /\ FinalizeOwned /\ Sorted
    BY DEF Init, EntryOwned, ActiveOwned, EnterOwned, Issued, FinalizeOwned, Sorted, EmptyEntry, EmptySession
  <1>3. AddOwned
    BY <1>1 DEF AddOwned
  <1>4. Once("ADD_SESSION")
    BY <1>1 DEF Init, Once, OnceIn, HasTask
  <1> QED
    BY <1>2, <1>3, <1>4 DEF Owned

LEMMA OwnedNext == Typed /\ Typed' /\ HoldOK /\ Sorted /\ Owned /\ [Next]_vars => Owned'
  <1> SUFFICES ASSUME Typed, Typed', HoldOK, Sorted, Owned, [Next]_vars PROVE Owned'
    OBVIOUS
  <1>1. CASE UNCHANGED vars
    BY <1>1, SessionsSame, NothingPosted, AwayStep DEF Typed, vars, sessVars, lobbyVars, phaseVars, threadVars
  <1>2. ASSUME NEW s \in Slots, AcquireSession(s) \/ CompleteSessionIO(s) PROVE Owned'
    BY <1>2, AcquireOwned, CompleteOwned
  <1>3. CASE StartLobbyPhase \/ EndLobbyTasks
    BY <1>3, PhaseOwned
  <1>4. ASSUME NEW t \in LobbyThreads, LobbyTaskStep(t) PROVE Owned'
    BY <1>4, DequeueOwned, QueueOwned, RemovedOwned, EnterOwnedStep, ActivatedOwned, FinalizeOwnedStep, OutsideRoomOwned
       DEF LobbyTaskStep
  <1>5. ASSUME NEW t \in LobbyThreads, LobbyRequest(t) PROVE Owned'
    BY <1>5, RequestOwned
  <1>6. ASSUME NEW t \in LobbyThreads, EndVisit(t) \/ \E s \in Slots : VisitSession(t, s) PROVE Owned'
    BY <1>6, VisitOwned
  <1>7. ASSUME NEW g \in GameThreads, CreateStep(g) PROVE Owned'
    BY <1>7, CreateOwned
  <1>8. ASSUME NEW r \in RoomKeys, ProcessRoomTask(r) PROVE Owned'
    BY <1>8, RoomTaskOwned
  <1>9. ASSUME NEW r \in RoomKeys,
               \/ BeginTick(r) \/ ClaimTasks(r) \/ KeepPending(r) \/ EndRoomTasks(r) \/ VisitSeat(r) \/ EndSeatVisit(r)
               \/ PlayTick(r) \/ RoomRequest(r)
        PROVE  Owned'
    BY <1>9, TickOwned
  <1> QED
    BY <1>1, <1>2, <1>3, <1>4, <1>5, <1>6, <1>7, <1>8, <1>9 DEF Next, RoomTaskStep

LEMMA OwnedForgets == Typed /\ Owned => LobbyForgets
  <1> SUFFICES ASSUME Typed, Owned PROVE LobbyForgets
    OBVIOUS
  <1>1. ASSUME NEW k \in active PROVE Found(k) \/ Forgetting(k)
    <2>1. k[1] \in Slots /\ k = <<k[1], k[2]>>
      BY KeyFacts DEF Typed, LobbyOK
    <2>2. CASE EntryMatches(k)
      BY <2>1, <2>2 DEF Owned, EntryOwned, EntryMatches, Found
    <2> QED
      BY <2>2 DEF Owned, ActiveOwned
  <1> QED
    BY <1>1 DEF Owned, EntryOwned, LobbyForgets, Forgetting

\* The lobby keeps nothing of a connection that is gone, whatever tasks of it are still under
\* way, and although FinalizeDisconnect reads the key of its slot again after it has released it.
THEOREM LobbyKeepsNothing == Spec => []LobbyForgets
  <1> DEFINE Inv == Typed /\ HoldOK /\ Sorted /\ Owned
  <1>1. Init => Inv
    BY TypedInit, HoldInit, OwnedInit
  <1>2. Inv /\ [Next]_vars => Inv'
    <2> SUFFICES ASSUME Inv, [Next]_vars PROVE Inv'
      OBVIOUS
    <2>1. Typed' /\ HoldOK'
      BY TypedNext, HoldNext
    <2>2. Sorted'
      BY SortedNext
    <2> QED
      BY <2>1, <2>2, OwnedNext
  <1>3. Inv => LobbyForgets
    BY OwnedForgets
  <1> QED
    BY <1>1, <1>2, <1>3, PTL DEF Spec


----------------------------------------------------------------------------
(* Who sits where. *)

Sits(r, k) == Seated(r, k) # {}

\* Whoever sits in a room exists and knows it.
SeatsHere == \A r \in RoomKeys, k \in Key : Sits(r, k) => Found(k) /\ InRoom(k, rooms[r].index)

\* A room is at its index until it has posted its deletion, and nothing else is there.
TableHere ==
  /\ \A r \in RoomKeys : Used(r) /\ rooms[r].state # "DELETE_POST" => roomAt[rooms[r].index] = r
  /\ \A i \in RoomIndices, r \in RoomKeys : roomAt[i] = r => Used(r) /\ rooms[r].index = i

HostHere == \A r \in RoomKeys : AcceptsTasks(r) => Sits(r, rooms[r].host)

\* A deletion is posted once for an index, and the room there is the one that posted it.
OnceDeleted(seq) ==
  \A m, n \in DOMAIN seq :
     seq[m].type = "DELETE_ROOM" /\ seq[n].type = "DELETE_ROOM" /\ seq[m].index = seq[n].index => m = n
DeleteAt(i) == \E r \in RoomKeys : roomAt[i] = r /\ rooms[r].state = "DELETE_POST"
DeleteHere ==
  /\ OnceDeleted(lifeTasks)
  /\ \A i \in RoomIndices : [type |-> "DELETE_ROOM", index |-> i] \in TasksOf(lifeTasks) => DeleteAt(i)

\* A session that the lobby is to take back has no seat, and is in nobody's care meanwhile.
OnTheWay(k) ==
  /\ k[2] <= conn[k[1]]
  /\ \A r \in RoomKeys : ~Sits(r, k)
  /\ Found(k) => sess[k[1]].mode \in {"ROOM", "NONE"}
EnterHere == Once("ENTER_LOBBY") /\ \A k \in Key : Flying("ENTER_LOBBY", k) => OnTheWay(k)

Placed == SeatsHere /\ TableHere /\ HostHere /\ DeleteHere /\ EnterHere

\* A seat and its player.
LEMMA SeatOf ==
  ASSUME RoomsOK, NEW r \in RoomKeys, NEW k, Sits(r, k)
  PROVE  /\ k \in Key /\ k[1] \in Slots /\ Used(r) /\ rooms[r].state \notin {"WAITING_DELETE", "DELETE_POST"}
         /\ \E n \in Taken(rooms[r].seats) : rooms[r].seats[n].key = k
  <1>1. PICK n \in Seats : rooms[r].seats[n].state # "EMPTY" /\ rooms[r].seats[n].key = k
    BY DEF Sits, Seated
  <1>2. k \in Key /\ n \in Taken(rooms[r].seats)
    BY <1>1, TakenKey
  <1>3. k[1] \in Slots
    BY <1>2, KeyFacts
  <1>4. rooms[r].state \notin {"WAITING_DELETE", "DELETE_POST"}
    BY <1>2 DEF RoomsOK, RoomOK, PlayersOK
  <1>5. rooms[r] # NewRoom
    BY <1>1 DEF NewRoom, EmptySeat
  <1>6. Used(r)
    BY <1>5 DEF RoomsOK, RoomOK, LifeOK, Used
  <1> QED
    BY <1>1, <1>2, <1>3, <1>4, <1>6

\* Nobody sits in two rooms.
LEMMA OneRoom ==
  ASSUME RoomsOK, SeatsHere, TableHere, NEW r \in RoomKeys, NEW q \in RoomKeys, NEW k, Sits(r, k), Sits(q, k)
  PROVE  r = q
  <1>1. k \in Key /\ Used(r) /\ rooms[r].state # "DELETE_POST" /\ Used(q) /\ rooms[q].state # "DELETE_POST"
    BY SeatOf
  <1>2. rooms[r].index = rooms[q].index
    BY <1>1 DEF SeatsHere, InRoom
  <1> QED
    BY <1>1, <1>2 DEF TableHere

\* Two connections of one slot are not seated at once.
LEMMA OneOfSlot ==
  ASSUME RoomsOK, SeatsHere, NEW r \in RoomKeys, NEW q \in RoomKeys, NEW j \in Key, NEW k \in Key,
         Sits(r, j), Sits(q, k), j[1] = k[1]
  PROVE  j = k
  <1>1. j[2] = k[2]
    BY DEF SeatsHere, Found
  <1> QED
    BY <1>1, KeyFacts

----------------------------------------------------------------------------
(* Steps that leave the seats as they are. *)

RoomStays(r) ==
  /\ rooms'[r].index = rooms[r].index /\ rooms'[r].seats = rooms[r].seats /\ rooms'[r].host = rooms[r].host
  /\ (Used(r)' <=> Used(r)) /\ (AcceptsTasks(r)' <=> AcceptsTasks(r))
  /\ (rooms'[r].state = "DELETE_POST" <=> rooms[r].state = "DELETE_POST")
RoomsStay == \A r \in RoomKeys : RoomStays(r)

ModesStay ==
  \A s \in Slots : /\ sess'[s].id = sess[s].id /\ (sess'[s].life = "NONE" <=> sess[s].life = "NONE")
                   /\ sess'[s].mode = sess[s].mode /\ sess'[s].room = sess[s].room

DeletesStay ==
  /\ OnceDeleted(lifeTasks')
  /\ \A i \in RoomIndices : [type |-> "DELETE_ROOM", index |-> i] \in TasksOf(lifeTasks')
                            => [type |-> "DELETE_ROOM", index |-> i] \in TasksOf(lifeTasks)

\* No session is sent back to the lobby.
NoneSent == \E q : Posting(q) /\ \A x \in TasksOf(q) : x.type # "ENTER_LOBBY"

LEMMA SitsStays ==
  ASSUME NEW r \in RoomKeys, rooms'[r].seats = rooms[r].seats, NEW k
  PROVE  Sits(r, k)' <=> Sits(r, k)
  BY DEF Sits, Seated

LEMMA RoomsStayed ==
  ASSUME RoomsOK, UNCHANGED rooms \/ \E r \in RoomKeys : QuietStep(r) \/ QuietKept(r)
  PROVE  RoomsStay
  <1>1. CASE UNCHANGED rooms
    BY <1>1 DEF RoomsStay, RoomStays, Used, AcceptsTasks
  <1>2. ASSUME NEW r \in RoomKeys, NEW v, Quiet(rooms[r], v), rooms' = [rooms EXCEPT ![r] = v] PROVE RoomsStay
    <2>1. \A q \in RoomKeys : rooms'[q] = IF q = r THEN v ELSE rooms[q]
      BY <1>2 DEF RoomsOK
    <2>2. v.seats = rooms[r].seats /\ v.index = rooms[r].index /\ v.host = rooms[r].host
          /\ v.pc # "unused" /\ rooms[r].pc # "unused"
          /\ (v.state = rooms[r].state \/ (v.state \in {"WAIT", "PLAY"} /\ rooms[r].state \in {"WAIT", "PLAY"}))
      BY <1>2 DEF Quiet
    <2>3. RoomStays(r)
      BY <2>1, <2>2 DEF RoomStays, Used, AcceptsTasks
    <2>4. \A q \in RoomKeys \ {r} : RoomStays(q)
      BY <2>1 DEF RoomStays, Used, AcceptsTasks
    <2> QED
      BY <2>3, <2>4 DEF RoomsStay
  <1> QED
    BY <1>1, <1>2 DEF QuietStep, QuietKept

LEMMA ModesStayed ==
  /\ UNCHANGED sess => ModesStay
  /\ \A s \in Slots, b \in BOOLEAN : SessOK /\ sess' = [sess EXCEPT ![s].right = b] => ModesStay
  /\ \A s \in Slots, l \in {"DISCONNECT_PENDING", "DISCONNECTING"} :
       SessOK /\ sess[s].life # "NONE" /\ sess' = [sess EXCEPT ![s].life = l] => ModesStay
  <1>1. UNCHANGED sess => ModesStay
    BY DEF ModesStay
  <1>2. ASSUME NEW s \in Slots, NEW b \in BOOLEAN, SessOK, sess' = [sess EXCEPT ![s].right = b] PROVE ModesStay
    <2> DEFINE x == [sess[s] EXCEPT !.right = b]
    <2>1. sess[s] \in Session
      BY <1>2 DEF SessOK
    <2>2. x.id = sess[s].id /\ x.life = sess[s].life /\ x.mode = sess[s].mode /\ x.room = sess[s].room
      BY <2>1 DEF Session
    <2>3. sess' = [sess EXCEPT ![s] = x]
      BY <1>2
    <2> HIDE DEF x
    <2>4. \A q \in Slots : sess'[q] = IF q = s THEN x ELSE sess[q]
      BY <1>2, <2>3 DEF SessOK
    <2> QED
      BY <2>2, <2>4 DEF ModesStay
  <1>3. ASSUME NEW s \in Slots, NEW l \in {"DISCONNECT_PENDING", "DISCONNECTING"}, SessOK, sess[s].life # "NONE",
               sess' = [sess EXCEPT ![s].life = l]
        PROVE  ModesStay
    <2> DEFINE x == [sess[s] EXCEPT !.life = l]
    <2>1. sess[s] \in Session
      BY <1>3 DEF SessOK
    <2>2. x.id = sess[s].id /\ x.life = l /\ x.mode = sess[s].mode /\ x.room = sess[s].room
      BY <2>1 DEF Session
    <2>3. sess' = [sess EXCEPT ![s] = x]
      BY <1>3
    <2> HIDE DEF x
    <2>4. \A q \in Slots : sess'[q] = IF q = s THEN x ELSE sess[q]
      BY <1>3, <2>3 DEF SessOK
    <2> QED
      BY <1>3, <2>2, <2>4 DEF ModesStay
  <1> QED
    BY <1>1, <1>2, <1>3

\* Each part of the invariant under steps that leave what it is about alone.
LEMMA SeatsRest ==
  ASSUME RoomsOK, SeatsHere, ModesStay, \A r \in RoomKeys : rooms'[r].seats = rooms[r].seats /\ rooms'[r].index = rooms[r].index
  PROVE  SeatsHere'
  <1> SUFFICES ASSUME NEW r \in RoomKeys, NEW k \in Key, Sits(r, k)'
               PROVE  Found(k)' /\ InRoom(k, rooms[r].index)'
    BY DEF SeatsHere
  <1>1. Sits(r, k) /\ k[1] \in Slots
    BY SitsStays, KeyFacts
  <1>2. Found(k) /\ InRoom(k, rooms[r].index)
    BY <1>1 DEF SeatsHere
  <1> QED
    BY <1>1, <1>2 DEF ModesStay, Found, InRoom

LEMMA TableRest ==
  ASSUME TableOK, TableHere, UNCHANGED roomAt,
         \A r \in RoomKeys : /\ rooms'[r].index = rooms[r].index /\ (Used(r)' <=> Used(r))
                             /\ rooms[r].state = "DELETE_POST" => rooms'[r].state = "DELETE_POST"
  PROVE  TableHere'
  BY DEF TableHere

LEMMA DeletesRest ==
  ASSUME TableOK, DeleteHere, DeletesStay, UNCHANGED roomAt,
         \A r \in RoomKeys : rooms[r].state = "DELETE_POST" => rooms'[r].state = "DELETE_POST"
  PROVE  DeleteHere'
  <1>1. ASSUME NEW i \in RoomIndices, DeleteAt(i) PROVE DeleteAt(i)'
    BY <1>1 DEF DeleteAt
  <1> QED
    BY <1>1 DEF DeleteHere, DeletesStay

LEMMA EnterRest ==
  ASSUME QueueOK, EnterHere, NoneTaken, NoneSent,
         \A k \in Key : Flying("ENTER_LOBBY", k) /\ OnTheWay(k) => OnTheWay(k)'
  PROVE  EnterHere'
  <1>1. PICK q : Posting(q) /\ \A x \in TasksOf(q) : x.type # "ENTER_LOBBY"
    BY DEF NoneSent
  <1>2. Once("ENTER_LOBBY")'
    BY <1>1, OnceKept DEF EnterHere
  <1>3. \A k \in Key : Flying("ENTER_LOBBY", k)' => Flying("ENTER_LOBBY", k)
    BY <1>1, WaitingKept DEF Flying
  <1> QED
    BY <1>2, <1>3 DEF EnterHere

LEMMA WayStays ==
  ASSUME ModesStay, \A s \in Slots : conn[s] = conn'[s], \A r \in RoomKeys : rooms'[r].seats = rooms[r].seats,
         NEW k \in Key, OnTheWay(k)
  PROVE  OnTheWay(k)'
  <1>1. k[1] \in Slots
    BY KeyFacts
  <1>2. \A r \in RoomKeys : ~Sits(r, k)'
    BY SitsStays DEF OnTheWay
  <1> QED
    BY <1>1, <1>2 DEF OnTheWay, ModesStay, Found

LEMMA StillStep ==
  ASSUME Typed, Placed, RoomsStay, ModesStay, DeletesStay, UNCHANGED roomAt, EnterHere'
  PROVE  Placed'
  <1>1. SeatsHere'
    BY SeatsRest DEF Typed, Placed, RoomsStay, RoomStays
  <1>2. TableHere'
    BY TableRest DEF Typed, Placed, RoomsStay, RoomStays
  <1>3. HostHere'
    <2>1. \A r \in RoomKeys : \A k : Sits(r, k)' <=> Sits(r, k)
      BY SitsStays DEF RoomsStay, RoomStays
    <2> QED
      BY <2>1 DEF Placed, HostHere, RoomsStay, RoomStays
  <1>4. DeleteHere'
    BY DeletesRest DEF Typed, Placed, RoomsStay, RoomStays
  <1> QED
    BY <1>1, <1>2, <1>3, <1>4 DEF Placed

LEMMA RestStep ==
  ASSUME Typed, Placed, RoomsStay, ModesStay, DeletesStay, NoneTaken, NoneSent, UNCHANGED <<conn, roomAt>>
  PROVE  Placed'
  <1>1. \A k \in Key : OnTheWay(k) => OnTheWay(k)'
    BY WayStays DEF RoomsStay, RoomStays
  <1>2. EnterHere'
    BY <1>1, EnterRest DEF Typed, Placed
  <1> QED
    BY <1>2, StillStep

----------------------------------------------------------------------------
(* What the steps do to the queues. *)

LEMMA DeletedAppend ==
  ASSUME NEW seq \in Seq(LifecycleTask), OnceDeleted(seq), NEW x \in LifecycleTask,
         x.type = "DELETE_ROOM" => \A y \in TasksOf(seq) : y.type = "DELETE_ROOM" => y.index # x.index
  PROVE  OnceDeleted(Append(seq, x))
  <1> DEFINE w == Append(seq, x)
  <1>1. Len(w) = Len(seq) + 1 /\ w[Len(seq) + 1] = x /\ \A n \in 1..Len(seq) : w[n] = seq[n]
    BY AppendProperties
  <1>2. Len(seq) \in Nat /\ DOMAIN seq = 1..Len(seq) /\ DOMAIN w = 1..Len(w)
    BY AppendProperties, LenProperties
  <1> HIDE DEF w
  <1>3. \A n \in DOMAIN w : (n \in DOMAIN seq /\ w[n] = seq[n] /\ seq[n] \in TasksOf(seq)) \/ (n = Len(seq) + 1 /\ w[n] = x)
    BY <1>1, <1>2 DEF TasksOf
  <1>4. SUFFICES ASSUME NEW m \in DOMAIN w, NEW n \in DOMAIN w, w[m].type = "DELETE_ROOM", w[n].type = "DELETE_ROOM",
                        w[m].index = w[n].index
                 PROVE  m = n
    BY DEF OnceDeleted, w
  <1> QED
    BY <1>3, <1>4 DEF OnceDeleted

LEMMA DeletedTail ==
  ASSUME NEW seq \in Seq(LifecycleTask), seq # <<>>, OnceDeleted(seq)
  PROVE  /\ OnceDeleted(Tail(seq))
         /\ \A y \in TasksOf(Tail(seq)) : Head(seq).type = "DELETE_ROOM" /\ y.type = "DELETE_ROOM" => y.index # Head(seq).index
  <1>1. Tail(seq) \in Seq(LifecycleTask) /\ Len(Tail(seq)) = Len(seq) - 1
        /\ \A n \in 1..Len(Tail(seq)) : Tail(seq)[n] = seq[n + 1]
    BY HeadTailProperties
  <1>2. Len(seq) \in Nat \ {0} /\ DOMAIN seq = 1..Len(seq) /\ DOMAIN Tail(seq) = 1..Len(Tail(seq)) /\ Head(seq) = seq[1]
    BY <1>1, LenProperties, EmptySeq
  <1>3. \A n \in DOMAIN Tail(seq) : n + 1 \in DOMAIN seq /\ n + 1 # 1 /\ Tail(seq)[n] = seq[n + 1] /\ n \in Nat
    BY <1>1, <1>2
  <1>4. 1 \in DOMAIN seq
    BY <1>2
  <1>5. OnceDeleted(Tail(seq))
    <2>1. SUFFICES ASSUME NEW m \in DOMAIN Tail(seq), NEW n \in DOMAIN Tail(seq), Tail(seq)[m].type = "DELETE_ROOM",
                          Tail(seq)[n].type = "DELETE_ROOM", Tail(seq)[m].index = Tail(seq)[n].index
                   PROVE  m = n
      BY DEF OnceDeleted
    <2>2. m + 1 = n + 1
      BY <1>3, <2>1 DEF OnceDeleted
    <2> QED
      BY <1>3, <2>2
  <1>6. ASSUME NEW y \in TasksOf(Tail(seq)), Head(seq).type = "DELETE_ROOM", y.type = "DELETE_ROOM", y.index = Head(seq).index
        PROVE  FALSE
    <2>1. PICK n \in DOMAIN Tail(seq) : y = Tail(seq)[n]
      BY DEF TasksOf
    <2>2. n + 1 = 1
      BY <1>2, <1>3, <1>4, <1>6, <2>1 DEF OnceDeleted
    <2> QED
      BY <1>3, <2>2
  <1> QED
    BY <1>5, <1>6

\* Nothing but creations is posted, or a task is taken.
LEMMA DeletesStayed ==
  ASSUME GameOK, DeleteHere,
         \/ UNCHANGED lifeTasks
         \/ \E k \in Key : lifeTasks' = Append(lifeTasks, [type |-> "CREATE", key |-> k])
         \/ lifeTasks # <<>> /\ lifeTasks' = Tail(lifeTasks)
  PROVE  DeletesStay
  <1>1. lifeTasks \in Seq(LifecycleTask) /\ OnceDeleted(lifeTasks)
    BY DEF GameOK, DeleteHere
  <1>2. CASE UNCHANGED lifeTasks
    BY <1>1, <1>2 DEF DeletesStay
  <1>3. ASSUME NEW k \in Key, lifeTasks' = Append(lifeTasks, [type |-> "CREATE", key |-> k]) PROVE DeletesStay
    <2> DEFINE x == [type |-> "CREATE", key |-> k]
    <2>1. x \in LifecycleTask /\ x.type = "CREATE"
      BY DEF LifecycleTask
    <2> HIDE DEF x
    <2>2. OnceDeleted(Append(lifeTasks, x)) /\ TasksOf(Append(lifeTasks, x)) = TasksOf(lifeTasks) \cup {x}
      BY <1>1, <2>1, DeletedAppend, QueueFacts
    <2>3. \A i : [type |-> "DELETE_ROOM", index |-> i] # x
      <3>1. \A i : [type |-> "DELETE_ROOM", index |-> i].type = "DELETE_ROOM"
        OBVIOUS
      <3> QED
        BY <2>1, <3>1
    <2> QED
      BY <1>3, <2>2, <2>3 DEF DeletesStay, x
  <1>4. CASE lifeTasks # <<>> /\ lifeTasks' = Tail(lifeTasks)
    BY <1>1, <1>4, DeletedTail, QueueFacts DEF DeletesStay
  <1> QED
    BY <1>2, <1>3, <1>4

LEMMA NoneSentBy ==
  ASSUME QueueOK, \/ UNCHANGED lobbyTasks
                  \/ \E x \in LobbyTask : x.type # "ENTER_LOBBY" /\ lobbyTasks' = Append(lobbyTasks, x)
  PROVE  NoneSent
  BY PostNothing, PostOne DEF NoneSent

LEMMA AnswerSent ==
  ASSUME QueueOK, NEW k \in Key, NEW ok \in BOOLEAN, NEW match \in BOOLEAN,
         lobbyTasks' = Append(lobbyTasks, TransitionResult(k, ok, match))
  PROVE  NoneSent
  <1>1. TransitionResult(k, ok, match) \in LobbyTask /\ TransitionResult(k, ok, match).type = "ROOM_TRANSITION_RESULT"
    BY TaskTypes
  <1> QED
    BY <1>1, NoneSentBy

LEMMA NoneTakenBy ==
  ASSUME ThreadOK
  PROVE  /\ UNCHANGED <<lpc, ltask>> => NoneTaken
         /\ \A t \in LobbyThreads : DoneLobby(t) => NoneTaken
         /\ \A t \in LobbyThreads, p \in {"forget", "enter", "finalize"} : GotoLobby(t, p) => NoneTaken
  <1>1. UNCHANGED <<lpc, ltask>> => NoneTaken
    BY DEF NoneTaken
  <1>2. ASSUME NEW t \in LobbyThreads, NEW p \in {"forget", "enter", "finalize"}, DoneLobby(t) \/ GotoLobby(t, p)
        PROVE  NoneTaken
    <2>1. \A u \in LobbyThreads \ {t} : lpc'[u] = lpc[u] /\ ltask'[u] = ltask[u]
      BY <1>2, DoneOthers
    <2>2. lpc'[t] # "task"
      BY <1>2, DoneOthers
    <2> QED
      BY <2>1, <2>2 DEF NoneTaken
  <1> QED
    BY <1>1, <1>2

----------------------------------------------------------------------------
(* The steps that leave the seats as they are. *)

LEMMA NetworkRests ==
  ASSUME Typed, Placed, NEW s \in Slots, CompleteSessionIO(s)
  PROVE  Placed'
  <1>1. Occupant(s) \in Key
    BY OccupantKey DEF Typed
  <1>2. LTask("DISCONNECT", Occupant(s)) \in LobbyTask /\ LTask("DISCONNECT", Occupant(s)).type = "DISCONNECT"
    BY <1>1, TaskTypes DEF LobbyTaskType
  <1>3. NoneSent
    BY <1>2, NoneSentBy DEF Typed, CompleteSessionIO
  <1>4. ModesStay
    BY ModesStayed DEF Typed, CompleteSessionIO
  <1>5. UNCHANGED <<conn, roomAt, rooms, lifeTasks, lpc, ltask>>
    BY DEF CompleteSessionIO, gameVars, threadVars
  <1>6. RoomsStay /\ DeletesStay /\ NoneTaken
    BY <1>5, RoomsStayed, DeletesStayed, NoneTakenBy DEF Typed, Placed
  <1> QED
    BY <1>3, <1>4, <1>5, <1>6, RestStep

LEMMA PhaseRests ==
  ASSUME Typed, Placed, StartLobbyPhase \/ EndLobbyTasks \/ UNCHANGED vars
  PROVE  Placed'
  <1>1. UNCHANGED <<sess, conn, roomAt, rooms, lifeTasks, lpc, ltask, lobbyTasks>>
    BY DEF StartLobbyPhase, EndLobbyTasks, vars, sessVars, gameVars, threadVars
  <1>2. RoomsStay /\ DeletesStay /\ NoneTaken /\ NoneSent /\ ModesStay
    BY <1>1, RoomsStayed, DeletesStayed, NoneTakenBy, NoneSentBy, ModesStayed DEF Typed, Placed
  <1> QED
    BY <1>1, <1>2, RestStep

LEMMA QueueRests ==
  ASSUME Typed, Placed, NEW t \in LobbyThreads,
         AddSession(t) \/ ForgetSession(t) \/ RemoveActiveSession(t) \/ ReturnToLobby(t)
  PROVE  Placed'
  <1>1. UNCHANGED <<sess, conn, roomAt, lifeTasks>>
    BY DEF AddSession, ForgetSession, RemoveActiveSession, ReturnToLobby, sessVars, gameVars
  <1>2. DoneLobby(t) \/ GotoLobby(t, "forget")
    BY DEF AddSession, ForgetSession, RemoveActiveSession, ReturnToLobby
  <1>3. NoneTaken /\ ModesStay /\ DeletesStay
    BY <1>1, <1>2, NoneTakenBy, ModesStayed, DeletesStayed DEF Typed, Placed
  <1>4. RoomsStay /\ NoneSent
    <2>1. CASE UNCHANGED <<rooms, lobbyTasks>>
      BY <2>1, RoomsStayed, NoneSentBy DEF Typed
    <2>2. ASSUME NEW k \in Key, NEW r \in RoomKeys, JoinTask(r, k, TRUE) PROVE RoomsStay /\ NoneSent
      <3>1. CASE QuietKept(r) /\ UNCHANGED lobbyTasks
        BY <3>1, RoomsStayed, NoneSentBy DEF Typed
      <3>2. CASE UNCHANGED rooms /\ lobbyTasks' = Append(lobbyTasks, TransitionResult(k, FALSE, TRUE))
        BY <3>2, RoomsStayed, AnswerSent DEF Typed
      <3> QED
        BY <2>2, <3>1, <3>2, JoinQuiet DEF Typed
    <2>3. CASE ReturnToLobby(t)
      <3>1. ltask[t].key \in Key
        BY <2>3, ThreadKey DEF ReturnToLobby, Typed
      <3> QED
        BY <2>1, <2>2, <2>3, <3>1 DEF ReturnToLobby
    <2> QED
      BY <2>1, <2>3 DEF AddSession, ForgetSession, RemoveActiveSession
  <1> QED
    BY <1>1, <1>3, <1>4, RestStep

LEMMA ThreadRests ==
  ASSUME Typed, Placed, NEW t \in LobbyThreads,
         \/ ActivateEntry(t) \/ BeginFinalize(t) \/ FinalizeOutsideRoom(t) \/ EndVisit(t)
         \/ \E s \in Slots : VisitSession(t, s)
  PROVE  Placed'
  <1>1. UNCHANGED <<conn, roomAt, rooms, lifeTasks>>
    BY DEF ActivateEntry, BeginFinalize, FinalizeOutsideRoom, EndVisit, VisitSession, gameVars
  <1>2. lpc[t] # "idle" => ltask[t] \in LobbyTask /\ ltask[t].key[1] \in Slots
    BY ThreadKey DEF Typed
  <1>3. RoomsStay /\ DeletesStay
    BY <1>1, RoomsStayed, DeletesStayed DEF Typed, Placed
  <1>4. ModesStay
    <2>1. UNCHANGED sess \/ \E s \in Slots, b \in BOOLEAN : sess' = [sess EXCEPT ![s].right = b]
      BY <1>2 DEF ActivateEntry, BeginFinalize, FinalizeOutsideRoom, EndVisit, VisitSession
    <2> QED
      BY <2>1, ModesStayed DEF Typed
  <1>5. NoneSent
    <2>1. CASE UNCHANGED lobbyTasks
      BY <2>1, NoneSentBy DEF Typed
    <2>2. CASE BeginFinalize(t) /\ lobbyTasks' = Requeued(ltask[t])
      BY <1>2, <2>2, NoneSentBy DEF Typed, BeginFinalize, Requeued
    <2> QED
      BY <2>1, <2>2 DEF ActivateEntry, BeginFinalize, FinalizeOutsideRoom, EndVisit, VisitSession
  <1>6. NoneTaken
    <2>1. CASE DoneLobby(t) \/ GotoLobby(t, "finalize")
      BY <2>1, NoneTakenBy DEF Typed
    <2>2. CASE FinalizeOutsideRoom(t) \/ \E s \in Slots : VisitSession(t, s)
      BY <2>2 DEF FinalizeOutsideRoom, VisitSession, NoneTaken, Typed, ThreadOK
    <2> QED
      BY <2>1, <2>2 DEF ActivateEntry, BeginFinalize, EndVisit
  <1> QED
    BY <1>1, <1>3, <1>4, <1>5, <1>6, RestStep

LEMMA RequestRests ==
  ASSUME Typed, Placed, NEW t \in LobbyThreads,
         \/ RequestCreate(t) \/ DisconnectInLobby(t)
         \/ \E r \in RoomKeys, match \in BOOLEAN : RequestJoin(t, r, match)
  PROVE  Placed'
  <1>1. Visiting(t) /\ lpc[t] = "visit" /\ UNCHANGED <<conn, roomAt, lpc, ltask>>
    BY DEF RequestCreate, RequestJoin, DisconnectInLobby, Transition, Visiting, sessVars, threadVars
  <1>2. PICK k \in Key : k = ltask[t].key /\ k[1] \in Slots
    BY <1>1, ThreadKey DEF Typed
  <1>3. NoneTaken
    BY <1>1, NoneTakenBy DEF Typed
  <1>4. CASE RequestCreate(t)
    <2>1. UNCHANGED <<sess, rooms, lobbyTasks>> /\ lifeTasks' = Append(lifeTasks, [type |-> "CREATE", key |-> k])
      BY <1>2, <1>4 DEF RequestCreate, sessVars
    <2>2. RoomsStay /\ ModesStay /\ DeletesStay /\ NoneSent
      BY <2>1, RoomsStayed, ModesStayed, DeletesStayed, NoneSentBy DEF Typed, Placed
    <2> QED
      BY <1>1, <1>3, <2>2, RestStep
  <1>5. CASE DisconnectInLobby(t)
    <2>1. UNCHANGED <<rooms, lobbyTasks, lifeTasks>> /\ sess' = [sess EXCEPT ![k[1]].life = "DISCONNECT_PENDING"]
          /\ sess[k[1]].life # "NONE"
      BY <1>1, <1>2, <1>5 DEF DisconnectInLobby, BeginDisconnect, gameVars, Visiting, InLobby, IsActive
    <2>2. RoomsStay /\ ModesStay /\ DeletesStay /\ NoneSent
      BY <1>2, <2>1, RoomsStayed, ModesStayed, DeletesStayed, NoneSentBy DEF Typed, Placed
    <2> QED
      BY <1>1, <1>3, <2>2, RestStep
  <1>6. ASSUME NEW r \in RoomKeys, NEW match \in BOOLEAN, RequestJoin(t, r, match) PROVE Placed'
    <2>1. UNCHANGED <<sess, lifeTasks>> /\ JoinTask(r, k, match)
      BY <1>2, <1>6 DEF RequestJoin, sessVars, gameVars
    <2>2. ModesStay /\ DeletesStay
      BY <2>1, ModesStayed, DeletesStayed DEF Typed, Placed
    <2>3. RoomsStay /\ NoneSent
      <3>1. CASE QuietKept(r) /\ UNCHANGED lobbyTasks
        BY <3>1, RoomsStayed, NoneSentBy DEF Typed
      <3>2. CASE UNCHANGED rooms /\ lobbyTasks' = Append(lobbyTasks, TransitionResult(k, FALSE, match))
        BY <3>2, RoomsStayed, AnswerSent DEF Typed
      <3> QED
        BY <2>1, <3>1, <3>2, JoinQuiet DEF Typed
    <2> QED
      BY <1>1, <1>3, <2>2, <2>3, RestStep
  <1> QED
    BY <1>4, <1>5, <1>6

LEMMA CreateRests ==
  ASSUME Typed, Placed, NEW g \in GameThreads, BeginCreate(g) \/ RefuseCreate(g) \/ AnswerCreate(g)
  PROVE  Placed'
  <1>1. UNCHANGED <<sess, conn, roomAt, rooms, lpc, ltask>>
    BY DEF BeginCreate, RefuseCreate, AnswerCreate, sessVars, threadVars
  <1>2. RoomsStay /\ ModesStay /\ NoneTaken
    BY <1>1, RoomsStayed, ModesStayed, NoneTakenBy DEF Typed
  <1>3. DeletesStay
    BY DeletesStayed DEF BeginCreate, RefuseCreate, AnswerCreate, Typed, Placed
  <1>4. NoneSent
    <2>1. CASE UNCHANGED lobbyTasks
      BY <2>1, NoneSentBy DEF Typed
    <2>2. CASE BeginCreate(g) /\ lobbyTasks' = CreateRefused(Head(lifeTasks).key)
      <3>1. Head(lifeTasks) \in LifecycleTask /\ Head(lifeTasks).type = "CREATE"
        BY <2>2, QueueFacts DEF BeginCreate, Typed, GameOK
      <3>2. Head(lifeTasks).key \in Key
        BY <3>1 DEF LifecycleTask
      <3> QED
        BY <2>2, <3>2, AnswerSent DEF CreateRefused, Typed
    <2>3. CASE RefuseCreate(g) \/ AnswerCreate(g)
      <3>1. gkey[g] \in Key
        BY <2>3 DEF Typed, GameOK, RefuseCreate, AnswerCreate
      <3> QED
        BY <2>3, <3>1, AnswerSent DEF RefuseCreate, AnswerCreate, CreateRefused, Typed
    <2> QED
      BY <2>1, <2>2, <2>3 DEF BeginCreate, RefuseCreate, AnswerCreate
  <1> QED
    BY <1>1, <1>2, <1>3, <1>4, RestStep

LEMMA TickRests ==
  ASSUME Typed, Placed, NEW r \in RoomKeys,
         \/ BeginTick(r) \/ ClaimTasks(r) \/ KeepPending(r) \/ VisitSeat(r) \/ EndSeatVisit(r) \/ PlayTick(r)
         \/ DisconnectInRoom(r) \/ ProcessStart(r) \/ ProcessGiveUp(r)
         \/ \E type \in {"START", "KICK", "GIVE_UP"}, target \in Key \cup {NoKey} : RequestRoomTask(r, type, target)
  PROVE  Placed'
  <1>1. UNCHANGED <<conn, roomAt, lifeTasks, lobbyTasks, lpc, ltask>>
    BY DEF BeginTick, ClaimTasks, KeepPending, VisitSeat, EndSeatVisit, PlayTick, DisconnectInRoom, ProcessStart,
           ProcessGiveUp, RequestRoomTask, sessVars, gameVars, threadVars
  <1>2. DeletesStay /\ NoneTaken /\ NoneSent
    BY <1>1, DeletesStayed, NoneTakenBy, NoneSentBy DEF Typed, Placed
  <1>3. RoomsStay
    <2>1. UNCHANGED rooms \/ QuietStep(r) \/ QuietKept(r)
      <3>1. CASE BeginTick(r) \/ ClaimTasks(r) \/ KeepPending(r)
        BY <3>1, TickQuiet DEF Typed
      <3>2. CASE VisitSeat(r)
        BY <3>2, VisitSeatSteps DEF Typed, QuietStep
      <3>3. CASE EndSeatVisit(r)
        BY <3>3, EndSeatVisitStep DEF Typed, QuietStep
      <3>4. CASE PlayTick(r)
        BY <3>4, PlayQuiet DEF Typed
      <3>5. CASE ProcessStart(r) \/ ProcessGiveUp(r)
        BY <3>5, GameQuiet DEF Typed
      <3>6. ASSUME NEW type \in {"START", "KICK", "GIVE_UP"}, NEW target \in Key \cup {NoKey}, RequestRoomTask(r, type, target)
            PROVE  QuietKept(r)
        BY <3>6, RequestQuiet DEF Typed
      <3> QED
        BY <3>1, <3>2, <3>3, <3>4, <3>5, <3>6 DEF DisconnectInRoom
    <2> QED
      BY <2>1, RoomsStayed DEF Typed
  <1>4. ModesStay
    <2>1. CASE UNCHANGED sess
      BY <2>1, ModesStayed
    <2>2. CASE VisitSeat(r)
      <3>1. SeatKey(r) \in Key => SeatKey(r)[1] \in Slots
        BY KeyFacts
      <3> QED
        BY <2>1, <2>2, <3>1, VisitSeatSteps, ModesStayed DEF Typed
    <2>3. CASE EndSeatVisit(r)
      <3>1. rooms[r].held[1] \in Slots
        BY <2>3, EndSeatVisitStep, KeyFacts DEF Typed
      <3> QED
        BY <2>3, <3>1, ModesStayed DEF Typed, EndSeatVisit
    <2>4. CASE DisconnectInRoom(r)
      <3>1. SeatKey(r)[1] \in Slots /\ sess[SeatKey(r)[1]].life # "NONE"
        BY <2>4, VisitedKey DEF Typed, DisconnectInRoom, Holding, Visitable, IsActive
      <3> QED
        BY <2>4, <3>1, ModesStayed DEF Typed, DisconnectInRoom, BeginDisconnect
    <2> QED
      BY <2>1, <2>2, <2>3, <2>4 DEF BeginTick, ClaimTasks, KeepPending, PlayTick, ProcessStart, ProcessGiveUp,
                                    RequestRoomTask, sessVars
  <1> QED
    BY <1>1, <1>2, <1>3, <1>4, RestStep

\* A task of a room that does nothing but leave its queue, and answers at most.
LEMMA TaskRests ==
  ASSUME Typed, Placed, NEW r \in RoomKeys, AtTask(r), rooms' = [rooms EXCEPT ![r] = AfterTask(@)],
         UNCHANGED <<sess, conn, roomAt, lifeTasks, lpc, ltask>>, NoneSent
  PROVE  Placed'
  <1>1. RoomsStay /\ ModesStay /\ DeletesStay /\ NoneTaken
    BY TaskDone, RoomsStayed, ModesStayed, DeletesStayed, NoneTakenBy DEF Typed, Placed
  <1> QED
    BY <1>1, RestStep

----------------------------------------------------------------------------
(* The steps of the lobby that change where a session is. *)

\* Nobody of slot s has a seat.
Unseated(s) == \A r \in RoomKeys, k \in Key : k[1] = s => ~Sits(r, k)

\* A session whose slot has no seat changes.
LEMMA UnseatedStep ==
  ASSUME Typed, Placed, NEW s \in Slots, Unseated(s), \A q \in Slots \ {s} : sess'[q] = sess[q],
         UNCHANGED <<rooms, roomAt, lifeTasks>>, EnterHere'
  PROVE  Placed'
  <1>1. RoomsStay /\ DeletesStay
    BY RoomsStayed, DeletesStayed DEF Typed, Placed
  <1>2. SeatsHere'
    <2> SUFFICES ASSUME NEW r \in RoomKeys, NEW k \in Key, Sits(r, k)'
                 PROVE  Found(k)' /\ InRoom(k, rooms[r].index)'
      BY DEF SeatsHere
    <2>1. Sits(r, k) /\ k[1] \in Slots \ {s}
      BY SitsStays, KeyFacts DEF Unseated
    <2>2. Found(k) /\ InRoom(k, rooms[r].index) /\ sess'[k[1]] = sess[k[1]]
      BY <2>1 DEF SeatsHere, Placed
    <2> QED
      BY <2>2 DEF Found, InRoom
  <1>3. TableHere'
    BY <1>1, TableRest DEF Typed, Placed, RoomsStay, RoomStays
  <1>4. HostHere'
    <2>1. \A r \in RoomKeys : \A k : Sits(r, k)' <=> Sits(r, k)
      BY SitsStays
    <2> QED
      BY <2>1 DEF Placed, HostHere, AcceptsTasks
  <1>5. DeleteHere'
    BY <1>1, DeletesRest DEF Typed, Placed, RoomsStay, RoomStays
  <1> QED
    BY <1>2, <1>3, <1>4, <1>5 DEF Placed

\* A session that is not in a room has no seat, nor has one that the lobby is to take back.
LEMMA NoSeat ==
  ASSUME Placed, NEW s \in Slots,
         \/ sess[s].life = "NONE" \/ sess[s].mode # "ROOM"
         \/ \E k \in Key : k[1] = s /\ Found(k) /\ \A r \in RoomKeys : ~Sits(r, k)
  PROVE  Unseated(s)
  <1> SUFFICES ASSUME NEW r \in RoomKeys, NEW j \in Key, j[1] = s, Sits(r, j) PROVE FALSE
    BY DEF Unseated
  <1>1. Found(j) /\ sess[s].mode = "ROOM" /\ sess[s].id = j[2]
    BY DEF Placed, SeatsHere, InRoom, Found
  <1>2. PICK k \in Key : k[1] = s /\ Found(k) /\ \A q \in RoomKeys : ~Sits(q, k)
    BY <1>1 DEF Found
  <1>3. j[1] = k[1] /\ j[2] = k[2]
    BY <1>1, <1>2 DEF Found
  <1>4. j = <<j[1], j[2]>> /\ k = <<k[1], k[2]>>
    BY KeyFacts
  <1>5. j = k
    BY <1>3, <1>4
  <1> QED
    BY <1>2, <1>5

LEMMA WayAt ==
  ASSUME NEW s \in Slots, \A q \in Slots \ {s} : sess'[q] = sess[q], UNCHANGED <<conn, rooms>>,
         NEW k \in Key, OnTheWay(k), k[1] = s /\ Found(k)' => sess'[s].mode \in {"ROOM", "NONE"}
  PROVE  OnTheWay(k)'
  <1>1. \A r \in RoomKeys : ~Sits(r, k)'
    BY SitsStays DEF OnTheWay
  <1>2. k[1] \in Slots
    BY KeyFacts
  <1> QED
    BY <1>1, <1>2 DEF OnTheWay, Found

\* A task that is taken up, or put back.
LEMMA TakenUp ==
  ASSUME NEW t \in LobbyThreads, NEW type, Once(type), HasTask(t, type), lpc'[t] # "task", UNCHANGED lobbyTasks,
         \A u \in LobbyThreads \ {t} : lpc'[u] = lpc[u] /\ ltask'[u] = ltask[u], NEW k, ltask[t].key = k
  PROVE  ~Flying(type, k)'
  <1> SUFFICES ASSUME NEW x \in Waiting', x.type = type, x.key = k PROVE FALSE
    BY DEF Flying
  <1>1. ASSUME x \in TasksOf(lobbyTasks') PROVE FALSE
    BY <1>1 DEF Once
  <1>2. ASSUME NEW u \in LobbyThreads, lpc'[u] = "task", x = ltask'[u] PROVE FALSE
    BY <1>2 DEF Once, HasTask
  <1> QED
    BY <1>1, <1>2 DEF Waiting

LEMMA PutBackOnce ==
  ASSUME Typed, NEW t \in LobbyThreads, NEW type, Once(type), HasTask(t, type), DoneLobby(t), lobbyTasks' = Requeued(ltask[t])
  PROVE  Once(type)' /\ Waiting' \subseteq Waiting
  <1> DEFINE x == ltask[t]
  <1>1. x \in LobbyTask /\ lobbyTasks \in Seq(LobbyTask)
    BY ThreadKey DEF HasTask, Typed, QueueOK
  <1>2. lobbyTasks' = lobbyTasks \o <<x>> /\ <<x>> \in Seq(LobbyTask) /\ TasksOf(<<x>>) = {x}
        /\ TasksOf(lobbyTasks') = TasksOf(lobbyTasks) \cup {x}
    <2>1. Posting(<<x>>) /\ TasksOf(<<x>>) = {x}
      BY <1>1, PostOne DEF Typed, Requeued
    <2> HIDE DEF x
    <2>2. TasksOf(lobbyTasks \o <<x>>) = TasksOf(lobbyTasks) \cup TasksOf(<<x>>)
      BY <1>1, <2>1, TasksOfConcat DEF Posting
    <2> QED
      BY <2>1, <2>2 DEF Posting
  <1>3. lpc'[t] = "idle" /\ \A u \in LobbyThreads \ {t} : lpc'[u] = lpc[u] /\ ltask'[u] = ltask[u]
    BY DoneOthers DEF Typed
  <1>4. OnceIn(lobbyTasks', type)
    <2>1. OnceIn(<<x>>, type)
      BY DEF OnceIn
    <2>2. \A y \in TasksOf(lobbyTasks), z \in TasksOf(<<x>>) : y.type = type /\ z.type = type => y.key # z.key
      BY <1>2 DEF Once
    <2> HIDE DEF x
    <2> QED
      BY <1>1, <1>2, <2>1, <2>2, OnceConcat DEF Once
  <1>5. \A u \in LobbyThreads : HasTask(u, type)' => u # t /\ HasTask(u, type) /\ ltask'[u] = ltask[u]
    BY <1>3 DEF HasTask
  <1>6. Once(type)'
    <2>1. \A u, v \in LobbyThreads :
            HasTask(u, type)' /\ HasTask(v, type)' /\ ltask'[u].key = ltask'[v].key => u = v
      BY <1>5 DEF Once
    <2>2. \A u \in LobbyThreads, y \in TasksOf(lobbyTasks') :
            HasTask(u, type)' /\ y.type = type => y.key # ltask'[u].key
      BY <1>2, <1>5 DEF Once
    <2> QED
      BY <1>4, <2>1, <2>2 DEF Once
  <1>7. ASSUME NEW y \in Waiting' PROVE y \in Waiting
    <2>1. y \in TasksOf(lobbyTasks') \/ \E u \in LobbyThreads : lpc'[u] = "task" /\ y = ltask'[u]
      BY <1>7 DEF Waiting
    <2> QED
      BY <1>2, <1>3, <2>1 DEF Waiting, HasTask
  <1> QED
    BY <1>6, <1>7

LEMMA AcquirePlaced ==
  ASSUME Typed, Placed, NEW s \in Slots, AcquireSession(s)
  PROVE  Placed'
  <1>1. UNCHANGED <<rooms, roomAt, lifeTasks, lpc, ltask>> /\ sess[s].life = "NONE"
    BY DEF AcquireSession, gameVars, threadVars
  <1> DEFINE n == conn[s] + 1
             x == [sess[s] EXCEPT !.life = "ACTIVE", !.id = n, !.mode = "LOGIN", !.room = NoIndex]
  <1>2. sess[s] \in Session /\ conn[s] \in Nat /\ conn \in [Slots -> Ids]
    BY KeyFacts DEF Typed, SessOK
  <1>3. n \in Ids
    BY IdsLeft DEF Typed, AcquireSession
  <1>4. x.id = n /\ sess' = [sess EXCEPT ![s] = x] /\ conn' = [conn EXCEPT ![s] = n]
    BY <1>2 DEF AcquireSession, Session
  <1> HIDE DEF x
  <1>5. sess'[s].id = n /\ \A q \in Slots \ {s} : sess'[q] = sess[q] /\ conn'[q] = conn[q]
    BY <1>2, <1>4, RightIn DEF Typed
  <1>6. conn'[s] = n
    BY <1>2, <1>4
  <1>7. Unseated(s)
    BY <1>1, NoSeat
  <1>8. NoneSent /\ NoneTaken
    <2>1. <<s, n>> \in Key
      BY <1>3, KeyFacts
    <2>2. LTask("ADD_SESSION", <<s, n>>) \in LobbyTask /\ LTask("ADD_SESSION", <<s, n>>).type = "ADD_SESSION"
      BY <2>1, TaskTypes DEF LobbyTaskType
    <2> QED
      BY <1>1, <2>2, NoneSentBy, NoneTakenBy DEF Typed, AcquireSession
  <1>9. ASSUME NEW k \in Key, OnTheWay(k) PROVE OnTheWay(k)'
    <2>1. \A r \in RoomKeys : ~Sits(r, k)'
      BY <1>1, <1>9, SitsStays DEF OnTheWay
    <2>2. k[1] \in Slots /\ k[2] \in Nat /\ k[2] <= conn[k[1]]
      BY <1>9, KeyFacts DEF OnTheWay
    <2>3. CASE k[1] = s
      <3>1. k[2] <= conn'[s] /\ k[2] # n
        BY <1>2, <1>6, <2>2, <2>3
      <3> QED
        BY <1>5, <2>1, <2>3, <3>1 DEF OnTheWay, Found
    <2>4. CASE k[1] # s
      BY <1>5, <1>9, <2>1, <2>2, <2>4 DEF OnTheWay, Found
    <2> QED
      BY <2>3, <2>4
  <1>10. EnterHere'
    BY <1>8, <1>9, EnterRest DEF Typed, Placed
  <1> QED
    BY <1>1, <1>5, <1>7, <1>10, UnseatedStep

LEMMA DequeuePlaced ==
  ASSUME Typed, Placed, NEW t \in LobbyThreads, DequeueLobbyTask(t)
  PROVE  Placed'
  <1>1. UNCHANGED <<sess, conn, rooms, roomAt, lifeTasks>>
    BY DEF DequeueLobbyTask, sessVars, gameVars
  <1>2. RoomsStay /\ ModesStay /\ DeletesStay
    BY <1>1, RoomsStayed, ModesStayed, DeletesStayed DEF Typed, Placed
  <1>3. Waiting' \subseteq Waiting /\ Once("ENTER_LOBBY")'
    BY DequeueOnce DEF Placed, EnterHere
  <1>4. \A k \in Key : Flying("ENTER_LOBBY", k)' => Flying("ENTER_LOBBY", k)
    BY <1>3 DEF Flying
  <1>5. \A k \in Key : OnTheWay(k) => OnTheWay(k)'
    BY <1>1, <1>2, WayStays
  <1>6. EnterHere'
    BY <1>3, <1>4, <1>5 DEF Placed, EnterHere
  <1> QED
    BY <1>1, <1>2, <1>6, StillStep

LEMMA EnterPlaced ==
  ASSUME Typed, Placed, NEW t \in LobbyThreads, EnterLobby(t)
  PROVE  Placed'
  <1>1. HasTask(t, "ENTER_LOBBY") /\ UNCHANGED <<conn, rooms, roomAt, lifeTasks>>
    BY DEF EnterLobby, HasTask, gameVars
  <1>2. PICK k \in Key : k = ltask[t].key /\ k[1] \in Slots /\ ltask[t] \in LobbyTask
    BY <1>1, ThreadKey DEF HasTask, Typed
  <1>3. RoomsStay /\ DeletesStay /\ Once("ENTER_LOBBY")
    BY <1>1, RoomsStayed, DeletesStayed DEF Typed, Placed, EnterHere
  <1>4. CASE DoneLobby(t) /\ UNCHANGED <<sess, lobbyTasks>>
    <2>1. ModesStay /\ NoneTaken /\ NoneSent
      BY <1>4, ModesStayed, NoneTakenBy, NoneSentBy DEF Typed
    <2> QED
      BY <1>1, <1>3, <2>1, RestStep
  <1>5. CASE DoneLobby(t) /\ UNCHANGED sess /\ lobbyTasks' = Requeued(ltask[t])
    <2>1. Waiting' \subseteq Waiting /\ Once("ENTER_LOBBY")'
      BY <1>1, <1>3, <1>5, PutBackOnce
    <2>2. \A j \in Key : Flying("ENTER_LOBBY", j)' => Flying("ENTER_LOBBY", j)
      BY <2>1 DEF Flying
    <2>3. \A j \in Key : OnTheWay(j) => OnTheWay(j)'
      BY <1>1, <1>5, ModesStayed, WayStays
    <2>4. EnterHere'
      BY <2>1, <2>2, <2>3 DEF Placed, EnterHere
    <2> QED
      BY <1>1, <1>3, <1>5, <2>4, ModesStayed, StillStep
  <1>6. CASE /\ IsActive(k) /\ UNCHANGED lobbyTasks /\ GotoLobby(t, "enter")
             /\ sess' = [sess EXCEPT ![k[1]] = [@ EXCEPT !.right = TRUE, !.mode = "LOBBY", !.room = NoIndex]]
    <2> DEFINE x == [sess[k[1]] EXCEPT !.right = TRUE, !.mode = "LOBBY", !.room = NoIndex]
    <2>1. sess[k[1]] \in Session
      BY <1>2 DEF Typed, SessOK
    <2>2. x.id = sess[k[1]].id /\ sess' = [sess EXCEPT ![k[1]] = x]
      BY <1>6, <2>1 DEF Session
    <2> HIDE DEF x
    <2>3. sess'[k[1]].id = k[2] /\ \A q \in Slots \ {k[1]} : sess'[q] = sess[q]
      BY <1>2, <1>6, <2>2, RightIn DEF Typed, IsActive, Found
    <2>4. Flying("ENTER_LOBBY", k)
      BY <1>1, <1>2 DEF Flying, Waiting, HasTask
    <2>5. Unseated(k[1])
      BY <1>2, <1>6, <2>4, NoSeat DEF Placed, EnterHere, OnTheWay, IsActive
    <2>6. NoneTaken /\ NoneSent
      BY <1>6, NoneTakenBy, NoneSentBy DEF Typed
    <2>7. ~Flying("ENTER_LOBBY", k)'
      <3>1. lpc'[t] # "task" /\ \A u \in LobbyThreads \ {t} : lpc'[u] = lpc[u] /\ ltask'[u] = ltask[u]
        BY <1>6, DoneOthers DEF Typed
      <3> QED
        BY <1>1, <1>2, <1>3, <1>6, <3>1, TakenUp
    <2>8. EnterHere'
      <3>1. PICK q : Posting(q) /\ \A y \in TasksOf(q) : y.type # "ENTER_LOBBY"
        BY <2>6 DEF NoneSent
      <3>2. Once("ENTER_LOBBY")'
        BY <1>3, <2>6, <3>1, OnceKept DEF Typed
      <3>3. ASSUME NEW j \in Key, Flying("ENTER_LOBBY", j)' PROVE OnTheWay(j)'
        <4>1. Flying("ENTER_LOBBY", j)
          BY <2>6, <3>1, <3>3, WaitingKept DEF Flying, Typed
        <4>2. OnTheWay(j)
          BY <4>1 DEF Placed, EnterHere
        <4>3. j # k
          BY <2>7, <3>3
        <4>4. j[1] = k[1] => j[2] # k[2]
          BY <4>3, KeyFacts
        <4>5. j[1] = k[1] => ~Found(j)'
          BY <2>3, <4>4 DEF Found
        <4> QED
          BY <1>1, <1>2, <2>3, <4>2, <4>5, WayAt
      <3> QED
        BY <3>2, <3>3 DEF EnterHere
    <2> QED
      BY <1>1, <1>2, <2>3, <2>5, <2>8, UnseatedStep
  <1> QED
    BY <1>2, <1>4, <1>5, <1>6 DEF EnterLobby

LEMMA LoginPlaced ==
  ASSUME Typed, Placed, NEW t \in LobbyThreads, Login(t)
  PROVE  Placed'
  <1>1. lpc[t] = "visit" /\ UNCHANGED <<conn, rooms, roomAt, lifeTasks, lobbyTasks, lpc, ltask>>
    BY DEF Login, Visiting, gameVars, threadVars
  <1>2. PICK k \in Key : k = ltask[t].key /\ k[1] \in Slots
    BY <1>1, ThreadKey DEF Typed
  <1> DEFINE x == [sess[k[1]] EXCEPT !.mode = "LOBBY"]
  <1>3. sess[k[1]] \in Session
    BY <1>2 DEF Typed, SessOK
  <1>4. x.id = sess[k[1]].id /\ x.life = sess[k[1]].life /\ sess' = [sess EXCEPT ![k[1]] = x] /\ sess[k[1]].mode = "LOGIN"
    BY <1>2, <1>3 DEF Login, Session
  <1> HIDE DEF x
  <1>5. sess'[k[1]].id = sess[k[1]].id /\ sess'[k[1]].life = sess[k[1]].life /\ \A q \in Slots \ {k[1]} : sess'[q] = sess[q]
    BY <1>2, <1>4, RightIn DEF Typed
  <1>6. Unseated(k[1])
    BY <1>2, <1>4, NoSeat
  <1>7. NoneTaken /\ NoneSent
    BY <1>1, NoneTakenBy, NoneSentBy DEF Typed
  <1>8. ASSUME NEW j \in Key, OnTheWay(j) PROVE OnTheWay(j)'
    <2>1. j[1] = k[1] => ~Found(j)'
      BY <1>4, <1>5, <1>8 DEF OnTheWay, Found
    <2> QED
      BY <1>1, <1>2, <1>5, <1>8, <2>1, WayAt
  <1>9. EnterHere'
    BY <1>7, <1>8, EnterRest DEF Typed, Placed
  <1> QED
    BY <1>1, <1>2, <1>5, <1>6, <1>9, UnseatedStep

LEMMA FreePlaced ==
  ASSUME Typed, Owned, Placed, NEW t \in LobbyThreads, FreeSlot(t)
  PROVE  Placed'
  <1>1. lpc[t] = "free" /\ DoneLobby(t) /\ UNCHANGED <<conn, rooms, roomAt, lifeTasks, lobbyTasks>>
    BY DEF FreeSlot, gameVars
  <1>2. PICK k \in Key : k = ltask[t].key /\ k[1] \in Slots
    BY <1>1, ThreadKey DEF Typed
  <1>3. NoneTaken /\ NoneSent
    BY <1>1, NoneTakenBy, NoneSentBy DEF Typed
  <1>4. CASE UNCHANGED sess
    <2>1. RoomsStay /\ ModesStay /\ DeletesStay
      BY <1>1, <1>4, RoomsStayed, ModesStayed, DeletesStayed DEF Typed, Placed
    <2> QED
      BY <1>1, <1>3, <2>1, RestStep
  <1>5. CASE sess[k[1]].life = "DISCONNECTING" /\ sess' = [sess EXCEPT ![k[1]] = [EmptySession EXCEPT !.right = sess[k[1]].right]]
    <2> DEFINE x == [EmptySession EXCEPT !.right = sess[k[1]].right]
    <2>1. x.life = "NONE" /\ sess' = [sess EXCEPT ![k[1]] = x]
      BY <1>5 DEF EmptySession
    <2> HIDE DEF x
    <2>2. sess'[k[1]].life = "NONE" /\ \A q \in Slots \ {k[1]} : sess'[q] = sess[q]
      BY <1>2, <2>1, RightIn DEF Typed
    <2>3. sess[k[1]].mode # "ROOM"
      <3>1. Closed(k) \/ Replaced(k[1])
        BY <1>1, <1>2 DEF Owned, FinalizeOwned
      <3> QED
        BY <1>5, <3>1 DEF Closed, Replaced, Fresh
    <2>4. Unseated(k[1])
      BY <1>2, <2>3, NoSeat
    <2>5. ASSUME NEW j \in Key, OnTheWay(j) PROVE OnTheWay(j)'
      <3>1. j[1] = k[1] => ~Found(j)'
        BY <2>2 DEF Found
      <3> QED
        BY <1>1, <1>2, <2>2, <2>5, <3>1, WayAt
    <2>6. EnterHere'
      BY <1>3, <2>5, EnterRest DEF Typed, Placed
    <2> QED
      BY <1>1, <1>2, <2>2, <2>4, <2>6, UnseatedStep
  <1> QED
    BY <1>2, <1>4, <1>5 DEF FreeSlot

\* What AfterRoomDisconnect does to the session of k, with or without its right.
LEMMA LeftSession ==
  ASSUME SessOK, NEW k \in Key,
         \/ sess' = AfterRoomDisconnect(sess, k)
         \/ sess' = AfterRoomDisconnect([sess EXCEPT ![k[1]].right = FALSE], k)
  PROVE  /\ \A q \in Slots \ {k[1]} : sess'[q] = sess[q]
         /\ sess'[k[1]].id = sess[k[1]].id /\ (sess'[k[1]].life = "NONE" <=> sess[k[1]].life = "NONE")
         /\ sess'[k[1]].mode = sess[k[1]].mode \/ sess'[k[1]].mode = "NONE"
  <1> DEFINE s == k[1]
             y(b) == [sess[s] EXCEPT !.right = b]
             x(b) == [y(b) EXCEPT !.mode = "NONE", !.room = NoIndex]
  <1>1. s \in Slots /\ sess[s] \in Session
    BY KeyFacts DEF SessOK
  <1>2. \A b \in BOOLEAN : /\ y(b).id = sess[s].id /\ y(b).life = sess[s].life /\ y(b).mode = sess[s].mode
                           /\ x(b).id = sess[s].id /\ x(b).life = sess[s].life /\ x(b).mode = "NONE"
    BY <1>1 DEF Session
  <1>3. y(sess[s].right) = sess[s] /\ sess[s].right \in BOOLEAN
    BY <1>1 DEF Session
  <1>4. \E b \in BOOLEAN : sess' = [sess EXCEPT ![s] = y(b)] \/ sess' = [sess EXCEPT ![s] = x(b)]
    <2>1. CASE sess' = AfterRoomDisconnect(sess, k)
      <3>1. CASE LeavesRoom(k)
        <4>1. sess' = [sess EXCEPT ![s] = x(sess[s].right)]
          BY <1>3, <2>1, <3>1 DEF AfterRoomDisconnect
        <4> QED
          BY <1>3, <4>1
      <3>2. CASE ~LeavesRoom(k)
        <4>1. sess' = [sess EXCEPT ![s] = y(sess[s].right)]
          BY <1>1, <1>3, <2>1, <3>2 DEF AfterRoomDisconnect, SessOK
        <4> QED
          BY <1>3, <4>1
      <3> QED
        BY <3>1, <3>2
    <2>2. CASE sess' = AfterRoomDisconnect([sess EXCEPT ![s].right = FALSE], k)
      <3> DEFINE R == [sess EXCEPT ![s].right = FALSE]
      <3>1. R = [sess EXCEPT ![s] = y(FALSE)] /\ R[s] = y(FALSE)
        BY <1>1 DEF SessOK
      <3>2. CASE LeavesRoom(k)
        <4>1. sess' = [R EXCEPT ![s] = [R[s] EXCEPT !.mode = "NONE", !.room = NoIndex]]
          BY <2>2, <3>2 DEF AfterRoomDisconnect
        <4>2. sess' = [sess EXCEPT ![s] = x(FALSE)]
          BY <1>1, <3>1, <4>1
        <4> QED
          BY <4>2
      <3>3. CASE ~LeavesRoom(k)
        <4>1. sess' = [sess EXCEPT ![s] = y(FALSE)]
          BY <2>2, <3>1, <3>3 DEF AfterRoomDisconnect
        <4> QED
          BY <4>1
      <3> QED
        BY <3>2, <3>3
    <2> QED
      BY <2>1, <2>2
  <1> HIDE DEF x, y
  <1>5. PICK b \in BOOLEAN : sess' = [sess EXCEPT ![s] = y(b)] \/ sess' = [sess EXCEPT ![s] = x(b)]
    BY <1>4
  <1>6. (sess'[s] = y(b) \/ sess'[s] = x(b)) /\ \A q \in Slots \ {s} : sess'[q] = sess[q]
    BY <1>1, <1>5, RightIn
  <1> QED
    BY <1>2, <1>6

\* A session on its way stays there when it, or another, leaves ROOM mode.
LEMMA LeftWay ==
  ASSUME NEW k \in Key, NEW j \in Key, OnTheWay(j), UNCHANGED conn, \A r \in RoomKeys : ~Sits(r, j)',
         \A q \in Slots \ {k[1]} : sess'[q] = sess[q],
         sess'[k[1]].id = sess[k[1]].id, sess'[k[1]].life = "NONE" <=> sess[k[1]].life = "NONE",
         sess'[k[1]].mode = sess[k[1]].mode \/ sess'[k[1]].mode = "NONE"
  PROVE  OnTheWay(j)'
  <1>1. j[1] \in Slots
    BY KeyFacts
  <1>2. Found(j)' => Found(j)
    BY <1>1 DEF Found
  <1>3. Found(j)' => sess'[j[1]].mode \in {"ROOM", "NONE"}
    BY <1>1, <1>2 DEF OnTheWay
  <1> QED
    BY <1>3 DEF OnTheWay

LEMMA RemovalPlaced ==
  ASSUME Typed, Sorted, Placed, NEW t \in LobbyThreads, FinalizeInRoom(t)
  PROVE  Placed'
  <1>1. lpc[t] = "finalize" /\ DoneLobby(t) /\ UNCHANGED <<conn, roomAt, lifeTasks>>
    BY DEF FinalizeInRoom, gameVars
  <1>2. PICK s \in Slots : s = ltask[t].key[1] /\ ltask[t] \in LobbyTask
    BY <1>1, ThreadKey DEF Typed
  <1>3. PICK k \in Key : k = Occupant(s) /\ k[1] = s
    BY OccupantKey DEF Typed
  <1>4. NoneTaken /\ DeletesStay
    BY <1>1, NoneTakenBy, DeletesStayed DEF Typed, Placed
  <1>5. CASE sess' = [sess EXCEPT ![s].right = FALSE] /\ UNCHANGED lobbyTasks /\ roomAt[sess[s].room] # NoRoom
             /\ AcceptsTasks(roomAt[sess[s].room]) /\ rooms' = AddRoomTask(rooms, roomAt[sess[s].room], RTask("REMOVE_PLAYER", k))
    <2>1. sess[s].room \in RoomIndices
      BY <1>2 DEF FinalizeInRoom, Typed, SessOK
    <2>2. PICK r \in RoomKeys : r = roomAt[sess[s].room]
      BY <1>5, <2>1 DEF Typed, TableOK
    <2>3. RTask("REMOVE_PLAYER", k) \in RoomTask
      BY RoomTaskTypes
    <2>4. QuietKept(r)
      BY <1>5, <2>2, <2>3, QueuedQuiet DEF Typed
    <2>5. RoomsStay /\ ModesStay /\ NoneSent
      BY <1>5, <2>4, RoomsStayed, ModesStayed, NoneSentBy DEF Typed
    <2> QED
      BY <1>1, <1>4, <2>5, RestStep
  <1>6. CASE sess' = [sess EXCEPT ![s].right = FALSE] /\ lobbyTasks' = Requeued(ltask[t]) /\ UNCHANGED rooms
    <2>1. ltask[t].type = "DISCONNECT"
      BY <1>1 DEF Sorted
    <2>2. RoomsStay /\ ModesStay /\ NoneSent
      BY <1>2, <1>6, <2>1, RoomsStayed, ModesStayed, NoneSentBy DEF Typed, Requeued
    <2> QED
      BY <1>1, <1>4, <2>2, RestStep
  <1>7. CASE /\ roomAt[sess[s].room] = NoRoom /\ UNCHANGED rooms /\ lobbyTasks' = lobbyTasks \o RoomDisconnectNotice(k)
             /\ sess' = AfterRoomDisconnect([sess EXCEPT ![s].right = FALSE], k)
    <2>1. Unseated(s)
      <3> SUFFICES ASSUME NEW r \in RoomKeys, NEW j \in Key, j[1] = s, Sits(r, j) PROVE FALSE
        BY DEF Unseated
      <3>1. InRoom(j, rooms[r].index) /\ Used(r) /\ rooms[r].state # "DELETE_POST"
        BY SeatOf DEF Typed, Placed, SeatsHere
      <3>2. roomAt[rooms[r].index] = r /\ rooms[r].index = sess[s].room
        BY <3>1 DEF Placed, TableHere, InRoom
      <3> QED
        BY <1>7, <3>2, NamesAssumption
    <2>2. /\ \A q \in Slots \ {k[1]} : sess'[q] = sess[q]
          /\ sess'[k[1]].id = sess[k[1]].id /\ (sess'[k[1]].life = "NONE" <=> sess[k[1]].life = "NONE")
          /\ sess'[k[1]].mode = sess[k[1]].mode \/ sess'[k[1]].mode = "NONE"
      BY <1>3, <1>7, LeftSession DEF Typed
    <2>3. NoneSent
      BY <1>7, NoticePosted, TaskTypes DEF NoneSent, Posting, LobbyTaskType
    <2>4. ASSUME NEW j \in Key, OnTheWay(j) PROVE OnTheWay(j)'
      <3>1. \A r \in RoomKeys : ~Sits(r, j)'
        BY <1>7, <2>4, SitsStays DEF OnTheWay
      <3> QED
        BY <1>1, <2>2, <2>4, <3>1, LeftWay
    <2>5. EnterHere'
      BY <1>4, <2>3, <2>4, EnterRest DEF Typed, Placed
    <2> QED
      BY <1>1, <1>3, <1>7, <2>1, <2>2, <2>5, UnseatedStep
  <1> QED
    BY <1>2, <1>3, <1>5, <1>6, <1>7 DEF FinalizeInRoom

----------------------------------------------------------------------------
(* The steps that make and delete rooms. *)

LEMMA DeletePlaced ==
  ASSUME Typed, Placed, NEW g \in GameThreads, DeleteRoom(g)
  PROVE  Placed'
  <1>1. UNCHANGED <<sess, conn, lobbyTasks, lpc, ltask, rooms>>
    BY DEF DeleteRoom, sessVars, threadVars
  <1>2. lifeTasks \in Seq(LifecycleTask) /\ lifeTasks # <<>> /\ Head(lifeTasks).type = "DELETE_ROOM"
        /\ lifeTasks' = Tail(lifeTasks)
    BY DEF DeleteRoom, Typed, GameOK
  <1>3. Head(lifeTasks) \in LifecycleTask /\ Head(lifeTasks) \in TasksOf(lifeTasks)
        /\ TasksOf(Tail(lifeTasks)) \subseteq TasksOf(lifeTasks)
    BY <1>2, QueueFacts
  <1>4. PICK i \in RoomIndices : Head(lifeTasks) = [type |-> "DELETE_ROOM", index |-> i]
    BY <1>2, <1>3 DEF LifecycleTask
  <1>5. Head(lifeTasks).index = i
    BY <1>4
  <1>6. PICK r \in RoomKeys : roomAt[i] = r /\ rooms[r].state = "DELETE_POST"
    BY <1>3, <1>4 DEF Placed, DeleteHere, DeleteAt
  <1>7. \A j \in RoomIndices : roomAt'[j] = IF j = i THEN NoRoom ELSE roomAt[j]
    BY <1>5 DEF DeleteRoom, Typed, TableOK
  <1>8. ModesStay /\ RoomsStay /\ NoneTaken /\ NoneSent
    BY <1>1, ModesStayed, RoomsStayed, NoneTakenBy, NoneSentBy DEF Typed
  <1>9. SeatsHere'
    BY <1>1, <1>8, SeatsRest DEF Typed, Placed
  <1>10. TableHere'
    <2>1. ASSUME NEW q \in RoomKeys, Used(q), rooms[q].state # "DELETE_POST" PROVE roomAt'[rooms[q].index] = q
      <3>1. rooms[q].index \in RoomIndices
        BY <2>1 DEF Typed, RoomsOK, RoomOK, LifeOK, Used
      <3>2. roomAt[rooms[q].index] = q
        BY <2>1 DEF Placed, TableHere
      <3>3. rooms[q].index # i
        BY <1>6, <2>1, <3>2
      <3> QED
        BY <1>7, <3>1, <3>2, <3>3
    <2>2. ASSUME NEW j \in RoomIndices, NEW q \in RoomKeys, roomAt'[j] = q PROVE Used(q) /\ rooms[q].index = j
      <3>1. roomAt[j] = q
        BY <1>7, <2>2, NamesAssumption
      <3> QED
        BY <3>1 DEF Placed, TableHere
    <2> QED
      BY <1>1, <2>1, <2>2 DEF TableHere, Used
  <1>11. HostHere'
    BY <1>1 DEF Placed, HostHere, AcceptsTasks, Sits, Seated
  <1>12. DeleteHere'
    <2>1. OnceDeleted(lifeTasks')
      BY <1>2, DeletedTail DEF Placed, DeleteHere
    <2>2. ASSUME NEW j \in RoomIndices, [type |-> "DELETE_ROOM", index |-> j] \in TasksOf(lifeTasks') PROVE DeleteAt(j)'
      <3>1. [type |-> "DELETE_ROOM", index |-> j].type = "DELETE_ROOM" /\ [type |-> "DELETE_ROOM", index |-> j].index = j
        OBVIOUS
      <3>2. j # i
        BY <1>2, <1>5, <2>2, <3>1, DeletedTail DEF Placed, DeleteHere
      <3>3. PICK q \in RoomKeys : roomAt[j] = q /\ rooms[q].state = "DELETE_POST"
        BY <1>2, <1>3, <2>2 DEF Placed, DeleteHere, DeleteAt
      <3> QED
        BY <1>1, <1>7, <3>2, <3>3 DEF DeleteAt
    <2> QED
      BY <2>1, <2>2 DEF DeleteHere
  <1>13. EnterHere'
    <2>1. \A k \in Key : OnTheWay(k) => OnTheWay(k)'
      BY <1>1, <1>8, WayStays
    <2> QED
      BY <1>8, <2>1, EnterRest DEF Typed, Placed
  <1> QED
    BY <1>9, <1>10, <1>11, <1>12, <1>13 DEF Placed

\* A session of the lobby gets a seat in room r.
LEMMA SeatTaken ==
  ASSUME Typed, Placed, NEW k \in Key, Found(k), sess[k[1]].mode = "LOBBY", NEW r \in RoomKeys, NEW i \in RoomIndices,
         \A s \in Slots \ {k[1]} : sess'[s] = sess[s],
         sess'[k[1]].id = sess[k[1]].id, sess'[k[1]].life = sess[k[1]].life,
         sess'[k[1]].mode = "ROOM", sess'[k[1]].room = i, UNCHANGED conn,
         \A q \in RoomKeys \ {r} : rooms'[q] = rooms[q], rooms'[r].index = i,
         \A j \in Key : Sits(r, j)' => j = k \/ (Sits(r, j) /\ rooms[r].index = i), NoneTaken, NoneSent
  PROVE  SeatsHere' /\ EnterHere'
  <1>1. k[1] \in Slots /\ Unseated(k[1])
    BY KeyFacts, NoSeat
  <1>2. \A q \in RoomKeys \ {r}, j \in Key : Sits(q, j)' <=> Sits(q, j)
    BY SitsStays
  <1>3. SeatsHere'
    <2> SUFFICES ASSUME NEW q \in RoomKeys, NEW j \in Key, Sits(q, j)'
                 PROVE  Found(j)' /\ InRoom(j, rooms[q].index)'
      BY DEF SeatsHere
    <2>1. CASE q = r /\ j = k
      BY <2>1 DEF Found, InRoom
    <2>2. CASE ~(q = r /\ j = k)
      <3>1. Sits(q, j) /\ rooms'[q].index = rooms[q].index
        BY <1>2, <2>2
      <3>2. Found(j) /\ InRoom(j, rooms[q].index) /\ j[1] \in Slots \ {k[1]}
        BY <1>1, <3>1, KeyFacts DEF Placed, SeatsHere, Unseated
      <3> QED
        BY <3>1, <3>2 DEF Found, InRoom
    <2> QED
      BY <2>1, <2>2
  <1>4. ASSUME NEW j \in Key, OnTheWay(j) PROVE OnTheWay(j)'
    <2>1. ~(j[1] = k[1] /\ Found(j))
      BY <1>4 DEF OnTheWay
    <2>2. j # k
      BY <2>1
    <2>3. \A q \in RoomKeys : ~Sits(q, j)'
      BY <1>2, <1>4, <2>2 DEF OnTheWay
    <2>4. j[1] \in Slots
      BY KeyFacts
    <2> QED
      BY <1>4, <2>1, <2>3, <2>4 DEF OnTheWay, Found
  <1>5. EnterHere'
    BY <1>4, EnterRest DEF Typed, Placed
  <1> QED
    BY <1>3, <1>5

LEMMA CreatePlaced ==
  ASSUME Typed, Placed, NEW g \in GameThreads, NEW r \in RoomKeys, NEW i \in RoomIndices,
         NEW max \in {1, Cardinality(Seats)}, CreateRoom(g, r, i, max)
  PROVE  Placed'
  <1>1. UNCHANGED <<conn, lobbyTasks, lpc, ltask, lifeTasks>>
    BY DEF CreateRoom, threadVars
  <1>2. PICK k \in Key : k = gkey[g] /\ k[1] \in Slots
    BY KeyFacts DEF CreateRoom, Typed, GameOK
  <1>3. Found(k) /\ sess[k[1]].mode = "LOBBY" /\ sess[k[1]] \in Session
    BY <1>2 DEF CreateRoom, IsActive, Typed, SessOK
  <1> DEFINE x == [sess[k[1]] EXCEPT !.mode = "ROOM", !.room = i, !.right = TRUE]
  <1>4. x.id = sess[k[1]].id /\ x.life = sess[k[1]].life /\ x.mode = "ROOM" /\ x.room = i
        /\ sess' = [sess EXCEPT ![k[1]] = x]
    BY <1>2, <1>3 DEF CreateRoom, Session
  <1> HIDE DEF x
  <1>5. sess'[k[1]] = x /\ \A q \in Slots \ {k[1]} : sess'[q] = sess[q]
    BY <1>2, <1>4, RightIn DEF Typed
  <1>6. rooms' = [rooms EXCEPT ![r] = MadeRoom(i, max, k)] /\ rooms[r] = NewRoom
    BY <1>2, CreateRoomStep DEF Typed
  <1>7. rooms'[r] = MadeRoom(i, max, k) /\ \A q \in RoomKeys \ {r} : rooms'[q] = rooms[q]
    BY <1>6 DEF Typed, RoomsOK
  <1>8. rooms'[r].index = i /\ rooms'[r].state = "EMPTY" /\ rooms'[r].pc = "init"
    BY <1>7 DEF MadeRoom
  <1>9. \A j \in Key : Sits(r, j)' => j = k
    <2>1. \A n \in Seats : rooms'[r].seats[n] = IF n = 1 THEN [state |-> "PENDING", key |-> k] ELSE EmptySeat
      BY <1>7 DEF MadeRoom
    <2>2. \A n \in Seats : rooms'[r].seats[n].state # "EMPTY" => rooms'[r].seats[n].key = k
      BY <2>1 DEF EmptySeat
    <2> QED
      BY <2>2 DEF Sits, Seated
  <1>10. NoneTaken /\ NoneSent
    BY <1>1, NoneTakenBy, NoneSentBy DEF Typed
  <1>11. SeatsHere' /\ EnterHere'
    BY <1>1, <1>2, <1>3, <1>4, <1>5, <1>7, <1>8, <1>9, <1>10, SeatTaken
  <1>12. ~Used(r) /\ roomAt[i] = NoRoom /\ \A j \in RoomIndices : roomAt'[j] = IF j = i THEN r ELSE roomAt[j]
    BY <1>6 DEF CreateRoom, Typed, TableOK, Used, NewRoom
  <1>13. TableHere'
    <2>1. ASSUME NEW q \in RoomKeys, Used(q)', rooms'[q].state # "DELETE_POST" PROVE roomAt'[rooms'[q].index] = q
      <3>1. CASE q = r
        BY <1>8, <1>12, <3>1
      <3>2. CASE q # r
        <4>1. rooms'[q] = rooms[q] /\ Used(q)
          BY <1>7, <2>1, <3>2 DEF Used
        <4>2. rooms[q].index \in RoomIndices /\ roomAt[rooms[q].index] = q
          BY <2>1, <4>1 DEF Typed, RoomsOK, RoomOK, LifeOK, Used, Placed, TableHere
        <4>3. rooms[q].index # i
          BY <1>12, <4>2, NamesAssumption
        <4> QED
          BY <1>12, <4>1, <4>2, <4>3
      <3> QED
        BY <3>1, <3>2
    <2>2. ASSUME NEW j \in RoomIndices, NEW q \in RoomKeys, roomAt'[j] = q PROVE Used(q)' /\ rooms'[q].index = j
      <3>1. CASE j = i
        BY <1>8, <1>12, <2>2, <3>1 DEF Used
      <3>2. CASE j # i
        <4>1. Used(q) /\ rooms[q].index = j
          BY <1>12, <2>2, <3>2 DEF Placed, TableHere
        <4>2. q # r
          BY <1>12, <4>1
        <4> QED
          BY <1>7, <4>1, <4>2 DEF Used
      <3> QED
        BY <3>1, <3>2
    <2> QED
      BY <2>1, <2>2 DEF TableHere
  <1>14. HostHere'
    <2> SUFFICES ASSUME NEW q \in RoomKeys, AcceptsTasks(q)' PROVE Sits(q, rooms[q].host)'
      BY DEF HostHere
    <2>1. q # r /\ rooms'[q] = rooms[q]
      BY <1>7, <1>8 DEF AcceptsTasks
    <2> QED
      BY <2>1 DEF Placed, HostHere, AcceptsTasks, Sits, Seated
  <1>15. DeleteHere'
    <2>1. ASSUME NEW j \in RoomIndices, [type |-> "DELETE_ROOM", index |-> j] \in TasksOf(lifeTasks) PROVE DeleteAt(j)'
      <3>1. PICK q \in RoomKeys : roomAt[j] = q /\ rooms[q].state = "DELETE_POST"
        BY <2>1 DEF Placed, DeleteHere, DeleteAt
      <3>2. q # r /\ j # i
        BY <1>12, <3>1, NamesAssumption DEF Placed, TableHere
      <3> QED
        BY <1>7, <1>12, <3>1, <3>2 DEF DeleteAt
    <2> QED
      BY <1>1, <2>1 DEF Placed, DeleteHere
  <1> QED
    BY <1>11, <1>13, <1>14, <1>15 DEF Placed

LEMMA CompletePlaced ==
  ASSUME Typed, Placed, NEW g \in GameThreads, CompleteRoomInitialization(g)
  PROVE  Placed'
  <1>1. UNCHANGED <<conn, lobbyTasks, lpc, ltask, lifeTasks, roomAt>>
    BY DEF CompleteRoomInitialization, threadVars
  <1>2. PICK r \in RoomKeys : r = groom[g] /\ rooms[r].pc = "init" /\ rooms[r].seats[1].key = gkey[g]
                              /\ rooms[r].host = gkey[g] /\ gkey[g][1] \in Slots
    BY KeyFacts DEF CompleteRoomInitialization, Typed, MakersOK, GameOK
  <1> DEFINE v == ReadyRoom(rooms[r])
  <1>3. RoomOK(rooms[r]) /\ 1 \in Seats
    BY SeatFacts DEF Typed, RoomsOK
  <1>4. /\ RoomOK(v) /\ v.pc = "idle" /\ v.state = "WAIT" /\ Taken(v.seats) = {1}
        /\ \A n \in Seats : v.seats[n].key = rooms[r].seats[n].key
        /\ v.index = rooms[r].index /\ v.host = rooms[r].host
    BY <1>2, <1>3, ReadyRoomOK
  <1>5. Taken(rooms[r].seats) = {1} /\ rooms[r].state = "EMPTY"
    BY <1>2, <1>3 DEF RoomOK, LifeOK
  <1>6. rooms' = [rooms EXCEPT ![r] = v]
    BY <1>2, CompleteStep DEF Typed
  <1> HIDE DEF v
  <1>7. rooms'[r] = v /\ \A q \in RoomKeys \ {r} : rooms'[q] = rooms[q]
    BY <1>6 DEF Typed, RoomsOK
  <1>8. \A q \in RoomKeys : \A k : Sits(q, k)' <=> Sits(q, k)
    <2>1. \A q \in RoomKeys \ {r} : \A k : Sits(q, k)' <=> Sits(q, k)
      BY <1>7, SitsStays
    <2>2. \A k : \A n \in Seats : n \in Seated(r, k)' <=> n = 1 /\ v.seats[n].key = k
      BY <1>4, <1>7 DEF Seated, Taken
    <2>3. \A k : \A n \in Seats : n \in Seated(r, k) <=> n = 1 /\ rooms[r].seats[n].key = k
      BY <1>5 DEF Seated, Taken
    <2>4. \A k : Seated(r, k)' \subseteq Seats /\ Seated(r, k) \subseteq Seats
      BY DEF Seated
    <2>5. \A k : Sits(r, k)' <=> Sits(r, k)
      BY <1>4, <2>2, <2>3, <2>4 DEF Sits
    <2> QED
      BY <2>1, <2>5
  <1>9. ModesStay /\ NoneTaken /\ NoneSent /\ DeletesStay
    BY <1>1, <1>2, ModesStayed, NoneTakenBy, NoneSentBy, DeletesStayed DEF Typed, Placed, CompleteRoomInitialization
  <1>10. SeatsHere'
    <2> SUFFICES ASSUME NEW q \in RoomKeys, NEW k \in Key, Sits(q, k)'
                 PROVE  Found(k)' /\ InRoom(k, rooms[q].index)'
      BY DEF SeatsHere
    <2>1. Sits(q, k) /\ k[1] \in Slots /\ rooms'[q].index = rooms[q].index
      BY <1>4, <1>7, <1>8, KeyFacts
    <2>2. Found(k) /\ InRoom(k, rooms[q].index)
      BY <2>1 DEF Placed, SeatsHere
    <2> QED
      BY <1>9, <2>1, <2>2 DEF ModesStay, Found, InRoom
  <1>11. \A q \in RoomKeys : /\ rooms'[q].index = rooms[q].index /\ (Used(q)' <=> Used(q))
                             /\ rooms[q].state = "DELETE_POST" => rooms'[q].state = "DELETE_POST"
    BY <1>2, <1>4, <1>5, <1>7 DEF Used
  <1>12. TableHere' /\ DeleteHere'
    BY <1>1, <1>9, <1>11, TableRest, DeletesRest DEF Typed, Placed
  <1>13. HostHere'
    <2> SUFFICES ASSUME NEW q \in RoomKeys, AcceptsTasks(q)', NEW h, h = rooms'[q].host PROVE Sits(q, h)'
      BY DEF HostHere, Sits, Seated
    <2>1. CASE q = r
      <3>1. 1 \in Seated(r, h)
        BY <1>2, <1>3, <1>4, <1>5, <1>7, <2>1 DEF Seated, Taken
      <3> QED
        BY <1>8, <2>1, <3>1 DEF Sits
    <2>2. CASE q # r
      <3>1. Sits(q, h)
        BY <1>7, <2>2 DEF Placed, HostHere, AcceptsTasks
      <3> QED
        BY <1>8, <3>1
    <2> QED
      BY <2>1, <2>2
  <1>14. EnterHere'
    <2>1. ASSUME NEW k \in Key, OnTheWay(k) PROVE OnTheWay(k)'
      <3>1. k[1] \in Slots
        BY KeyFacts
      <3> QED
        BY <1>1, <1>8, <1>9, <2>1, <3>1 DEF OnTheWay, ModesStay, Found
    <2> QED
      BY <1>9, <2>1, EnterRest DEF Typed, Placed
  <1> QED
    BY <1>10, <1>12, <1>13, <1>14 DEF Placed

----------------------------------------------------------------------------
(* The steps of a room that seat and unseat players. *)

LEMMA PostPlaced ==
  ASSUME Typed, Placed, NEW r \in RoomKeys, EndRoomTasks(r)
  PROVE  Placed'
  <1>1. UNCHANGED <<sess, conn, lobbyTasks, lpc, ltask, roomAt>>
    BY DEF EndRoomTasks, sessVars, threadVars
  <1>2. ModesStay /\ NoneTaken /\ NoneSent
    BY <1>1, ModesStayed, NoneTakenBy, NoneSentBy DEF Typed
  <1>3. CASE QuietKept(r) /\ UNCHANGED lifeTasks
    <2>1. RoomsStay /\ DeletesStay
      BY <1>3, RoomsStayed, DeletesStayed DEF Typed, Placed
    <2> QED
      BY <1>1, <1>2, <2>1, RestStep
  <1>4. ASSUME NEW v, Posted(rooms[r], v), rooms' = [rooms EXCEPT ![r] = v],
               lifeTasks' = Append(lifeTasks, [type |-> "DELETE_ROOM", index |-> rooms[r].index])
        PROVE  Placed'
    <2> DEFINE i == rooms[r].index
               x == [type |-> "DELETE_ROOM", index |-> i]
    <2>1. rooms'[r] = v /\ \A q \in RoomKeys \ {r} : rooms'[q] = rooms[q]
      BY <1>4 DEF Typed, RoomsOK
    <2>2. /\ v.seats = rooms[r].seats /\ v.index = i /\ v.host = rooms[r].host
          /\ v.pc # "unused" /\ Used(r) /\ rooms[r].state = "WAITING_DELETE" /\ v.state = "DELETE_POST"
      BY <1>4 DEF Posted, Used
    <2>3. i \in RoomIndices /\ roomAt[i] = r
      BY <2>2 DEF Typed, RoomsOK, RoomOK, LifeOK, Used, Placed, TableHere
    <2> HIDE DEF i
    <2>4. \A q \in RoomKeys : /\ rooms'[q].seats = rooms[q].seats /\ rooms'[q].index = rooms[q].index
                              /\ rooms'[q].host = rooms[q].host /\ (AcceptsTasks(q)' <=> AcceptsTasks(q))
                              /\ (Used(q)' <=> Used(q))
                              /\ rooms[q].state = "DELETE_POST" => rooms'[q].state = "DELETE_POST"
      BY <2>1, <2>2 DEF AcceptsTasks, Used, i
    <2>5. SeatsHere'
      BY <1>2, <2>4, SeatsRest DEF Typed, Placed
    <2>6. TableHere'
      BY <1>1, <2>4, TableRest DEF Typed, Placed
    <2>7. HostHere'
      <3>1. \A q \in RoomKeys : \A k : Sits(q, k)' <=> Sits(q, k)
        BY <2>4, SitsStays
      <3> QED
        BY <2>4, <3>1 DEF Placed, HostHere
    <2>8. ASSUME NEW j \in RoomIndices, DeleteAt(j) PROVE DeleteAt(j)' /\ j # i
      <3>1. PICK q \in RoomKeys : roomAt[j] = q /\ rooms[q].state = "DELETE_POST"
        BY <2>8 DEF DeleteAt
      <3>2. q # r
        BY <2>2, <3>1
      <3> QED
        BY <1>1, <2>3, <2>4, <3>1, <3>2 DEF DeleteAt
    <2>9. lifeTasks \in Seq(LifecycleTask) /\ x \in LifecycleTask /\ x.type = "DELETE_ROOM" /\ x.index = i
      BY <2>3 DEF Typed, GameOK, LifecycleTask
    <2> HIDE DEF x
    <2>10. lifeTasks' = Append(lifeTasks, x) /\ TasksOf(lifeTasks') = TasksOf(lifeTasks) \cup {x}
      BY <1>4, <2>9, QueueFacts DEF x, i
    <2>11. ASSUME NEW y \in TasksOf(lifeTasks), y.type = "DELETE_ROOM" PROVE y.index # i
      <3>1. y \in LifecycleTask
        BY <2>9, QueueFacts
      <3>2. PICK j \in RoomIndices : y = [type |-> "DELETE_ROOM", index |-> j]
        BY <2>11, <3>1 DEF LifecycleTask
      <3>3. y.index = j /\ j # i
        BY <2>8, <3>2 DEF Placed, DeleteHere
      <3> QED
        BY <3>3
    <2>12. DeleteHere'
      <3>1. OnceDeleted(lifeTasks')
        BY <2>9, <2>10, <2>11, DeletedAppend DEF Placed, DeleteHere
      <3>2. ASSUME NEW j \in RoomIndices, [type |-> "DELETE_ROOM", index |-> j] \in TasksOf(lifeTasks') PROVE DeleteAt(j)'
        <4>1. CASE [type |-> "DELETE_ROOM", index |-> j] \in TasksOf(lifeTasks)
          BY <2>8, <4>1 DEF Placed, DeleteHere
        <4>2. CASE [type |-> "DELETE_ROOM", index |-> j] = x
          <5>1. [type |-> "DELETE_ROOM", index |-> j].index = j
            OBVIOUS
          <5>2. j = i
            BY <2>9, <4>2, <5>1
          <5> QED
            BY <1>1, <2>1, <2>2, <2>3, <5>2 DEF DeleteAt
        <4> QED
          BY <2>10, <3>2, <4>1, <4>2
      <3> QED
        BY <3>1, <3>2 DEF DeleteHere
    <2>13. EnterHere'
      <3>1. \A k \in Key : OnTheWay(k) => OnTheWay(k)'
        BY <1>1, <1>2, <2>4, WayStays
      <3> QED
        BY <1>2, <3>1, EnterRest DEF Typed, Placed
    <2> QED
      BY <2>5, <2>6, <2>7, <2>12, <2>13 DEF Placed
  <1> QED
    BY <1>3, <1>4, EndRoomTasksStep DEF Typed

LEMMA JoinPlaced ==
  ASSUME Typed, Placed, NEW r \in RoomKeys, ProcessJoin(r)
  PROVE  Placed'
  <1>1. AtTask(r) /\ UNCHANGED <<conn, lpc, ltask, lifeTasks, roomAt>>
    BY DEF ProcessJoin, TaskReady, threadVars, gameVars
  <1>2. PICK task \in RoomTask : task = Head(rooms[r].tasks) /\ task.key \in Key /\ task.key[1] \in Slots
    BY <1>1, TaskAtHand DEF Typed
  <1>3. PICK k \in Key : k = task.key /\ k[1] \in Slots
    BY <1>2
  <1>4. task.match \in BOOLEAN
    BY <1>2 DEF RoomTask
  <1>5. NoneSent /\ NoneTaken /\ DeletesStay
    <2>1. \E ok \in BOOLEAN : lobbyTasks' = Append(lobbyTasks, TransitionResult(k, ok, task.match))
      BY <1>2, <1>3 DEF ProcessJoin
    <2> QED
      BY <1>1, <1>4, <2>1, AnswerSent, NoneTakenBy, DeletesStayed DEF Typed, Placed
  <1>6. CASE UNCHANGED sess /\ rooms' = [rooms EXCEPT ![r] = AfterTask(@)]
    BY <1>1, <1>5, <1>6, TaskRests
  <1>7. CASE /\ MayJoin(r, k)
             /\ rooms' = [rooms EXCEPT ![r] = SeatPlayer(AfterTask(rooms[r]), k)]
             /\ sess' = [sess EXCEPT ![k[1]] = [@ EXCEPT !.mode = "ROOM", !.room = rooms[r].index]]
    <2>1. PICK v : Joined(rooms[r], v, k) /\ rooms' = [rooms EXCEPT ![r] = v]
      BY <1>1, <1>7, JoinedStep DEF Typed
    <2>2. PICK n \in Seats \ Taken(rooms[r].seats) : v.seats = [rooms[r].seats EXCEPT ![n] = [state |-> "ACTIVE", key |-> k]]
      BY <2>1 DEF Joined
    <2>3. rooms'[r] = v /\ \A q \in RoomKeys \ {r} : rooms'[q] = rooms[q]
      BY <2>1 DEF Typed, RoomsOK
    <2>4. v.index = rooms[r].index /\ v.host = rooms[r].host /\ v.state = rooms[r].state /\ v.pc # "unused" /\ Used(r)
      BY <2>1 DEF Joined, Used
    <2>5. rooms[r].seats \in [Seats -> Seat] /\ rooms[r].index \in RoomIndices
      BY <2>4 DEF Typed, RoomsOK, RoomOK, LifeOK, Room, Used
    <2> DEFINE x == [sess[k[1]] EXCEPT !.mode = "ROOM", !.room = rooms[r].index]
    <2>6. x.id = sess[k[1]].id /\ x.life = sess[k[1]].life /\ x.mode = "ROOM" /\ x.room = rooms[r].index
          /\ sess' = [sess EXCEPT ![k[1]] = x]
      BY <1>3, <1>7 DEF Session, Typed, SessOK
    <2> HIDE DEF x
    <2>7. sess'[k[1]] = x /\ \A q \in Slots \ {k[1]} : sess'[q] = sess[q]
      BY <1>3, <2>6, RightIn DEF Typed
    <2>8. Found(k) /\ sess[k[1]].mode = "LOBBY"
      BY <1>7 DEF MayJoin, IsActive
    <2>9. \A m \in Seats : v.seats[m] = IF m = n THEN [state |-> "ACTIVE", key |-> k] ELSE rooms[r].seats[m]
      BY <2>2, <2>5
    <2>10. \A j \in Key : Sits(r, j)' => j = k \/ Sits(r, j)
      BY <2>3, <2>9 DEF Sits, Seated
    <2>11. \A j : Sits(r, j) => Sits(r, j)'
      <3>1. \A m \in Seats : rooms[r].seats[m].state # "EMPTY" => v.seats[m] = rooms[r].seats[m]
        BY <2>2, <2>9 DEF Taken
      <3> QED
        BY <2>3, <3>1 DEF Sits, Seated
    <2>12. SeatsHere' /\ EnterHere'
      BY <1>1, <1>3, <1>5, <2>3, <2>4, <2>5, <2>6, <2>7, <2>8, <2>10, SeatTaken
    <2>13. \A q \in RoomKeys : /\ rooms'[q].index = rooms[q].index /\ (Used(q)' <=> Used(q))
                               /\ rooms[q].state = "DELETE_POST" => rooms'[q].state = "DELETE_POST"
      BY <2>3, <2>4 DEF Used
    <2>14. TableHere' /\ DeleteHere'
      BY <1>1, <1>5, <2>13, TableRest, DeletesRest DEF Typed, Placed
    <2>15. HostHere'
      <3> SUFFICES ASSUME NEW q \in RoomKeys, AcceptsTasks(q)', NEW h, h = rooms'[q].host PROVE Sits(q, h)'
        BY DEF HostHere, Sits, Seated
      <3>1. Sits(q, h)
        BY <2>3, <2>4 DEF Placed, HostHere, AcceptsTasks
      <3>2. q # r => Sits(q, h)'
        BY <2>3, <3>1, SitsStays
      <3> QED
        BY <2>11, <3>1, <3>2
    <2> QED
      BY <2>12, <2>14, <2>15 DEF Placed
  <1> QED
    BY <1>2, <1>3, <1>6, <1>7 DEF ProcessJoin

\* Who is seated once k has left room r.
LEMMA LeftSeats ==
  ASSUME Typed, Placed, NEW r \in RoomKeys, NEW k \in Key, Sits(r, k), NEW v, Left(rooms[r], v, k),
         rooms' = [rooms EXCEPT ![r] = v]
  PROVE  \A q \in RoomKeys : \A j : Sits(q, j)' <=> Sits(q, j) /\ j # k
  <1>1. rooms'[r] = v /\ \A q \in RoomKeys \ {r} : rooms'[q] = rooms[q]
    BY DEF Typed, RoomsOK
  <1>2. \A n \in Seats : v.seats[n] = IF rooms[r].seats[n].key = k THEN EmptySeat ELSE rooms[r].seats[n]
    BY DEF Left, SeatsWithout
  <1>3. \A n \in Seats : /\ v.seats[n].state # "EMPTY" => v.seats[n] = rooms[r].seats[n] /\ rooms[r].seats[n].key # k
                         /\ rooms[r].seats[n].key # k => v.seats[n] = rooms[r].seats[n]
    BY <1>2 DEF EmptySeat
  <1>4. \A j : Sits(r, j)' <=> Sits(r, j) /\ j # k
    <2> SUFFICES ASSUME NEW j PROVE Sits(r, j)' <=> Sits(r, j) /\ j # k
      OBVIOUS
    <2>1. Sits(r, j)' => Sits(r, j) /\ j # k
      BY <1>1, <1>3 DEF Sits, Seated
    <2>2. Sits(r, j) /\ j # k => Sits(r, j)'
      BY <1>1, <1>3 DEF Sits, Seated
    <2> QED
      BY <2>1, <2>2
  <1>5. \A q \in RoomKeys \ {r} : \A j : Sits(q, j)' <=> Sits(q, j)
    BY <1>1, SitsStays
  <1>6. \A q \in RoomKeys \ {r} : ~Sits(q, k)
    BY OneRoom DEF Typed, Placed
  <1> QED
    BY <1>4, <1>5, <1>6

\* The host of a room that somebody has left.
LEMMA LeftHost ==
  ASSUME Typed, Placed, NEW r \in RoomKeys, NEW k \in Key, Sits(r, k), NEW v, Left(rooms[r], v, k),
         rooms' = [rooms EXCEPT ![r] = v], v.state # "WAITING_DELETE", AcceptsTasks(r)
  PROVE  Sits(r, v.host) /\ v.host # k
  <1>1. Sits(r, rooms[r].host) /\ Taken(v.seats) # {}
        /\ v.host = IF rooms[r].host = k THEN NewHost(v.seats, v.count, rooms[r].host) ELSE rooms[r].host
    BY DEF Placed, HostHere, Left
  <1>2. CASE rooms[r].host # k
    BY <1>1, <1>2
  <1>3. CASE rooms[r].host = k
    <2> DEFINE heirs == {n \in Seats : v.seats[n].state = "ACTIVE" /\ Found(v.seats[n].key)}
    <2>1. \A n \in Seats : v.seats[n] = IF rooms[r].seats[n].key = k THEN EmptySeat ELSE rooms[r].seats[n]
      BY DEF Left, SeatsWithout
    <2>2. \A n \in Taken(v.seats) : /\ n \in Seats /\ v.seats[n] = rooms[r].seats[n] /\ rooms[r].seats[n].key # k
                                    /\ rooms[r].seats[n].state # "EMPTY"
      BY <2>1 DEF Taken, EmptySeat
    <2>3. ASSUME NEW n \in Taken(v.seats) PROVE v.seats[n].key # k /\ Sits(r, v.seats[n].key) /\ n \in heirs
      <3>1. v.seats[n].key # k /\ Sits(r, v.seats[n].key)
        BY <2>2 DEF Sits, Seated
      <3>2. v.seats[n].key \in Key
        BY <2>2, TakenKey DEF Typed
      <3>3. Found(v.seats[n].key)
        BY <3>1, <3>2 DEF Placed, SeatsHere
      <3>4. v.seats[n].state = "ACTIVE"
        BY DEF Left, RoomOK, PlayersOK
      <3> QED
        BY <2>2, <3>1, <3>3, <3>4
    <2>4. heirs # {} /\ heirs \in SUBSET Seats /\ heirs \subseteq Taken(v.seats)
      BY <1>1, <2>3 DEF Taken
    <2>5. v.host = v.seats[MinSeat(heirs)].key
      BY <1>1, <1>3, <2>4 DEF NewHost
    <2> HIDE DEF heirs
    <2>6. MinSeat(heirs) \in Taken(v.seats)
      BY <2>4, FirstSeat
    <2> QED
      BY <2>3, <2>5, <2>6
  <1> QED
    BY <1>2, <1>3

\* Player k leaves room r; the lobby is asked to take it back, or not.
LEMMA LeftPlaced ==
  ASSUME Typed, Owned, Placed, NEW r \in RoomKeys, NEW k \in Key, Sits(r, k), NEW v, Left(rooms[r], v, k),
         rooms' = [rooms EXCEPT ![r] = v], UNCHANGED <<conn, roomAt, lifeTasks, lpc, ltask>>,
         \A q \in Slots \ {k[1]} : sess'[q] = sess[q],
         sess'[k[1]].id = sess[k[1]].id, sess'[k[1]].life = "NONE" <=> sess[k[1]].life = "NONE",
         sess'[k[1]].mode = sess[k[1]].mode \/ sess'[k[1]].mode = "NONE",
         NEW q, Posting(q), OnceIn(q, "ENTER_LOBBY"), \A x \in TasksOf(q) : x.type = "ENTER_LOBBY" => x.key = k
  PROVE  Placed'
  <1>1. rooms'[r] = v /\ \A p \in RoomKeys \ {r} : rooms'[p] = rooms[p]
    BY DEF Typed, RoomsOK
  <1>2. k[1] \in Slots /\ Used(r) /\ rooms[r].state \notin {"WAITING_DELETE", "DELETE_POST"}
        /\ Found(k) /\ sess[k[1]].mode = "ROOM"
    BY SeatOf DEF Typed, Placed, SeatsHere, InRoom
  <1>3. v.index = rooms[r].index /\ v.pc # "unused" /\ v.state \in {rooms[r].state, "WAITING_DELETE"}
    BY DEF Left
  <1>4. \A p \in RoomKeys : \A j : Sits(p, j)' <=> Sits(p, j) /\ j # k
    BY LeftSeats
  <1>5. \A p \in RoomKeys : /\ rooms'[p].index = rooms[p].index /\ (Used(p)' <=> Used(p))
                            /\ rooms[p].state = "DELETE_POST" => rooms'[p].state = "DELETE_POST"
    BY <1>1, <1>2, <1>3 DEF Used
  <1>6. NoneTaken /\ DeletesStay
    BY NoneTakenBy, DeletesStayed DEF Typed, Placed
  <1>7. SeatsHere'
    <2> SUFFICES ASSUME NEW p \in RoomKeys, NEW j \in Key, Sits(p, j)'
                 PROVE  Found(j)' /\ InRoom(j, rooms[p].index)'
      BY DEF SeatsHere
    <2>1. Sits(p, j) /\ j # k
      BY <1>4
    <2>2. j[1] # k[1]
      BY <2>1, OneOfSlot DEF Typed, Placed
    <2>3. Found(j) /\ InRoom(j, rooms[p].index) /\ sess'[j[1]] = sess[j[1]]
      BY <2>1, <2>2, KeyFacts DEF Placed, SeatsHere
    <2> QED
      BY <1>5, <2>3 DEF Found, InRoom
  <1>8. TableHere' /\ DeleteHere'
    BY <1>5, <1>6, TableRest, DeletesRest DEF Typed, Placed
  <1>9. HostHere'
    <2> SUFFICES ASSUME NEW p \in RoomKeys, AcceptsTasks(p)', NEW h, h = rooms'[p].host PROVE Sits(p, h)'
      BY DEF HostHere, Sits, Seated
    <2>1. CASE p = r
      <3>1. v.state # "WAITING_DELETE" /\ AcceptsTasks(r)
        BY <1>1, <1>3, <2>1 DEF AcceptsTasks
      <3>2. Sits(r, v.host) /\ v.host # k
        BY <3>1, LeftHost
      <3>3. h = v.host
        BY <1>1, <2>1
      <3> QED
        BY <1>4, <2>1, <3>2, <3>3
    <2>2. CASE p # r
      <3>1. Sits(p, h)
        BY <1>1, <2>2 DEF Placed, HostHere, AcceptsTasks
      <3>2. h # k
        BY <2>2, <3>1, OneRoom DEF Typed, Placed
      <3> QED
        BY <1>4, <3>1, <3>2
    <2> QED
      BY <2>1, <2>2
  <1>10. ~Flying("ENTER_LOBBY", k)
    BY DEF Placed, EnterHere, OnTheWay
  <1>11. /\ Waiting' \subseteq Waiting \cup TasksOf(q)
         /\ TasksOf(lobbyTasks') = TasksOf(lobbyTasks) \cup TasksOf(q)
         /\ \A t \in LobbyThreads : \A type : HasTask(t, type)' => HasTask(t, type) /\ ltask'[t] = ltask[t]
    BY <1>6, WaitingKept DEF Typed
  <1>12. Once("ENTER_LOBBY")'
    <2>1. \A x \in Waiting : x.type = "ENTER_LOBBY" => x.key # k
      BY <1>10 DEF Flying
    <2>2. \A x \in TasksOf(lobbyTasks) : x \in Waiting
      BY DEF Waiting
    <2>3. \A t \in LobbyThreads : HasTask(t, "ENTER_LOBBY") => ltask[t].key # k
      BY <2>1 DEF HasTask, Waiting
    <2>4. OnceIn(lobbyTasks', "ENTER_LOBBY")
      <3>1. \A x \in TasksOf(lobbyTasks), y \in TasksOf(q) : x.type = "ENTER_LOBBY" /\ y.type = "ENTER_LOBBY" => x.key # y.key
        BY <2>1, <2>2
      <3> QED
        BY <3>1, OnceConcat DEF Typed, QueueOK, Posting, Placed, EnterHere, Once
    <2>5. \A t, u \in LobbyThreads :
            HasTask(t, "ENTER_LOBBY")' /\ HasTask(u, "ENTER_LOBBY")' /\ ltask'[t].key = ltask'[u].key => t = u
      BY <1>11 DEF Placed, EnterHere, Once
    <2>6. \A t \in LobbyThreads, x \in TasksOf(lobbyTasks') :
            HasTask(t, "ENTER_LOBBY")' /\ x.type = "ENTER_LOBBY" => x.key # ltask'[t].key
      BY <1>11, <2>3 DEF Placed, EnterHere, Once
    <2> QED
      BY <2>4, <2>5, <2>6 DEF Once
  <1>13. ASSUME NEW j \in Key, Flying("ENTER_LOBBY", j)' PROVE OnTheWay(j)'
    <2>1. CASE j = k
      <3>1. k[2] <= conn[k[1]]
        BY <1>2 DEF Owned, Issued, Found
      <3>2. \A p \in RoomKeys : ~Sits(p, k)'
        BY <1>4
      <3>3. sess'[k[1]].mode \in {"ROOM", "NONE"}
        BY <1>2
      <3> QED
        BY <2>1, <3>1, <3>2, <3>3 DEF OnTheWay
    <2>2. CASE j # k
      <3>1. OnTheWay(j)
        BY <1>11, <1>13, <2>2 DEF Flying, Placed, EnterHere
      <3>2. \A p \in RoomKeys : ~Sits(p, j)'
        BY <1>4, <3>1 DEF OnTheWay
      <3> QED
        BY <3>1, <3>2, LeftWay
    <2> QED
      BY <2>1, <2>2
  <1>14. EnterHere'
    BY <1>12, <1>13 DEF EnterHere
  <1> QED
    BY <1>7, <1>8, <1>9, <1>14 DEF Placed

LEMMA LeavePlaced ==
  ASSUME Typed, Owned, Placed, NEW r \in RoomKeys, LeaveRoom(r)
  PROVE  Placed'
  <1>1. UNCHANGED <<sess, conn, roomAt, lifeTasks, lpc, ltask>>
    BY DEF LeaveRoom, sessVars, threadVars, gameVars
  <1>2. PICK k \in Key : k = SeatKey(r) /\ Sits(r, k)
    BY VisitedKey DEF Typed, LeaveRoom, Sits
  <1>3. PICK v : Left(rooms[r], v, k) /\ rooms' = [rooms EXCEPT ![r] = v]
    BY <1>2, LeaveRoomStep DEF Typed
  <1>4. rooms[r].index \in RoomIndices
    BY <1>2, SeatOf DEF Typed, RoomsOK, RoomOK, LifeOK, Used
  <1>5. PICK x \in LobbyTask : x.key = k /\ lobbyTasks' = Append(lobbyTasks, x)
    <2> DEFINE y == [LTask("ENTER_LOBBY", k) EXCEPT !.room = rooms[r].index]
    <2>1. y \in LobbyTask /\ y.key = k
      BY <1>4, TaskTypes DEF LobbyTaskType
    <2>2. lobbyTasks' = Append(lobbyTasks, y)
      BY <1>2 DEF LeaveRoom
    <2> QED
      BY <2>1, <2>2
  <1>6. Posting(<<x>>) /\ TasksOf(<<x>>) = {x}
    BY <1>5, PostOne DEF Typed
  <1>7. OnceIn(<<x>>, "ENTER_LOBBY")
    BY DEF OnceIn
  <1> QED
    BY <1>1, <1>2, <1>3, <1>5, <1>6, <1>7, LeftPlaced

LEMMA ToLobbyPlaced ==
  ASSUME Typed, Owned, Placed, NEW r \in RoomKeys, AtTask(r), NEW k \in Key, Seated(r, k) # {},
         \/ ToLobby(r, AfterTask(rooms[r]), k)
         \/ /\ rooms' = [rooms EXCEPT ![r] = RemovedFrom(AfterTask(rooms[r]), k)]
            /\ sess' = AfterRoomDisconnect(sess, k)
            /\ lobbyTasks' = lobbyTasks \o RoomDisconnectNotice(k),
         UNCHANGED <<conn, roomAt, lifeTasks, lpc, ltask>>
  PROVE  Placed'
  <1>0. sess' = AfterRoomDisconnect(sess, k) /\ rooms' = [rooms EXCEPT ![r] = RemovedFrom(AfterTask(rooms[r]), k)]
    BY DEF ToLobby
  <1>1. Sits(r, k)
    BY DEF Sits
  <1>2. PICK v : Left(rooms[r], v, k) /\ rooms' = [rooms EXCEPT ![r] = v]
    BY <1>0, RemovedStep DEF Typed
  <1>3. /\ \A q \in Slots \ {k[1]} : sess'[q] = sess[q]
        /\ sess'[k[1]].id = sess[k[1]].id /\ (sess'[k[1]].life = "NONE" <=> sess[k[1]].life = "NONE")
        /\ sess'[k[1]].mode = sess[k[1]].mode \/ sess'[k[1]].mode = "NONE"
    BY <1>0, LeftSession DEF Typed
  <1> DEFINE p == RoomDisconnectNotice(k)
  <1>4. p \in Seq(LobbyTask) /\ \A x \in TasksOf(p) : x.type # "ENTER_LOBBY"
    BY NoticePosted, TaskTypes DEF LobbyTaskType
  <1> HIDE DEF p
  <1>5. OnceIn(p, "ENTER_LOBBY")
    BY <1>4 DEF OnceIn, TasksOf
  <1>8. ASSUME NEW q, Posting(q), OnceIn(q, "ENTER_LOBBY"), \A x \in TasksOf(q) : x.type = "ENTER_LOBBY" => x.key = k
        PROVE  Placed'
    BY <1>1, <1>2, <1>3, <1>8, LeftPlaced
  <1>6. CASE ToLobby(r, AfterTask(rooms[r]), k)
    <2>1. PICK x \in LobbyTask : x.key = k /\ Posting(p \o <<x>>) /\ TasksOf(p \o <<x>>) = TasksOf(p) \cup {x}
      BY <1>6, ToLobbyPosts DEF p
    <2>2. OnceIn(p \o <<x>>, "ENTER_LOBBY")
      <3>1. OnceIn(<<x>>, "ENTER_LOBBY") /\ <<x>> \in Seq(LobbyTask)
        BY DEF OnceIn
      <3> QED
        BY <1>4, <1>5, <3>1, OnceConcat
    <2>3. \A y \in TasksOf(p \o <<x>>) : y.type = "ENTER_LOBBY" => y.key = k
      BY <1>4, <2>1
    <2> QED
      BY <1>8, <2>1, <2>2, <2>3
  <1>7. CASE lobbyTasks' = lobbyTasks \o p
    <2>1. Posting(p)
      BY <1>4, <1>7 DEF Posting
    <2> QED
      BY <1>4, <1>5, <1>8, <2>1
  <1> QED
    BY <1>6, <1>7 DEF p

LEMMA TaskPlaced ==
  ASSUME Typed, Owned, Placed, NEW r \in RoomKeys, ProcessRoomTask(r)
  PROVE  Placed'
  <1>1. CASE ProcessJoin(r)
    BY <1>1, JoinPlaced
  <1>2. CASE ProcessStart(r) \/ ProcessGiveUp(r)
    BY <1>2, TickRests
  <1>3. CASE ProcessRemove(r) \/ ProcessKick(r)
    <2>1. AtTask(r) /\ UNCHANGED <<conn, roomAt, lifeTasks, lpc, ltask>>
      BY <1>3 DEF ProcessRemove, ProcessKick, TaskReady, threadVars, gameVars
    <2>2. CASE rooms' = [rooms EXCEPT ![r] = AfterTask(@)] /\ UNCHANGED <<sess, lobbyTasks>>
      <3>1. NoneSent
        BY <2>2, NoneSentBy DEF Typed
      <3> QED
        BY <2>1, <2>2, <3>1, TaskRests
    <2>3. PICK k \in Key : k = Head(rooms[r].tasks).key
      BY <2>1, TaskAtHand DEF Typed
    <2>4. CASE /\ Seated(r, k) # {}
               /\ \/ ToLobby(r, AfterTask(rooms[r]), k)
                  \/ /\ rooms' = [rooms EXCEPT ![r] = RemovedFrom(AfterTask(rooms[r]), k)]
                     /\ sess' = AfterRoomDisconnect(sess, k)
                     /\ lobbyTasks' = lobbyTasks \o RoomDisconnectNotice(k)
      BY <2>1, <2>4, ToLobbyPlaced
    <2>5. ASSUME NEW c \in KickTarget(r, Head(rooms[r].tasks)), ToLobby(r, AfterTask(rooms[r]), c) PROVE Placed'
      BY <2>1, <2>5, TargetKey, ToLobbyPlaced DEF Typed
    <2>6. CASE ProcessRemove(r)
      <3>1. SeatActive(r, k) => Seated(r, k) # {}
        BY DEF SeatActive
      <3> QED
        BY <2>2, <2>3, <2>4, <2>6, <3>1 DEF ProcessRemove
    <2>7. CASE ProcessKick(r)
      BY <2>2, <2>5, <2>7 DEF ProcessKick
    <2> QED
      BY <1>3, <2>6, <2>7
  <1> QED
    BY <1>1, <1>2, <1>3 DEF ProcessRoomTask

----------------------------------------------------------------------------
(* Sessions and rooms agree. *)

LEMMA PlacedInit == Init => Placed
  <1> SUFFICES ASSUME Init PROVE Placed
    OBVIOUS
  <1>1. TasksOf(lobbyTasks) = {} /\ Waiting = {} /\ TasksOf(lifeTasks) = {}
    BY DEF Init, TasksOf, Waiting
  <1>2. \A r \in RoomKeys : rooms[r] = NewRoom
    BY DEF Init
  <1>3. \A r \in RoomKeys, n \in Seats : rooms[r].seats[n].state = "EMPTY"
    BY <1>2 DEF NewRoom, EmptySeat
  <1>4. SeatsHere
    BY <1>3 DEF SeatsHere, Sits, Seated
  <1>5. TableHere
    BY <1>2, NamesAssumption DEF Init, TableHere, Used, NewRoom
  <1>6. HostHere
    BY <1>2 DEF HostHere, AcceptsTasks, NewRoom
  <1>7. DeleteHere
    BY <1>1 DEF Init, DeleteHere, OnceDeleted
  <1>8. EnterHere
    BY <1>1 DEF Init, EnterHere, Flying, Once, OnceIn, HasTask
  <1> QED
    BY <1>4, <1>5, <1>6, <1>7, <1>8 DEF Placed

LEMMA PlacedNext == Typed /\ Sorted /\ Owned /\ Placed /\ [Next]_vars => Placed'
  <1> SUFFICES ASSUME Typed, Sorted, Owned, Placed, [Next]_vars PROVE Placed'
    OBVIOUS
  <1>1. CASE UNCHANGED vars \/ StartLobbyPhase \/ EndLobbyTasks
    BY <1>1, PhaseRests
  <1>2. ASSUME NEW s \in Slots, AcquireSession(s) \/ CompleteSessionIO(s) PROVE Placed'
    BY <1>2, AcquirePlaced, NetworkRests
  <1>3. ASSUME NEW t \in LobbyThreads, LobbyTaskStep(t) PROVE Placed'
    BY <1>3, DequeuePlaced, QueueRests, EnterPlaced, ThreadRests, RemovalPlaced, FreePlaced DEF LobbyTaskStep
  <1>4. ASSUME NEW t \in LobbyThreads, LobbyRequest(t) PROVE Placed'
    BY <1>4, LoginPlaced, RequestRests DEF LobbyRequest
  <1>5. ASSUME NEW t \in LobbyThreads, EndVisit(t) \/ \E s \in Slots : VisitSession(t, s) PROVE Placed'
    BY <1>5, ThreadRests
  <1>6. ASSUME NEW g \in GameThreads, CreateStep(g) PROVE Placed'
    BY <1>6, DeletePlaced, CreateRests, CompletePlaced, CreatePlaced DEF CreateStep
  <1>7. ASSUME NEW r \in RoomKeys, ProcessRoomTask(r) PROVE Placed'
    BY <1>7, TaskPlaced
  <1>8. ASSUME NEW r \in RoomKeys,
               BeginTick(r) \/ ClaimTasks(r) \/ KeepPending(r) \/ VisitSeat(r) \/ EndSeatVisit(r) \/ PlayTick(r)
        PROVE  Placed'
    BY <1>8, TickRests
  <1>9. ASSUME NEW r \in RoomKeys, EndRoomTasks(r) PROVE Placed'
    BY <1>9, PostPlaced
  <1>10. ASSUME NEW r \in RoomKeys, RoomRequest(r) PROVE Placed'
    BY <1>10, LeavePlaced, TickRests DEF RoomRequest
  <1> QED
    BY <1>1, <1>2, <1>3, <1>4, <1>5, <1>6, <1>7, <1>8, <1>9, <1>10 DEF Next, RoomTaskStep

LEMMA PlacedConsistent == Typed /\ Placed => RoomsConsistent
  <1> SUFFICES ASSUME Typed, Placed PROVE RoomsConsistent
    OBVIOUS
  <1>1. ASSUME NEW r \in RoomKeys, NEW n \in Seats, rooms[r].seats[n].state # "EMPTY", NEW k, k = rooms[r].seats[n].key
        PROVE  /\ Found(k) /\ InRoom(k, rooms[r].index) /\ roomAt[rooms[r].index] = r /\ ~InLobby(k)
               /\ \A q \in RoomKeys, m \in Seats : rooms[q].seats[m].key = k => q = r /\ m = n
    <2>1. Sits(r, k) /\ k \in Key
      BY <1>1, TakenKey DEF Sits, Seated, Typed
    <2>2. Found(k) /\ InRoom(k, rooms[r].index)
      BY <2>1 DEF Placed, SeatsHere
    <2>3. roomAt[rooms[r].index] = r
      BY <2>1, SeatOf DEF Typed, Placed, TableHere
    <2>4. ~InLobby(k)
      BY <2>2 DEF InLobby, InRoom
    <2>5. ASSUME NEW q \in RoomKeys, NEW m \in Seats, rooms[q].seats[m].key = k PROVE q = r /\ m = n
      <3>1. rooms[q].seats[m] \in Seat
        BY DEF Typed, RoomsOK, Room
      <3>2. rooms[q].seats[m].state # "EMPTY"
        BY <2>1, <2>5, <3>1, NamesAssumption DEF Seat, EmptySeat
      <3>3. Sits(q, k)
        BY <2>5, <3>2 DEF Sits, Seated
      <3>4. q = r
        BY <2>1, <3>3, OneRoom DEF Typed, Placed
      <3>5. m \in Taken(rooms[r].seats) /\ n \in Taken(rooms[r].seats)
        BY <1>1, <3>2, <3>4 DEF Taken
      <3>6. m = n
        BY <1>1, <2>5, <3>4, <3>5 DEF Typed, RoomsOK, RoomOK, PlayersOK
      <3> QED
        BY <3>4, <3>6
    <2> QED
      BY <2>2, <2>3, <2>4, <2>5
  <1>2. SeatsAgree
    BY <1>1 DEF SeatsAgree
  <1>3. ASSUME NEW r \in RoomKeys, Used(r)
        PROVE  /\ rooms[r].count = Cardinality({n \in Seats : rooms[r].seats[n].state # "EMPTY"})
               /\ AcceptsTasks(r) => Seated(r, rooms[r].host) # {}
    <2>1. rooms[r].count = Cardinality({n \in Seats : rooms[r].seats[n].state # "EMPTY"})
      BY DEF Typed, RoomsOK, RoomOK, PlayersOK, Taken
    <2> QED
      BY <2>1 DEF Placed, HostHere, Sits
  <1>4. HostSeated
    BY <1>3 DEF HostSeated
  <1> QED
    BY <1>2, <1>4, TypedTypeOK DEF RoomsConsistent

LEMMA PlacedDeletes == Typed /\ Placed => DeletesOwnRoom
  <1> SUFFICES ASSUME Typed, Placed PROVE DeletesOwnRoom
    OBVIOUS
  <1>1. ASSUME NEW task \in TasksOf(lifeTasks), task.type = "DELETE_ROOM"
        PROVE  /\ roomAt[task.index] # NoRoom
               /\ rooms[roomAt[task.index]].state = "DELETE_POST" /\ rooms[roomAt[task.index]].count = 0
               /\ rooms[roomAt[task.index]].tasks = <<>>
    <2>1. task \in LifecycleTask
      BY QueueFacts DEF Typed, GameOK
    <2>2. PICK i \in RoomIndices : task = [type |-> "DELETE_ROOM", index |-> i]
      BY <1>1, <2>1 DEF LifecycleTask
    <2>3. task.index = i
      BY <2>2
    <2>4. PICK r \in RoomKeys : roomAt[i] = r /\ rooms[r].state = "DELETE_POST"
      BY <2>2 DEF Placed, DeleteHere, DeleteAt
    <2>5. Taken(rooms[r].seats) = {} /\ rooms[r].tasks = <<>> /\ rooms[r].count = Cardinality(Taken(rooms[r].seats))
      BY <2>4 DEF Typed, RoomsOK, RoomOK, PlayersOK, LifeOK
    <2>6. rooms[r].count = 0
      BY <2>5, FS_EmptySet
    <2> QED
      BY <2>3, <2>4, <2>5, <2>6, NamesAssumption
  <1>2. ASSUME NEW r \in RoomKeys, Used(r), ~InTable(r) PROVE rooms[r].state = "DELETE_POST"
    <2>1. rooms[r].index \in RoomIndices
      BY <1>2 DEF Typed, RoomsOK, RoomOK, LifeOK, Used
    <2> QED
      BY <1>2, <2>1 DEF Placed, TableHere, InTable
  <1> QED
    BY <1>1, <1>2 DEF DeletesOwnRoom

LEMMA AlwaysPlaced == Spec => [](Typed /\ HoldOK /\ Sorted /\ Owned /\ Placed)
  <1> DEFINE Inv == Typed /\ HoldOK /\ Sorted /\ Owned /\ Placed
  <1>1. Init => Inv
    BY TypedInit, HoldInit, OwnedInit, PlacedInit
  <1>2. Inv /\ [Next]_vars => Inv'
    <2> SUFFICES ASSUME Inv, [Next]_vars PROVE Inv'
      OBVIOUS
    <2>1. Typed' /\ HoldOK'
      BY TypedNext, HoldNext
    <2>2. Sorted'
      BY SortedNext
    <2>3. Owned' /\ Placed'
      BY <2>1, OwnedNext, PlacedNext
    <2> QED
      BY <2>1, <2>2, <2>3
  <1> QED
    BY <1>1, <1>2, PTL DEF Spec

\* Sessions and rooms agree on who sits where, on the number of players and on the host, through
\* every creation, join, removal, kick and disconnection, in whatever order the threads of the
\* lobby and of the rooms run.
THEOREM SeatsAreKnown == Spec => []RoomsConsistent
  BY AlwaysPlaced, PlacedConsistent, PTL

\* A DELETE_ROOM task, which names an index only, deletes the room that posted it, and this one
\* is empty; no other room is ever missing from the table.
THEOREM RoomsDeleteThemselves == Spec => []DeletesOwnRoom
  BY AlwaysPlaced, PlacedDeletes, PTL

=============================================================================
