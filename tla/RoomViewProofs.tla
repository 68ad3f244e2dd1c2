---------------------------- MODULE RoomViewProofs ----------------------------
(***************************************************************************)
(* Proofs about RoomView.  A picture is what the client's seats say of the  *)
(* room.  The inductive invariant tells a picture before and after every    *)
(* packet under way: the first is what the client shows, each packet makes  *)
(* the next one of it, and the last is the server's room.  A packet that    *)
(* is sent makes the tale longer, a packet that is handled makes it shorter.*)
(***************************************************************************)
EXTENDS RoomView, FiniteSetTheorems, SequenceTheorems, WellFoundedInduction, TLAPS

----------------------------------------------------------------------------
(* Seats and sequences. *)

LEMMA SeatFacts ==
  /\ SeatCount \in Nat /\ SeatCount >= 2 /\ Seats \subseteq Nat /\ 1 \in Seats
  /\ IsFiniteSet(Seats) /\ Cardinality(Seats) = SeatCount
  /\ -1 \notin Seats /\ 0 \notin Seats
  <1>1. SeatCount \in Nat /\ SeatCount >= 2
    BY SeatsEnough
  <1>2. IsFiniteSet(1..SeatCount) /\ Cardinality(1..SeatCount) = SeatCount
    BY <1>1, FS_Interval
  <1> QED
    BY <1>1, <1>2 DEF Seats

\* A set of seats that is not empty has a first one.
LEMMA FirstSeat ==
  ASSUME NEW S \in SUBSET Seats, S # {}
  PROVE  FirstOf(S) \in S /\ \A j \in S : FirstOf(S) <= j
  <1>1. S \subseteq Nat
    BY SeatFacts
  <1>2. \E n \in S : \A m \in S : ~(<<m, n>> \in OpToRel(<, Nat))
    BY <1>1, NatLessThanWellFounded, WFMin
  <1>3. \A m, n \in Nat : m < n => <<m, n>> \in OpToRel(<, Nat)
    BY Zenon DEF OpToRel
  <1>4. \E n \in S : \A m \in S : ~(m < n)
    BY <1>1, <1>2, <1>3, Zenon
  <1>5. \E n \in S : \A m \in S : n <= m
    BY <1>1, <1>4
  <1> QED
    BY <1>5 DEF FirstOf

\* A finite set of numbers in ascending order: each of them once, the greater ones later.
LEMMA AscendingIs ==
  ASSUME NEW S \in SUBSET Nat, IsFiniteSet(S)
  PROVE  /\ Cardinality(S) \in Nat
         /\ Ascending(S) \in [1..Cardinality(S) -> S]
         /\ \A n \in S : \E k \in 1..Cardinality(S) : Ascending(S)[k] = n
         /\ \A j, k \in 1..Cardinality(S) : j < k => Ascending(S)[j] < Ascending(S)[k]
  <1> DEFINE Below(n) == {m \in S : m <= n}
             N == Cardinality(S)
             rank == [n \in S |-> Cardinality(Below(n))]
  <1>0. \A n \in S : n \in Nat
    OBVIOUS
  <1>1. N \in Nat /\ IsFiniteSet(1..N) /\ Cardinality(1..N) = N
    BY FS_CardinalityType, FS_Interval
  <1>2. \A n \in S : IsFiniteSet(Below(n)) /\ Cardinality(Below(n)) \in Nat /\ Cardinality(Below(n)) <= N
    BY FS_Subset, FS_CardinalityType
  <1>3. \A n \in S : Cardinality(Below(n)) # 0
    <2> SUFFICES ASSUME NEW n \in S PROVE Cardinality(Below(n)) # 0
      OBVIOUS
    <2>1. n \in Below(n) /\ Below(n) # {}
      OBVIOUS
    <2> QED
      BY <1>2, <2>1, FS_EmptySet
  <1>4. \A m, n \in S : m < n => Cardinality(Below(m)) < Cardinality(Below(n))
    <2> SUFFICES ASSUME NEW m \in S, NEW n \in S, m < n PROVE Cardinality(Below(m)) < Cardinality(Below(n))
      OBVIOUS
    <2>0. (\A k \in S : k <= m => k <= n) /\ n <= n /\ ~(n <= m)
      BY <1>0
    <2>1. Below(m) \subseteq Below(n) /\ n \in Below(n) /\ n \notin Below(m)
      BY <2>0, Zenon DEF Below
    <2>2. Below(m) # Below(n) /\ Below(m) \in SUBSET Below(n)
      BY <2>1
    <2>3. Cardinality(Below(m)) <= Cardinality(Below(n)) /\ Cardinality(Below(m)) # Cardinality(Below(n))
      BY <1>2, <2>2, FS_Subset
    <2> QED
      BY <1>2, <2>3
  <1> HIDE DEF Below
  <1>5. rank \in [S -> 1..N] /\ \A n \in S : rank[n] = Cardinality(Below(n))
    BY <1>1, <1>2, <1>3
  <1>6. \A m, n \in S : rank[m] = rank[n] => m = n
    <2> SUFFICES ASSUME NEW m \in S, NEW n \in S, m # n PROVE rank[m] # rank[n]
      OBVIOUS
    <2>1. m < n \/ n < m
      OBVIOUS
    <2> QED
      BY <1>2, <1>4, <1>5, <2>1
  <1> HIDE DEF rank, N
  <1>7. rank \in Injection(S, 1..N)
    BY <1>5, <1>6 DEF Injection, IsInjective
  <1>8. rank \in Surjection(S, 1..N)
    BY <1>1, <1>7, FS_Injection DEF N
  <1>9. \A k \in 1..N : \E n \in S : rank[n] = k
    BY <1>8 DEF Surjection
  <1>10. \A k \in 1..N : Ascending(S)[k] \in S /\ rank[Ascending(S)[k]] = k
    <2> SUFFICES ASSUME NEW k \in 1..N PROVE Ascending(S)[k] \in S /\ rank[Ascending(S)[k]] = k
      OBVIOUS
    <2>1. Ascending(S)[k] = CHOOSE n \in S : Cardinality({m \in S : m <= n}) = k
      BY DEF Ascending, N
    <2>2. \E n \in S : Cardinality({m \in S : m <= n}) = k
      BY <1>5, <1>9 DEF Below
    <2> QED
      BY <1>5, <2>1, <2>2 DEF Below
  <1>11. DOMAIN Ascending(S) = 1..N /\ Ascending(S) \in [1..N -> S]
    <2>1. Ascending(S) = [k \in 1..N |-> Ascending(S)[k]]
      BY DEF Ascending, N
    <2> QED
      BY <1>10, <2>1
  <1>12. \A n \in S : \E k \in 1..N : Ascending(S)[k] = n
    BY <1>5, <1>6, <1>10
  <1>13. \A j, k \in 1..N : j < k => Ascending(S)[j] < Ascending(S)[k]
    <2> SUFFICES ASSUME NEW j \in 1..N, NEW k \in 1..N, j < k, ~(Ascending(S)[j] < Ascending(S)[k]) PROVE FALSE
      OBVIOUS
    <2> DEFINE a == Ascending(S)[j]
               b == Ascending(S)[k]
    <2>1. a \in S /\ b \in S /\ rank[a] = j /\ rank[b] = k
      BY <1>10
    <2>2. a \in Nat /\ b \in Nat /\ ~(a < b)
      BY <1>0, <2>1
    <2> HIDE DEF a, b
    <2>3. a = b \/ b < a
      BY <2>2
    <2>4. rank[a] = rank[b] \/ rank[b] < rank[a]
      BY <1>4, <1>5, <2>1, <2>3
    <2> QED
      BY <1>1, <2>1, <2>4
  <1> QED
    BY <1>1, <1>11, <1>12, <1>13 DEF N

\* The numbers of an ascending sequence are different ones.
LEMMA AscendingOnce ==
  ASSUME NEW S \in SUBSET Nat, IsFiniteSet(S), NEW j \in 1..Cardinality(S), NEW k \in 1..Cardinality(S),
         Ascending(S)[j] = Ascending(S)[k]
  PROVE  j = k
  <1>1. Cardinality(S) \in Nat /\ Ascending(S)[j] \in Nat /\ Ascending(S)[k] \in Nat
    BY AscendingIs
  <1>2. ~(j < k) /\ ~(k < j)
    BY <1>1, AscendingIs
  <1> QED
    BY <1>1, <1>2

\* The seat of a player, when nobody has two.
LEMMA SeatOfIs ==
  ASSUME NEW p \in Seated
  PROVE  SeatOf(p) \in Seats /\ SeatOf(p) \in Occupied /\ seat[SeatOf(p)] = p /\ p # None
  BY DEF Seated, SeatOf, Occupied

\* The players of a room with a free seat are fewer than its seats.
LEMMA FreeSeat ==
  ASSUME NEW i \in Seats, seat[i] = None
  PROVE  /\ IsFiniteSet(Occupied) /\ Cardinality(Occupied) \in Nat /\ Cardinality(Occupied) < SeatCount
         /\ IsFiniteSet(Seated) /\ Cardinality(Seated) \in Nat /\ Cardinality(Seated) < SeatCount
  <1>1. Occupied \in SUBSET (Seats \ {i}) /\ IsFiniteSet(Seats \ {i}) /\ Cardinality(Seats \ {i}) = SeatCount - 1
    <2>1. IsFiniteSet(Seats \ {i}) /\ Cardinality(Seats \ {i}) = SeatCount - 1
      BY SeatFacts, FS_RemoveElement
    <2> QED
      BY <2>1 DEF Occupied
  <1>2. IsFiniteSet(Occupied) /\ Cardinality(Occupied) \in Nat /\ Cardinality(Occupied) < SeatCount
    <2>1. IsFiniteSet(Occupied) /\ Cardinality(Occupied) <= SeatCount - 1
      BY <1>1, FS_Subset
    <2> QED
      BY <2>1, SeatFacts, FS_CardinalityType
  <1> DEFINE f == [j \in Occupied |-> seat[j]]
  <1>3. f \in [Occupied -> Seated] /\ \A p \in Seated : \E j \in Occupied : f[j] = p
    BY DEF Occupied, Seated
  <1> HIDE DEF f
  <1>4. f \in Surjection(Occupied, Seated)
    BY <1>3 DEF Surjection
  <1>5. IsFiniteSet(Seated) /\ Cardinality(Seated) <= Cardinality(Occupied)
    BY <1>2, <1>4, FS_Surjection
  <1> QED
    BY <1>2, <1>5, SeatFacts, FS_CardinalityType

----------------------------------------------------------------------------
(* The types. *)

Session == [id : People \cup {None}, is_host : BOOLEAN, btn_ready : {"none", "up", "down"},
            btn_start : BOOLEAN, btn_kick : BOOLEAN, state : {"EMPTY", "WAIT", "PLAY", "GAMEOVER"},
            fixed : 0..(MaxPieces + 1)]

Packet == [type : {"ADD_ROOM", "MULTI_START", "ERROR", "INFO"}]
          \cup [type : {"ADD_USER", "UPDATE_HOST", "DELETE_USER", "FIX", "GAMEOVER", "GAMEEND"}, id : People]
          \cup [type : {"READY"}, id : People, is_ready : BOOLEAN]

Request == [type : {"READY", "START", "REMOVE_PLAYER"}] \cup [type : {"KICK"}, id : People]

ServerTyped ==
  /\ room_state \in {"EMPTY", "WAIT", "PLAY"} /\ seat \in [Seats -> People \cup {None}]
  /\ player_state \in [Seats -> {"WAIT", "READY", "PLAY", "GAME_OVER"}]
  /\ fixed \in [Seats -> 0..MaxPieces] /\ host_id \in People \cup {None}
  /\ mode \in {"LOBBY", "ROOM"} /\ unserved \in BOOLEAN

ChannelsTyped == s2c \in Seq(Packet) /\ c2s \in Seq(Request) /\ Len(c2s) <= MaxRequests

ClientTyped ==
  /\ screen \in {"lobby", "room"} /\ players \in [Seats -> Session]
  /\ host_index \in {-1} \cup Seats /\ popups \subseteq {"error", "winner"}
  /\ reactable \in BOOLEAN /\ crashed \in BOOLEAN

Typed == ServerTyped /\ ChannelsTyped /\ ClientTyped

----------------------------------------------------------------------------
(* The room of the server. *)

\* Everybody has one seat, the host one of them, and the states of the seats are
\* those of a room that waits or plays.
RoomOK ==
  /\ \A i, j \in Occupied : seat[i] = seat[j] => i = j
  /\ room_state = "EMPTY" => Occupied = {}
  /\ room_state # "EMPTY" => host_id \in Seated
  /\ room_state = "WAIT" => \A i \in Occupied : player_state[i] \in {"WAIT", "READY"} /\ fixed[i] = 0
  /\ room_state = "PLAY" => \A i \in Occupied : player_state[i] \in {"PLAY", "GAME_OVER"}
  /\ Me \in Seated => mode = "ROOM"

----------------------------------------------------------------------------
(* The picture of the room after each of the packets under way. *)

Picture == [room : BOOLEAN, ids : SUBSET People, host : People \cup {None},
            pieces : [People -> 0..(MaxPieces + 1)], playing : SUBSET People]

NoPieces == [p \in People |-> 0]
Lobby == [room |-> FALSE, ids |-> {}, host |-> None, pieces |-> NoPieces, playing |-> {}]
Opened == [room |-> TRUE, ids |-> {Me}, host |-> None, pieces |-> NoPieces, playing |-> {}]

OneMore(n) == IF n <= MaxPieces THEN n + 1 ELSE MaxPieces + 1

\* What packet p makes of picture a.
After(a, p) ==
  IF ~a.room THEN IF p.type = "ADD_ROOM" THEN Opened ELSE a
  ELSE CASE p.type = "ADD_USER" -> [a EXCEPT !.ids = @ \cup {p.id}, !.pieces[p.id] = 0, !.playing = @ \ {p.id}]
         [] p.type = "UPDATE_HOST" -> [a EXCEPT !.host = p.id]
         [] p.type = "DELETE_USER" /\ p.id = Me -> Lobby
         [] p.type = "DELETE_USER" /\ p.id # Me ->
              [a EXCEPT !.ids = @ \ {p.id}, !.playing = @ \ {p.id}, !.host = IF @ = p.id THEN None ELSE @]
         [] p.type = "FIX" -> [a EXCEPT !.pieces[p.id] = OneMore(@)]
         [] p.type = "GAMEOVER" -> [a EXCEPT !.playing = @ \ {p.id}]
         [] p.type = "MULTI_START" -> [a EXCEPT !.playing = @ \cup a.ids]
         [] p.type = "GAMEEND" -> [a EXCEPT !.pieces = NoPieces, !.playing = {}]
         [] OTHER -> a

\* What a room must show before packet p: room for a newcomer, and a new host who is
\* there and follows nobody.
Fits(a, p) ==
  a.room => /\ p.type = "ADD_USER" => p.id \notin a.ids /\ Cardinality(a.ids) < SeatCount
            /\ p.type = "UPDATE_HOST" => p.id \in a.ids /\ a.host = None

\* The board of session s is the one of picture a.
BoardShown(s, a) == s.fixed = a.pieces[s.id] /\ (s.state = "PLAY" <=> s.id \in a.playing)

\* The client shows picture a.
Shows(a) ==
  /\ a.room <=> screen = "room"
  /\ a.room =>
       /\ players[1].id = Me
       /\ \A i, j \in Seats : players[i].id = players[j].id => i = j \/ players[i].id = None
       /\ a.ids = {players[i].id : i \in Seats} \ {None} /\ a.host \in a.ids \cup {None}
       /\ \A i \in Seats : players[i].is_host <=> (players[i].id = a.host /\ a.host # None)
       /\ \A i \in Seats : players[i].id # None => BoardShown(players[i], a)
       /\ host_index = 1 <=> a.host = Me
       /\ players[1].btn_start <=> a.host = Me
       /\ players[1].btn_ready = "none" <=> a.host = Me
       /\ a.host = Me => \A i \in Seats \ {1} : players[i].id # None => players[i].btn_kick
       /\ a.host # Me => \A i \in Seats : ~players[i].btn_kick

\* g tells the packets of sequence q: a picture before the first and one after each.
Tale(g, q) ==
  /\ g \in [0..Len(q) -> Picture]
  /\ \A k \in 1..Len(q) : g[k] = After(g[k - 1], q[k]) /\ Fits(g[k - 1], q[k])

\* The last picture is that of the room, once Me sits in it.
Mirrors(a) ==
  /\ a.room /\ a.ids = Seated
  /\ a.host = host_id \/ (a.host = None /\ host_id = Me)
  /\ (room_state = "WAIT" /\ ~unserved) => \A i \in Occupied : a.pieces[seat[i]] = 0
  /\ (room_state = "PLAY" /\ ~unserved) =>
        \A i \in Occupied : a.pieces[seat[i]] = fixed[i] /\ (seat[i] \in a.playing <=> player_state[i] = "PLAY")

\* h tells the packets under way, from what is shown to picture a, which is the room's
\* once Me sits in it; and no picture has a Me as host that the room has not.
Told(h, a) ==
  /\ Tale(h, s2c) /\ Shows(h[0]) /\ h[Len(s2c)] = a
  /\ Me \in Seated => Mirrors(a) /\ \A k \in 0..Len(s2c) : h[k].host = Me => host_id = Me

Ends(a) == \E h \in [0..Len(s2c) -> Picture] : Told(h, a)

Tells == ~crashed /\ \E a \in Picture : Ends(a)

----------------------------------------------------------------------------
(* The ready mark of Me. *)

\* What a seated Me is sent begins with the room and does not take it away.
Begins ==
  /\ \A k \in DOMAIN s2c : s2c[k].type = "ADD_ROOM" => k = 1 /\ screen = "lobby"
  /\ Me \in Seated => /\ screen = "lobby" => s2c # <<>> /\ Head(s2c).type = "ADD_ROOM"
                      /\ \A k \in DOMAIN s2c : s2c[k].type = "DELETE_USER" => s2c[k].id # Me

\* The packets that set the mark.
Marks(p) == p.type \in {"ADD_ROOM", "GAMEEND"} \/ (p.type = "READY" /\ p.id = Me)
Marking == {k \in DOMAIN s2c : Marks(s2c[k])}
AsksReady == \E k \in DOMAIN c2s : c2s[k].type = "READY"
MeReady == \E i \in Seats : seat[i] = Me /\ player_state[i] = "READY"

\* The last of them that is under way, or the mark that is shown, is what the room counts.
Marked ==
  (Me \in Seated /\ ~unserved /\ ~AsksReady /\ room_state = "WAIT" /\ host_id # Me) =>
     /\ Marking = {} => (players[1].btn_ready = "down" <=> MeReady)
     /\ \A k \in Marking : (\A j \in Marking : j <= k) => ((s2c[k].type = "READY" /\ s2c[k].is_ready) <=> MeReady)

IInv == Typed /\ RoomOK /\ NeverStuck /\ Tells /\ Begins /\ Marked

LEMMA PeopleFacts ==
  Me \in People /\ None \notin People /\ Me # None /\ MaxPieces \in Nat /\ MaxRequests \in Nat /\ MaxPackets \in Nat
  BY MeIsSomebody, BoundsNatural DEF People

LEMMA OneMoreIs ==
  ASSUME NEW n \in 0..(MaxPieces + 1)
  PROVE  OneMore(n) \in 0..(MaxPieces + 1) /\ Min({n + 1, MaxPieces + 1}) = OneMore(n)
  <1>1. MaxPieces \in Nat
    BY PeopleFacts
  <1>2. OneMore(n) \in 0..(MaxPieces + 1) /\ OneMore(n) \in {n + 1, MaxPieces + 1}
        /\ OneMore(n) <= n + 1 /\ OneMore(n) <= MaxPieces + 1
    BY <1>1 DEF OneMore
  <1> DEFINE S == {n + 1, MaxPieces + 1}
  <1>3. \A x \in S : (\A y \in S : x <= y) => x = OneMore(n)
    BY <1>1, <1>2
  <1>4. OneMore(n) \in S /\ \A y \in S : OneMore(n) <= y
    BY <1>2
  <1>5. Min(S) = CHOOSE x \in S : \A y \in S : x <= y
    BY DEF Min
  <1>6. Min(S) = OneMore(n)
    BY <1>3, <1>4, <1>5
  <1> QED
    BY <1>2, <1>6

LEMMA PacketKinds ==
  ASSUME NEW p \in Packet
  PROVE  /\ p.type \in {"ADD_ROOM", "MULTI_START", "ERROR", "INFO", "ADD_USER", "UPDATE_HOST", "DELETE_USER",
                        "FIX", "GAMEOVER", "GAMEEND", "READY"}
         /\ p.type \notin {"ADD_ROOM", "MULTI_START", "ERROR", "INFO"} => p.id \in People
         /\ p.type = "READY" => p.is_ready \in BOOLEAN
  BY DEF Packet

\* What a packet makes of a picture is a picture.
LEMMA AfterPicture ==
  ASSUME NEW a \in Picture, NEW p \in Packet
  PROVE  After(a, p) \in Picture
  <1>1. Lobby \in Picture /\ Opened \in Picture
    BY PeopleFacts DEF Lobby, Opened, NoPieces, Picture
  <1>2. a = [room |-> a.room, ids |-> a.ids, host |-> a.host, pieces |-> a.pieces, playing |-> a.playing]
    BY DEF Picture
  <1>3. \A q \in People : OneMore(a.pieces[q]) \in 0..(MaxPieces + 1)
    BY OneMoreIs DEF Picture
  <1>4. NoPieces \in [People -> 0..(MaxPieces + 1)] /\ 0 \in 0..(MaxPieces + 1)
    BY PeopleFacts DEF NoPieces
  <1>5. CASE ~a.room
    BY <1>1, <1>5 DEF After
  <1>6. CASE a.room /\ p.type = "ADD_USER"
    BY <1>4, <1>6, PacketKinds DEF After, Picture
  <1>7. CASE a.room /\ p.type = "UPDATE_HOST"
    BY <1>7, PacketKinds DEF After, Picture
  <1>8. CASE a.room /\ p.type = "DELETE_USER"
    BY <1>1, <1>8, PacketKinds DEF After, Picture
  <1>9. CASE a.room /\ p.type = "FIX"
    <2>1. After(a, p) = [a EXCEPT !.pieces[p.id] = OneMore(@)]
      BY <1>9 DEF After
    <2> QED
      BY <1>3, <1>9, <2>1, PacketKinds DEF Picture
  <1>10. CASE a.room /\ p.type = "GAMEOVER"
    BY <1>10, PacketKinds DEF After, Picture
  <1>11. CASE a.room /\ p.type = "MULTI_START"
    BY <1>11, PacketKinds DEF After, Picture
  <1>12. CASE a.room /\ p.type = "GAMEEND"
    BY <1>4, <1>12, PacketKinds DEF After, Picture
  <1>13. CASE a.room /\ p.type \in {"ADD_ROOM", "ERROR", "INFO", "READY"}
    BY <1>13 DEF After
  <1> QED
    BY <1>5, <1>6, <1>7, <1>8, <1>9, <1>10, <1>11, <1>12, <1>13, PacketKinds

----------------------------------------------------------------------------
(* The client handles a packet. *)

Receive(p) ==
  IF screen = "room" THEN RoomPacket(p)
  ELSE IF p.type = "ADD_ROOM" THEN OpenRoom /\ UNCHANGED crashed ELSE UNCHANGED client

\* What a packet does to the ready mark of a Me that is in the room.
MarkStep(p) ==
  /\ (p.type = "READY" /\ p.id = Me /\ players[1].btn_ready # "none") =>
        (players'[1].btn_ready = "down" <=> p.is_ready)
  /\ p.type = "GAMEEND" => players'[1].btn_ready # "down"
  /\ (~Marks(p) /\ ~(p.type \in {"DELETE_USER", "UPDATE_HOST"} /\ p.id = Me)) =>
        (players'[1].btn_ready = "down" <=> players[1].btn_ready = "down")

\* Packet p turns picture a into the one that follows.
Received(a, p) ==
  /\ ClientTyped' /\ Shows(After(a, p))' /\ ~crashed'
  /\ NeverStuck => NeverStuck'
  /\ IF a.room THEN MarkStep(p)
     ELSE p.type = "ADD_ROOM" => players'[1].btn_ready # "down"

\* Seats that keep their players, their host and their buttons.
SeatsKeep ==
  /\ players' \in [Seats -> Session]
  /\ \A i \in Seats : /\ players'[i].id = players[i].id /\ players'[i].is_host = players[i].is_host
                      /\ players'[i].btn_start = players[i].btn_start /\ players'[i].btn_kick = players[i].btn_kick
                      /\ players'[i].btn_ready = "none" <=> players[i].btn_ready = "none"

LEMMA ShowsSame ==
  ASSUME NEW a \in Picture, NEW b \in Picture, Shows(a), ClientTyped, SeatsKeep,
         b.room = a.room, b.ids = a.ids, b.host = a.host,
         screen' = screen, host_index' = host_index,
         a.room => \A i \in Seats : players[i].id # None =>
             players'[i].fixed = b.pieces[players[i].id] /\ (players'[i].state = "PLAY" <=> players[i].id \in b.playing)
  PROVE  Shows(b)'
  <1>1. {players'[i].id : i \in Seats} = {players[i].id : i \in Seats}
    BY DEF SeatsKeep
  <1>2. 1 \in Seats
    BY SeatFacts
  <1> QED
    BY <1>1, <1>2 DEF Shows, SeatsKeep, BoardShown

LEMMA EmptySession == EmptySeat \in Session
  BY PeopleFacts DEF EmptySeat, Session

LEMMA ReceiveOutside ==
  ASSUME NEW a \in Picture, Shows(a), ClientTyped, ~a.room, NEW p \in Packet, Receive(p), ~crashed
  PROVE  Received(a, p)
  <1>1. screen # "room"
    BY DEF Shows
  <1>2. CASE p.type = "ADD_ROOM"
    <2>1. OpenRoom /\ UNCHANGED crashed /\ After(a, p) = Opened
      BY <1>1, <1>2 DEF Receive, After
    <2> DEFINE mine == [EmptySeat EXCEPT !.id = Me, !.state = "WAIT"]
    <2>2. mine \in Session /\ mine.id = Me /\ ~mine.is_host /\ mine.fixed = 0 /\ mine.state = "WAIT" /\ ~mine.btn_start
          /\ ~mine.btn_kick /\ mine.btn_ready = "up"
      <3>1. \A s \in Session : LET m == [s EXCEPT !.id = Me, !.state = "WAIT"]
                               IN  /\ m \in Session /\ m.id = Me /\ m.state = "WAIT" /\ m.is_host = s.is_host
                                   /\ m.fixed = s.fixed /\ m.btn_start = s.btn_start /\ m.btn_kick = s.btn_kick
                                   /\ m.btn_ready = s.btn_ready
        BY PeopleFacts DEF Session
      <3>2. ~EmptySeat.is_host /\ EmptySeat.fixed = 0 /\ ~EmptySeat.btn_start /\ ~EmptySeat.btn_kick
            /\ EmptySeat.btn_ready = "up"
        BY DEF EmptySeat
      <3> QED
        BY <3>1, <3>2, EmptySession
    <2>3. EmptySeat.id = None /\ ~EmptySeat.is_host /\ ~EmptySeat.btn_kick
      BY DEF EmptySeat
    <2>4. players' \in [Seats -> Session] /\ players'[1] = mine /\ \A i \in Seats \ {1} : players'[i] = EmptySeat
      BY <2>1, <2>2, EmptySession, SeatFacts DEF OpenRoom
    <2> HIDE DEF mine
    <2>5. ClientTyped' /\ ~crashed' /\ NeverStuck'
      BY <2>1, <2>4 DEF OpenRoom, ClientTyped, NeverStuck
    <2>6. Opened.room /\ Opened.ids = {Me} /\ Opened.host = None /\ Opened.pieces = NoPieces /\ Opened.playing = {}
      BY DEF Opened, Lobby
    <2>7. {players'[i].id : i \in Seats} = {Me, None}
      <3>1. 1 \in Seats /\ 2 \in Seats /\ 2 # 1
        BY SeatFacts DEF Seats
      <3>2. players'[1].id = Me /\ players'[2].id = None /\ \A i \in Seats : players'[i].id \in {Me, None}
        BY <2>2, <2>3, <2>4, <3>1
      <3> QED
        BY <3>1, <3>2
    <2>8. screen' = "room" /\ host_index' = -1
      BY <2>1 DEF OpenRoom
    <2>9. Shows(Opened)'
      <3>1. \A i \in Seats : i = 1 \/ (players'[i].id = None /\ ~players'[i].is_host /\ ~players'[i].btn_kick)
        BY <2>3, <2>4
      <3>2. 1 \in Seats /\ Me \in People /\ Me # None /\ -1 # 1
        BY PeopleFacts, SeatFacts
      <3>3. players'[1].id = Me /\ ~players'[1].is_host /\ ~players'[1].btn_kick /\ players'[1].fixed = 0
            /\ players'[1].state # "PLAY" /\ ~players'[1].btn_start /\ players'[1].btn_ready # "none"
        BY <2>2, <2>4
      <3>4. \A i \in Seats : players'[i].id # None =>
               players'[i].fixed = Opened.pieces[players'[i].id] /\ (players'[i].state = "PLAY" <=> players'[i].id \in Opened.playing)
        BY <2>6, <3>1, <3>2, <3>3 DEF NoPieces
      <3> QED
        BY <2>6, <2>7, <2>8, <3>1, <3>2, <3>3, <3>4 DEF Shows, BoardShown
    <2> QED
      BY <1>2, <2>1, <2>2, <2>4, <2>5, <2>9 DEF Received
  <1>3. CASE p.type # "ADD_ROOM"
    <2>1. UNCHANGED client /\ After(a, p) = a
      BY <1>1, <1>3 DEF Receive, After
    <2> QED
      BY <1>3, <2>1 DEF client, Shows, ClientTyped, NeverStuck, Received
  <1> QED
    BY <1>2, <1>3

LEMMA ReceiveReady ==
  ASSUME NEW a \in Picture, Shows(a), ClientTyped, a.room, NEW p \in Packet, Receive(p), ~crashed, p.type = "READY"
  PROVE  Received(a, p)
  <1>1. screen = "room" /\ After(a, p) = a
    BY DEF Shows, After
  <1> DEFINE f(s) == IF s.btn_ready = "none" THEN s
                     ELSE [s EXCEPT !.btn_ready = IF p.is_ready THEN "down" ELSE "up"]
  <1>2. /\ players' = [i \in Seats |-> IF players[i].id = p.id THEN f(players[i]) ELSE players[i]]
        /\ UNCHANGED <<screen, host_index, popups, reactable, crashed>>
    BY <1>1 DEF Receive, RoomPacket, SeatChange
  <1>3. \A s \in Session : /\ f(s) \in Session /\ f(s).id = s.id /\ f(s).is_host = s.is_host
                           /\ f(s).btn_start = s.btn_start /\ f(s).btn_kick = s.btn_kick
                           /\ f(s).btn_ready = "none" <=> s.btn_ready = "none"
                           /\ f(s).fixed = s.fixed /\ f(s).state = s.state
                           /\ s.btn_ready # "none" => (f(s).btn_ready = "down" <=> p.is_ready)
    BY PacketKinds DEF Session
  <1> HIDE DEF f
  <1>4. players \in [Seats -> Session] /\ 1 \in Seats /\ players[1].id = Me
    BY SeatFacts DEF ClientTyped, Shows
  <1>5. SeatsKeep /\ \A i \in Seats : players'[i].fixed = players[i].fixed /\ players'[i].state = players[i].state
    BY <1>2, <1>3, <1>4 DEF SeatsKeep
  <1>6. ClientTyped' /\ ~crashed' /\ (NeverStuck => NeverStuck')
    BY <1>2, <1>5 DEF ClientTyped, NeverStuck, SeatsKeep
  <1>7. \A i \in Seats : players[i].id # None =>
           players'[i].fixed = a.pieces[players[i].id] /\ (players'[i].state = "PLAY" <=> players[i].id \in a.playing)
    BY <1>5 DEF Shows, BoardShown
  <1>8. Shows(a)'
    BY <1>2, <1>5, <1>7, ShowsSame
  <1>9. MarkStep(p)
    BY <1>2, <1>3, <1>4 DEF MarkStep, Marks
  <1> QED
    BY <1>1, <1>6, <1>8, <1>9 DEF Received

LEMMA ReceiveFix ==
  ASSUME NEW a \in Picture, Shows(a), ClientTyped, a.room, NEW p \in Packet, Receive(p), ~crashed, p.type = "FIX"
  PROVE  Received(a, p)
  <1> DEFINE b == After(a, p)
  <1>1. screen = "room" /\ b = [a EXCEPT !.pieces[p.id] = OneMore(@)] /\ b \in Picture /\ p.id \in People
    BY AfterPicture, PacketKinds DEF Shows, After
  <1> DEFINE f(s) == [s EXCEPT !.fixed = Min({@ + 1, MaxPieces + 1})]
  <1>2. /\ players' = [i \in Seats |-> IF players[i].id = p.id THEN f(players[i]) ELSE players[i]]
        /\ UNCHANGED <<screen, host_index, popups, reactable, crashed>>
    BY <1>1 DEF Receive, RoomPacket, SeatChange
  <1>3. \A s \in Session : /\ f(s) \in Session /\ f(s).id = s.id /\ f(s).is_host = s.is_host
                           /\ f(s).btn_start = s.btn_start /\ f(s).btn_kick = s.btn_kick
                           /\ f(s).btn_ready = s.btn_ready
                           /\ f(s).fixed = OneMore(s.fixed) /\ f(s).state = s.state
    <2> SUFFICES ASSUME NEW s \in Session
                 PROVE  /\ f(s) \in Session /\ f(s).id = s.id /\ f(s).is_host = s.is_host
                        /\ f(s).btn_start = s.btn_start /\ f(s).btn_kick = s.btn_kick
                        /\ f(s).btn_ready = s.btn_ready
                        /\ f(s).fixed = OneMore(s.fixed) /\ f(s).state = s.state
      OBVIOUS
    <2>1. OneMore(s.fixed) \in 0..(MaxPieces + 1) /\ Min({s.fixed + 1, MaxPieces + 1}) = OneMore(s.fixed)
      BY OneMoreIs DEF Session
    <2>2. f(s) = [s EXCEPT !.fixed = OneMore(s.fixed)]
      BY <2>1
    <2> HIDE DEF f
    <2> QED
      BY <2>1, <2>2 DEF Session
  <1> HIDE DEF f, b
  <1>4. players \in [Seats -> Session] /\ 1 \in Seats
    BY SeatFacts DEF ClientTyped
  <1>5. SeatsKeep /\ \A i \in Seats : /\ players'[i].state = players[i].state
                                      /\ players'[i].btn_ready = players[i].btn_ready
                                      /\ players'[i].fixed = IF players[i].id = p.id THEN OneMore(players[i].fixed)
                                                             ELSE players[i].fixed
    BY <1>2, <1>3, <1>4 DEF SeatsKeep
  <1>6. ClientTyped' /\ ~crashed' /\ (NeverStuck => NeverStuck')
    BY <1>2, <1>5 DEF ClientTyped, NeverStuck, SeatsKeep
  <1>7. b.playing = a.playing /\ b.room = a.room /\ b.ids = a.ids /\ b.host = a.host
        /\ \A q \in People : b.pieces[q] = IF q = p.id THEN OneMore(a.pieces[q]) ELSE a.pieces[q]
    BY <1>1 DEF Picture
  <1>8. \A i \in Seats : players[i].id # None =>
           players'[i].fixed = b.pieces[players[i].id] /\ (players'[i].state = "PLAY" <=> players[i].id \in b.playing)
    <2>1. \A i \in Seats : players[i].id # None => players[i].id \in People
      BY <1>4 DEF Session
    <2> QED
      BY <1>5, <1>7, <2>1 DEF Shows, BoardShown
  <1>9. Shows(b)'
    BY <1>1, <1>2, <1>5, <1>7, <1>8, ShowsSame
  <1>10. MarkStep(p)
    BY <1>4, <1>5 DEF MarkStep, Marks
  <1> QED
    BY <1>6, <1>9, <1>10 DEF Received, b

LEMMA ReceiveGameover ==
  ASSUME NEW a \in Picture, Shows(a), ClientTyped, a.room, NEW p \in Packet, Receive(p), ~crashed, p.type = "GAMEOVER"
  PROVE  Received(a, p)
  <1> DEFINE b == After(a, p)
  <1>1. screen = "room" /\ b = [a EXCEPT !.playing = @ \ {p.id}] /\ b \in Picture
    BY AfterPicture DEF Shows, After
  <1> DEFINE f(s) == [s EXCEPT !.state = "GAMEOVER"]
  <1>2. /\ players' = [i \in Seats |-> IF players[i].id = p.id THEN f(players[i]) ELSE players[i]]
        /\ UNCHANGED <<screen, host_index, popups, reactable, crashed>>
    BY <1>1 DEF Receive, RoomPacket, SeatChange
  <1>3. \A s \in Session : /\ f(s) \in Session /\ f(s).id = s.id /\ f(s).is_host = s.is_host
                           /\ f(s).btn_start = s.btn_start /\ f(s).btn_kick = s.btn_kick
                           /\ f(s).btn_ready = s.btn_ready
                           /\ f(s).fixed = s.fixed /\ f(s).state = "GAMEOVER"
    BY DEF Session
  <1> HIDE DEF f, b
  <1>4. players \in [Seats -> Session] /\ 1 \in Seats
    BY SeatFacts DEF ClientTyped
  <1>5. SeatsKeep /\ \A i \in Seats : /\ players'[i].fixed = players[i].fixed
                                      /\ players'[i].btn_ready = players[i].btn_ready
                                      /\ players'[i].state = IF players[i].id = p.id THEN "GAMEOVER" ELSE players[i].state
    BY <1>2, <1>3, <1>4 DEF SeatsKeep
  <1>6. ClientTyped' /\ ~crashed' /\ (NeverStuck => NeverStuck')
    BY <1>2, <1>5 DEF ClientTyped, NeverStuck, SeatsKeep
  <1>7. b.playing = a.playing \ {p.id} /\ b.room = a.room /\ b.ids = a.ids /\ b.host = a.host /\ b.pieces = a.pieces
    BY <1>1 DEF Picture
  <1>8. \A i \in Seats : players[i].id # None =>
           players'[i].fixed = b.pieces[players[i].id] /\ (players'[i].state = "PLAY" <=> players[i].id \in b.playing)
    BY <1>5, <1>7 DEF Shows, BoardShown
  <1>9. Shows(b)'
    BY <1>1, <1>2, <1>5, <1>7, <1>8, ShowsSame
  <1>10. MarkStep(p)
    BY <1>4, <1>5 DEF MarkStep, Marks
  <1> QED
    BY <1>6, <1>9, <1>10 DEF Received, b

LEMMA ReceiveStart ==
  ASSUME NEW a \in Picture, Shows(a), ClientTyped, a.room, NEW p \in Packet, Receive(p), ~crashed, p.type = "MULTI_START"
  PROVE  Received(a, p)
  <1> DEFINE b == After(a, p)
  <1>1. screen = "room" /\ b = [a EXCEPT !.playing = @ \cup a.ids] /\ b \in Picture
    BY AfterPicture DEF Shows, After
  <1> DEFINE f(s) == IF s.id = None THEN s ELSE [s EXCEPT !.state = "PLAY"]
  <1>2. /\ players' = [i \in Seats |-> f(players[i])]
        /\ UNCHANGED <<screen, host_index, popups, reactable, crashed>>
    BY <1>1 DEF Receive, RoomPacket
  <1>3. \A s \in Session : /\ f(s) \in Session /\ f(s).id = s.id /\ f(s).is_host = s.is_host
                           /\ f(s).btn_start = s.btn_start /\ f(s).btn_kick = s.btn_kick
                           /\ f(s).btn_ready = s.btn_ready
                           /\ f(s).fixed = s.fixed /\ (s.id # None => f(s).state = "PLAY")
    BY DEF Session
  <1> HIDE DEF f, b
  <1>4. players \in [Seats -> Session] /\ 1 \in Seats
    BY SeatFacts DEF ClientTyped
  <1>5. SeatsKeep /\ \A i \in Seats : /\ players'[i].fixed = players[i].fixed
                                      /\ players'[i].btn_ready = players[i].btn_ready
                                      /\ players[i].id # None => players'[i].state = "PLAY"
    BY <1>2, <1>3, <1>4 DEF SeatsKeep
  <1>6. ClientTyped' /\ ~crashed' /\ (NeverStuck => NeverStuck')
    BY <1>2, <1>5 DEF ClientTyped, NeverStuck, SeatsKeep
  <1>7. b.playing = a.playing \cup a.ids /\ b.room = a.room /\ b.ids = a.ids /\ b.host = a.host /\ b.pieces = a.pieces
    BY <1>1 DEF Picture
  <1>8. \A i \in Seats : players[i].id # None =>
           players'[i].fixed = b.pieces[players[i].id] /\ (players'[i].state = "PLAY" <=> players[i].id \in b.playing)
    BY <1>5, <1>7 DEF Shows, BoardShown
  <1>9. Shows(b)'
    BY <1>1, <1>2, <1>5, <1>7, <1>8, ShowsSame
  <1>10. MarkStep(p)
    BY <1>4, <1>5 DEF MarkStep, Marks
  <1> QED
    BY <1>6, <1>9, <1>10 DEF Received, b

LEMMA ReceiveEnd ==
  ASSUME NEW a \in Picture, Shows(a), ClientTyped, a.room, NEW p \in Packet, Receive(p), ~crashed, p.type = "GAMEEND"
  PROVE  Received(a, p)
  <1> DEFINE b == After(a, p)
  <1>1. screen = "room" /\ b = [a EXCEPT !.pieces = NoPieces, !.playing = {}] /\ b \in Picture
    BY AfterPicture DEF Shows, After
  <1> DEFINE f(s) == IF s.id = None THEN s
                     ELSE [s EXCEPT !.state = "WAIT", !.fixed = 0, !.btn_ready = IF @ = "none" THEN @ ELSE "up"]
  <1>2. /\ players' = [i \in Seats |-> f(players[i])]
        /\ popups' = popups \cup {"winner"} /\ UNCHANGED <<screen, host_index, crashed>> /\ reactable' = FALSE
    BY <1>1 DEF Receive, RoomPacket, ResetRoom, Popup
  <1>3. \A s \in Session : /\ f(s) \in Session /\ f(s).id = s.id /\ f(s).is_host = s.is_host
                           /\ f(s).btn_start = s.btn_start /\ f(s).btn_kick = s.btn_kick
                           /\ (f(s).btn_ready = "none" <=> s.btn_ready = "none")
                           /\ (s.id # None => f(s).fixed = 0 /\ f(s).state = "WAIT" /\ f(s).btn_ready # "down")
    <2> SUFFICES ASSUME NEW s \in Session
                 PROVE  /\ f(s) \in Session /\ f(s).id = s.id /\ f(s).is_host = s.is_host
                        /\ f(s).btn_start = s.btn_start /\ f(s).btn_kick = s.btn_kick
                        /\ (f(s).btn_ready = "none" <=> s.btn_ready = "none")
                        /\ (s.id # None => f(s).fixed = 0 /\ f(s).state = "WAIT" /\ f(s).btn_ready # "down")
      OBVIOUS
    <2> DEFINE mark == IF s.btn_ready = "none" THEN s.btn_ready ELSE "up"
    <2>1. mark \in {"none", "up"} /\ (mark = "none" <=> s.btn_ready = "none")
      OBVIOUS
    <2>2. f(s) = IF s.id = None THEN s ELSE [s EXCEPT !.state = "WAIT", !.fixed = 0, !.btn_ready = mark]
      OBVIOUS
    <2>3. 0 \in 0..(MaxPieces + 1)
      BY PeopleFacts
    <2> HIDE DEF f, mark
    <2> QED
      BY <2>1, <2>2, <2>3 DEF Session
  <1> HIDE DEF f, b
  <1>4. players \in [Seats -> Session] /\ 1 \in Seats /\ players[1].id = Me /\ Me # None
    BY SeatFacts, PeopleFacts DEF ClientTyped, Shows
  <1>5. SeatsKeep /\ players'[1].btn_ready # "down"
        /\ \A i \in Seats : players[i].id # None => players'[i].fixed = 0 /\ players'[i].state = "WAIT"
    BY <1>2, <1>3, <1>4 DEF SeatsKeep
  <1>6. ClientTyped' /\ ~crashed' /\ NeverStuck'
    BY <1>2, <1>5 DEF ClientTyped, NeverStuck, SeatsKeep
  <1>7. b.playing = {} /\ b.room = a.room /\ b.ids = a.ids /\ b.host = a.host /\ b.pieces = NoPieces
    BY <1>1 DEF Picture
  <1>8. \A i \in Seats : players[i].id # None =>
           players'[i].fixed = b.pieces[players[i].id] /\ (players'[i].state = "PLAY" <=> players[i].id \in b.playing)
    <2>1. \A i \in Seats : players[i].id # None => players[i].id \in People
      BY <1>4 DEF Session
    <2> QED
      BY <1>5, <1>7, <2>1 DEF NoPieces
  <1>9. Shows(b)'
    BY <1>1, <1>2, <1>5, <1>7, <1>8, ShowsSame
  <1>10. MarkStep(p)
    BY <1>5 DEF MarkStep, Marks
  <1> QED
    BY <1>6, <1>9, <1>10 DEF Received, b

LEMMA ReceiveOther ==
  ASSUME NEW a \in Picture, Shows(a), ClientTyped, a.room, NEW p \in Packet, Receive(p), ~crashed,
         p.type \in {"ADD_ROOM", "ERROR", "INFO"}
  PROVE  Received(a, p)
  <1>1. screen = "room" /\ After(a, p) = a
    BY DEF Shows, After
  <1>2. UNCHANGED <<screen, players, host_index, crashed>>
        /\ \/ UNCHANGED <<popups, reactable>>
           \/ popups' = popups \cup {"error"} /\ reactable' = FALSE
    BY <1>1 DEF Receive, RoomPacket, Popup, client
  <1>3. ClientTyped' /\ ~crashed' /\ (NeverStuck => NeverStuck')
    BY <1>2 DEF ClientTyped, NeverStuck
  <1>4. Shows(a)'
    BY <1>2 DEF Shows
  <1>5. MarkStep(p)
    BY <1>2 DEF MarkStep, Marks
  <1> QED
    BY <1>1, <1>3, <1>4, <1>5 DEF Received

\* Seats that change their boards or their players, with the facts that Shows is made of.
LEMMA OwnSeat ==
  ASSUME NEW a \in Picture, Shows(a), ClientTyped, a.room
  PROVE  /\ screen = "room" /\ players[1].id = Me /\ 1 \in Seats /\ Me # None /\ Me \in a.ids
         /\ players \in [Seats -> Session] /\ \A i \in Seats : players[i] \in Session /\ players[i].id \in People \cup {None}
         /\ \A i, j \in Seats : players[i].id = players[j].id /\ players[i].id # None => i = j
         /\ \A i \in Seats : players[i].id # None => players[i].id \in a.ids
         /\ \A q \in a.ids : \E i \in Seats : players[i].id = q
         /\ (SelfIsHost <=> a.host = Me)
  <1>1. screen = "room" /\ players[1].id = Me /\ 1 \in Seats /\ Me # None
    BY SeatFacts, PeopleFacts DEF Shows
  <1>2. players \in [Seats -> Session] /\ \A i \in Seats : players[i] \in Session /\ players[i].id \in People \cup {None}
    BY DEF ClientTyped, Session
  <1>3. \A i, j \in Seats : players[i].id = players[j].id /\ players[i].id # None => i = j
    BY DEF Shows
  <1>4. a.ids = {players[i].id : i \in Seats} \ {None}
    BY DEF Shows
  <1>5. SelfIsHost <=> host_index = 1
    <2>1. host_index \in {-1} \cup Seats /\ -1 \notin Seats /\ 1 # -1
      BY SeatFacts DEF ClientTyped
    <2> QED
      BY <1>1, <1>3, <2>1 DEF SelfIsHost
  <1>6. host_index = 1 <=> a.host = Me
    BY DEF Shows
  <1> QED
    BY <1>1, <1>2, <1>3, <1>4, <1>5, <1>6

\* Fewer players than seats leave a seat free.
LEMMA RoomLeft ==
  ASSUME NEW a \in Picture, Shows(a), ClientTyped, a.room, Cardinality(a.ids) < SeatCount
  PROVE  Index(None) # {}
  <1> SUFFICES ASSUME Index(None) = {} PROVE FALSE
    OBVIOUS
  <1> DEFINE f == [i \in Seats |-> players[i].id]
  <1>1. \A i \in Seats : players[i].id # None
    BY DEF Index
  <1>2. f \in [Seats -> a.ids] /\ \A q \in a.ids : \E i \in Seats : f[i] = q
    BY <1>1, OwnSeat
  <1>3. \A i, j \in Seats : f[i] = f[j] => i = j
    BY <1>1, OwnSeat
  <1> HIDE DEF f
  <1>4. f \in Surjection(Seats, a.ids) /\ f \in Injection(Seats, a.ids)
    BY <1>2, <1>3 DEF Surjection, Injection, IsInjective
  <1>5. Cardinality(a.ids) = Cardinality(Seats)
    BY <1>4, SeatFacts, FS_Surjection
  <1> QED
    BY <1>5, SeatFacts

LEMMA ReceiveAdd ==
  ASSUME NEW a \in Picture, Shows(a), ClientTyped, a.room, NEW p \in Packet, Receive(p), ~crashed, p.type = "ADD_USER",
         Fits(a, p)
  PROVE  Received(a, p)
  <1> DEFINE b == After(a, p)
             n == FirstOf(Index(None))
             f(s) == InitSession(s, p.id)
  <1>1. screen = "room" /\ p.id \in People \ a.ids /\ p.id # None /\ Index(None) # {}
    BY PacketKinds, PeopleFacts, RoomLeft DEF Shows, Fits
  <1>2. b = [a EXCEPT !.ids = @ \cup {p.id}, !.pieces[p.id] = 0, !.playing = @ \ {p.id}] /\ b \in Picture
    BY AfterPicture DEF After
  <1>3. Index(p.id) = {}
    BY <1>1, OwnSeat DEF Index
  <1>4. n \in Seats /\ players[n].id = None /\ n # 1
    <2>1. Index(None) \in SUBSET Seats
      BY DEF Index
    <2>2. n \in Index(None)
      BY <1>1, <2>1, FirstSeat
    <2> QED
      BY <2>2, OwnSeat DEF Index
  <1>5. /\ players' = [players EXCEPT ![n] = f(players[n])]
        /\ UNCHANGED <<screen, host_index, popups, reactable, crashed>>
    <2>1. AddUser(p.id)
      BY <1>1 DEF Receive, RoomPacket
    <2>2. UNCHANGED <<screen, host_index, popups, reactable, crashed>>
      BY <2>1 DEF AddUser
    <2>3. players' = [players EXCEPT ![n] = f(players[n])]
      BY <1>1, <1>3, <2>1 DEF AddUser
    <2> QED
      BY <2>2, <2>3
  <1>6. \A s \in Session : /\ f(s) \in Session /\ f(s).id = p.id /\ f(s).is_host = s.is_host
                           /\ f(s).btn_kick = (s.btn_kick \/ SelfIsHost)
                           /\ f(s).fixed = 0 /\ f(s).state = "WAIT"
    <2> SUFFICES ASSUME NEW s \in Session
                 PROVE  /\ f(s) \in Session /\ f(s).id = p.id /\ f(s).is_host = s.is_host
                        /\ f(s).btn_kick = (s.btn_kick \/ SelfIsHost)
                        /\ f(s).fixed = 0 /\ f(s).state = "WAIT"
      OBVIOUS
    <2> DEFINE kick == s.btn_kick \/ SelfIsHost
    <2>1. kick \in BOOLEAN /\ kick = (s.btn_kick \/ SelfIsHost)
      OBVIOUS
    <2>2. f(s) = [s EXCEPT !.id = p.id, !.state = "WAIT", !.fixed = 0, !.btn_kick = kick]
      BY DEF InitSession
    <2>3. 0 \in 0..(MaxPieces + 1) /\ p.id \in People
      BY <1>1, PeopleFacts
    <2> HIDE DEF f, kick
    <2>4. f(s) \in Session /\ f(s).id = p.id /\ f(s).is_host = s.is_host
                        /\ f(s).btn_kick = kick /\ f(s).fixed = 0 /\ f(s).state = "WAIT"
      BY <2>1, <2>2, <2>3 DEF Session
    <2> QED
      BY <2>1, <2>4
  <1> HIDE DEF f, b, n
  <1>7. /\ players' \in [Seats -> Session]
        /\ \A i \in Seats : i # n => players'[i] = players[i]
        /\ players'[n].id = p.id /\ players'[n].is_host = players[n].is_host
        /\ players'[n].btn_kick = (players[n].btn_kick \/ SelfIsHost)
        /\ players'[n].fixed = 0 /\ players'[n].state = "WAIT"
    BY <1>4, <1>5, <1>6, OwnSeat
  <1>8. ClientTyped' /\ ~crashed' /\ (NeverStuck => NeverStuck')
    BY <1>5, <1>7 DEF ClientTyped, NeverStuck
  <1>9. /\ b.room /\ b.ids = a.ids \cup {p.id} /\ b.host = a.host /\ b.playing = a.playing \ {p.id}
        /\ \A q \in People : b.pieces[q] = IF q = p.id THEN 0 ELSE a.pieces[q]
    BY <1>2 DEF Picture
  <1>10. players'[1] = players[1]
    BY <1>4, <1>7, OwnSeat
  <1>11. Shows(b)'
    <2>1. b.room <=> screen' = "room"
      BY <1>1, <1>5, <1>9
    <2>2. \A i, j \in Seats : players'[i].id = players'[j].id => i = j \/ players'[i].id = None
      <3>1. \A i \in Seats : i # n => players'[i].id # p.id
        BY <1>1, <1>7, OwnSeat
      <3> QED
        BY <1>7, <3>1, OwnSeat
    <2>3. b.ids = {players'[i].id : i \in Seats} \ {None} /\ b.host \in b.ids \cup {None}
      <3>1. \A q : q \in b.ids <=> q # None /\ \E i \in Seats : players'[i].id = q
        <4>1. \A q \in a.ids : q # None /\ \E i \in Seats : i # n /\ players[i].id = q
          BY <1>4, OwnSeat, PeopleFacts DEF Picture
        <4>2. \A i \in Seats : i # n /\ players'[i].id # None => players'[i].id \in a.ids
          BY <1>7, OwnSeat
        <4> QED
          BY <1>1, <1>4, <1>7, <1>9, <4>1, <4>2
      <3> QED
        BY <1>9, <3>1 DEF Shows
    <2>4. \A i \in Seats : players'[i].is_host <=> (players'[i].id = b.host /\ b.host # None)
      <3>1. ~players[n].is_host /\ p.id # a.host
        BY <1>1, <1>4 DEF Shows
      <3> QED
        BY <1>7, <1>9, <3>1 DEF Shows
    <2>5. \A i \in Seats : players'[i].id # None =>
             players'[i].fixed = b.pieces[players'[i].id] /\ (players'[i].state = "PLAY" <=> players'[i].id \in b.playing)
      <3>1. p.id \in People /\ b.pieces[p.id] = 0 /\ p.id \notin b.playing
        BY <1>1, <1>9
      <3>2. \A i \in Seats : i # n /\ players[i].id # None =>
               players[i].id # p.id /\ players[i].id \in People
               /\ players[i].fixed = a.pieces[players[i].id] /\ (players[i].state = "PLAY" <=> players[i].id \in a.playing)
        BY <1>1, OwnSeat DEF Shows, BoardShown
      <3> QED
        BY <1>7, <1>9, <3>1, <3>2
    <2>6. (host_index' = 1 <=> b.host = Me) /\ (players'[1].btn_start <=> b.host = Me)
          /\ (players'[1].btn_ready = "none" <=> b.host = Me) /\ players'[1].id = Me
      BY <1>5, <1>9, <1>10 DEF Shows
    <2>7. b.host = Me => \A i \in Seats \ {1} : players'[i].id # None => players'[i].btn_kick
      BY <1>7, <1>9, OwnSeat DEF Shows
    <2>8. b.host # Me => \A i \in Seats : ~players'[i].btn_kick
      BY <1>4, <1>7, <1>9, OwnSeat DEF Shows
    <2> QED
      BY <2>1, <2>2, <2>3, <2>4, <2>5, <2>6, <2>7, <2>8 DEF Shows, BoardShown
  <1>12. MarkStep(p)
    BY <1>10 DEF MarkStep, Marks
  <1> QED
    BY <1>8, <1>9, <1>11, <1>12 DEF Received, b

LEMMA ReceiveHost ==
  ASSUME NEW a \in Picture, Shows(a), ClientTyped, a.room, NEW p \in Packet, Receive(p), ~crashed,
         p.type = "UPDATE_HOST", Fits(a, p)
  PROVE  Received(a, p)
  <1> DEFINE b == After(a, p)
             n == FirstOf(Index(p.id))
             hosted == [players EXCEPT ![n] = AsHost(@)]
  <1>1. screen = "room" /\ p.id \in a.ids /\ p.id \in People /\ p.id # None /\ a.host = None
    BY PacketKinds, PeopleFacts DEF Shows, Fits
  <1>2. b = [a EXCEPT !.host = p.id] /\ b \in Picture
    BY AfterPicture DEF After
  <1>3. n \in Seats /\ players[n].id = p.id /\ Index(p.id) # {} /\ HostSeat(n) = n
    <2>1. Index(p.id) \in SUBSET Seats /\ Index(p.id) # {}
      BY <1>1, OwnSeat DEF Index
    <2>2. n \in Index(p.id)
      BY <2>1, FirstSeat
    <2> QED
      BY <2>1, <2>2, SeatFacts DEF Index, HostSeat
  <1>4. n = 1 <=> p.id = Me
    BY <1>1, <1>3, OwnSeat
  <1>5. /\ host_index' = n /\ UNCHANGED <<screen, popups, reactable>>
        /\ players' = IF hosted[n].id = Me
                      THEN [i \in Seats |-> [hosted[i] EXCEPT !.btn_kick = @ \/ (hosted[i].id # None /\ i # n)]]
                      ELSE hosted
        /\ crashed' = (hosted[n].id = None)
    <2>1. UpdateHost(p.id)
      BY <1>1 DEF Receive, RoomPacket
    <2> QED
      BY <1>3, <2>1 DEF UpdateHost
  <1>6. \A s \in Session : /\ AsHost(s) \in Session /\ AsHost(s).id = s.id /\ AsHost(s).is_host = TRUE
                           /\ AsHost(s).btn_kick = s.btn_kick /\ AsHost(s).fixed = s.fixed /\ AsHost(s).state = s.state
                           /\ s.id = Me => AsHost(s).btn_start = TRUE /\ AsHost(s).btn_ready = "none"
                           /\ s.id # Me => AsHost(s).btn_start = s.btn_start /\ AsHost(s).btn_ready = s.btn_ready
    BY DEF AsHost, Session
  <1>7. /\ hosted \in [Seats -> Session] /\ hosted[n].id = p.id
        /\ \A i \in Seats : /\ hosted[i].id = players[i].id /\ hosted[i].btn_kick = players[i].btn_kick
                            /\ hosted[i].fixed = players[i].fixed /\ hosted[i].state = players[i].state
                            /\ hosted[i].is_host = (i = n \/ players[i].is_host)
        /\ p.id = Me => hosted[1].btn_start = TRUE /\ hosted[1].btn_ready = "none"
        /\ p.id # Me => hosted[1].btn_start = players[1].btn_start /\ hosted[1].btn_ready = players[1].btn_ready
    <2>1. \A i \in Seats : hosted[i] = IF i = n THEN AsHost(players[i]) ELSE players[i]
      BY <1>3, OwnSeat
    <2>2. hosted \in [Seats -> Session]
      BY <1>3, <1>6, OwnSeat
    <2> HIDE DEF hosted
    <2>3. \A i \in Seats : /\ hosted[i].id = players[i].id /\ hosted[i].btn_kick = players[i].btn_kick
                            /\ hosted[i].fixed = players[i].fixed /\ hosted[i].state = players[i].state
                            /\ hosted[i].is_host = (i = n \/ players[i].is_host)
      <3> SUFFICES ASSUME NEW i \in Seats
                   PROVE  /\ hosted[i].id = players[i].id /\ hosted[i].btn_kick = players[i].btn_kick
                          /\ hosted[i].fixed = players[i].fixed /\ hosted[i].state = players[i].state
                          /\ hosted[i].is_host = (i = n \/ players[i].is_host)
        OBVIOUS
      <3>1. players[i] \in Session /\ players[i].is_host \in BOOLEAN
        BY OwnSeat DEF Session
      <3>2. CASE i = n
        BY <1>6, <2>1, <3>1, <3>2
      <3>3. CASE i # n
        BY <2>1, <3>1, <3>3
      <3> QED
        BY <3>2, <3>3
    <2>4. p.id = Me => hosted[1].btn_start = TRUE /\ hosted[1].btn_ready = "none"
      BY <1>4, <1>6, <2>1, OwnSeat
    <2>5. p.id # Me => hosted[1].btn_start = players[1].btn_start /\ hosted[1].btn_ready = players[1].btn_ready
      BY <1>4, <2>1, OwnSeat
    <2> QED
      BY <1>3, <2>2, <2>3, <2>4, <2>5
  <1> HIDE DEF hosted, n, b
  <1>8. /\ players' \in [Seats -> Session]
        /\ \A i \in Seats : /\ players'[i].id = players[i].id /\ players'[i].fixed = players[i].fixed
                            /\ players'[i].state = players[i].state
                            /\ players'[i].is_host = (i = n \/ players[i].is_host)
                            /\ players'[i].btn_start = hosted[i].btn_start /\ players'[i].btn_ready = hosted[i].btn_ready
        /\ p.id = Me => \A i \in Seats \ {1} : players[i].id # None => players'[i].btn_kick
        /\ p.id # Me => \A i \in Seats : players'[i].btn_kick = players[i].btn_kick
    <2>1. CASE p.id # Me
      BY <1>5, <1>7, <2>1
    <2>2. CASE p.id = Me
      <3> DEFINE g(i) == hosted[i].btn_kick \/ (hosted[i].id # None /\ i # n)
      <3>1. \A i \in Seats : g(i) \in BOOLEAN
        OBVIOUS
      <3>2. players' = [i \in Seats |-> [hosted[i] EXCEPT !.btn_kick = g(i)]]
        BY <1>5, <1>7, <2>2
      <3>3. \A i \in Seats : i # 1 /\ players[i].id # None => g(i)
        BY <1>4, <1>7, <2>2
      <3> HIDE DEF g
      <3>4. \A i \in Seats : hosted[i] \in Session
        BY <1>7
      <3>5. \A i \in Seats : /\ players'[i] \in Session /\ players'[i].id = hosted[i].id /\ players'[i].fixed = hosted[i].fixed
                             /\ players'[i].state = hosted[i].state /\ players'[i].is_host = hosted[i].is_host
                             /\ players'[i].btn_start = hosted[i].btn_start /\ players'[i].btn_ready = hosted[i].btn_ready
                             /\ players'[i].btn_kick = g(i)
        BY <3>1, <3>2, <3>4 DEF Session
      <3>6. players' \in [Seats -> Session]
        BY <3>2, <3>5
      <3> QED
        BY <1>7, <2>2, <3>3, <3>5, <3>6
    <2> QED
      BY <2>1, <2>2
  <1>9. ClientTyped' /\ ~crashed' /\ (NeverStuck => NeverStuck')
    BY <1>1, <1>3, <1>5, <1>7, <1>8 DEF ClientTyped, NeverStuck
  <1>10. b.room /\ b.ids = a.ids /\ b.host = p.id /\ b.playing = a.playing /\ b.pieces = a.pieces
    BY <1>2 DEF Picture
  <1>11. Shows(b)'
    <2>1. b.room <=> screen' = "room"
      BY <1>1, <1>5, <1>10
    <2>2. \A i, j \in Seats : players'[i].id = players'[j].id => i = j \/ players'[i].id = None
      BY <1>8 DEF Shows
    <2>3. b.ids = {players'[i].id : i \in Seats} \ {None} /\ b.host \in b.ids \cup {None}
      <3>1. {players'[i].id : i \in Seats} = {players[i].id : i \in Seats}
        BY <1>8
      <3> QED
        BY <1>1, <1>10, <3>1 DEF Shows
    <2>4. \A i \in Seats : players'[i].is_host <=> (players'[i].id = b.host /\ b.host # None)
      <3>1. \A i \in Seats : ~players[i].is_host /\ (players[i].id = p.id <=> i = n)
        BY <1>1, <1>3, OwnSeat DEF Shows
      <3> QED
        BY <1>1, <1>8, <1>10, <3>1
    <2>5. \A i \in Seats : players'[i].id # None =>
             players'[i].fixed = b.pieces[players'[i].id] /\ (players'[i].state = "PLAY" <=> players'[i].id \in b.playing)
      BY <1>8, <1>10 DEF Shows, BoardShown
    <2>6. (host_index' = 1 <=> b.host = Me) /\ (players'[1].btn_start <=> b.host = Me)
          /\ (players'[1].btn_ready = "none" <=> b.host = Me) /\ players'[1].id = Me
      <3>1. players[1].id = Me /\ 1 \in Seats /\ Me # None /\ ~players[1].btn_start /\ players[1].btn_ready # "none"
        BY <1>1, OwnSeat DEF Shows
      <3> QED
        BY <1>4, <1>5, <1>7, <1>8, <1>10, <3>1
    <2>7. b.host = Me => \A i \in Seats \ {1} : players'[i].id # None => players'[i].btn_kick
      BY <1>8, <1>10
    <2>8. b.host # Me => \A i \in Seats : ~players'[i].btn_kick
      BY <1>1, <1>8, <1>10, OwnSeat DEF Shows
    <2> QED
      BY <2>1, <2>2, <2>3, <2>4, <2>5, <2>6, <2>7, <2>8 DEF Shows, BoardShown
  <1>12. MarkStep(p)
    BY <1>7, <1>8, OwnSeat DEF MarkStep, Marks
  <1> QED
    BY <1>9, <1>10, <1>11, <1>12 DEF Received, b

LEMMA ReceiveDelete ==
  ASSUME NEW a \in Picture, Shows(a), ClientTyped, a.room, NEW p \in Packet, Receive(p), ~crashed, p.type = "DELETE_USER"
  PROVE  Received(a, p)
  <1> DEFINE b == After(a, p)
  <1>1. screen = "room" /\ p.id \in People /\ p.id # None /\ DeleteUser(p.id)
    BY PacketKinds, PeopleFacts DEF Shows, Receive, RoomPacket
  <1>2. CASE p.id = Me
    <2>1. screen' = "lobby" /\ players' = [i \in Seats |-> EmptySeat] /\ host_index' = -1 /\ popups' = {} /\ reactable' = TRUE
          /\ UNCHANGED crashed
      BY <1>1, <1>2 DEF DeleteUser
    <2>2. b = Lobby
      BY <1>2 DEF After
    <2>3. ClientTyped' /\ ~crashed' /\ NeverStuck'
      BY <2>1, EmptySession DEF ClientTyped, NeverStuck
    <2>4. Shows(Lobby)'
      BY <2>1 DEF Shows, Lobby
    <2>5. MarkStep(p)
      BY <1>2 DEF MarkStep, Marks
    <2> QED
      BY <2>2, <2>3, <2>4, <2>5 DEF Received
  <1>3. CASE p.id # Me
    <2>1. /\ players' = [i \in Seats |-> IF players[i].id = p.id THEN ClearSeat(players[i]) ELSE players[i]]
          /\ UNCHANGED <<screen, host_index, popups, reactable, crashed>>
      BY <1>1, <1>3 DEF DeleteUser
    <2>2. b = [a EXCEPT !.ids = @ \ {p.id}, !.playing = @ \ {p.id}, !.host = IF @ = p.id THEN None ELSE @] /\ b \in Picture
      BY <1>3, AfterPicture DEF After
    <2>3. \A s \in Session : LET c == ClearSeat(s)
                             IN  /\ c \in Session /\ c.id = None /\ ~c.is_host /\ c.btn_kick = s.btn_kick
      <3> SUFFICES ASSUME NEW s \in Session
                   PROVE  LET c == ClearSeat(s)
                          IN  /\ c \in Session /\ c.id = None /\ ~c.is_host /\ c.btn_kick = s.btn_kick
        OBVIOUS
      <3>1. 0 \in 0..(MaxPieces + 1)
        BY PeopleFacts
      <3> DEFINE c == [s EXCEPT !.id = None, !.state = "EMPTY", !.fixed = 0, !.is_host = FALSE]
      <3>2. c \in Session /\ c.id = None /\ ~c.is_host /\ c.btn_kick = s.btn_kick
        BY <3>1 DEF Session
      <3>3. ClearSeat(s) = c
        BY DEF ClearSeat
      <3> HIDE DEF c
      <3> QED
        BY <3>2, <3>3
    <2>4. /\ players' \in [Seats -> Session]
          /\ \A i \in Seats : IF players[i].id = p.id
                              THEN players'[i].id = None /\ ~players'[i].is_host /\ players'[i].btn_kick = players[i].btn_kick
                              ELSE players'[i] = players[i]
      BY <2>1, <2>3, OwnSeat
    <2> HIDE DEF b
    <2>5. players'[1] = players[1]
      BY <1>3, <2>4, OwnSeat
    <2>6. ClientTyped' /\ ~crashed' /\ (NeverStuck => NeverStuck')
      BY <2>1, <2>4 DEF ClientTyped, NeverStuck
    <2>7. /\ b.room /\ b.ids = a.ids \ {p.id} /\ b.host = (IF a.host = p.id THEN None ELSE a.host)
          /\ b.playing = a.playing \ {p.id} /\ b.pieces = a.pieces
      BY <2>2 DEF Picture
    <2>8. Shows(b)'
      <3>1. b.room <=> screen' = "room"
        BY <1>1, <2>1, <2>7
      <3>2. \A i, j \in Seats : players'[i].id = players'[j].id => i = j \/ players'[i].id = None
        BY <2>4, OwnSeat
      <3>3. b.ids = {players'[i].id : i \in Seats} \ {None} /\ b.host \in b.ids \cup {None}
        <4>1. \A q : q \in a.ids <=> q # None /\ \E i \in Seats : players[i].id = q
          BY DEF Shows
        <4>2. \A q : q \in b.ids <=> q # None /\ \E i \in Seats : players'[i].id = q
          BY <2>4, <2>7, <4>1
        <4>3. a.host \in a.ids \cup {None}
          BY DEF Shows
        <4> QED
          BY <2>7, <4>2, <4>3
      <3>4. \A i \in Seats : players'[i].is_host <=> (players'[i].id = b.host /\ b.host # None)
        <4>1. \A i \in Seats : players[i].is_host <=> (players[i].id = a.host /\ a.host # None)
          BY DEF Shows
        <4> QED
          BY <2>4, <2>7, <4>1
      <3>5. \A i \in Seats : players'[i].id # None =>
               players'[i].fixed = b.pieces[players'[i].id] /\ (players'[i].state = "PLAY" <=> players'[i].id \in b.playing)
        <4>1. \A i \in Seats : players[i].id # None =>
               players[i].fixed = a.pieces[players[i].id] /\ (players[i].state = "PLAY" <=> players[i].id \in a.playing)
          BY DEF Shows, BoardShown
        <4> QED
          BY <2>4, <2>7, <4>1
      <3>6. (host_index' = 1 <=> b.host = Me) /\ (players'[1].btn_start <=> b.host = Me)
            /\ (players'[1].btn_ready = "none" <=> b.host = Me) /\ players'[1].id = Me
        BY <1>3, <2>1, <2>5, <2>7, OwnSeat DEF Shows
      <3>7. b.host = Me => \A i \in Seats \ {1} : players'[i].id # None => players'[i].btn_kick
        BY <2>4, <2>7, OwnSeat DEF Shows
      <3>8. b.host # Me => \A i \in Seats : ~players'[i].btn_kick
        <4>1. b.host # Me => a.host # Me
          BY <1>3, <2>7
        <4> QED
          BY <2>4, <4>1 DEF Shows
      <3> QED
        BY <3>1, <3>2, <3>3, <3>4, <3>5, <3>6, <3>7, <3>8 DEF Shows, BoardShown
    <2>9. MarkStep(p)
      BY <2>5 DEF MarkStep, Marks
    <2> QED
      BY <2>6, <2>7, <2>8, <2>9 DEF Received, b
  <1> QED
    BY <1>2, <1>3

\* Whatever fits is received as the picture says.
LEMMA ReceiveAny ==
  ASSUME NEW a \in Picture, Shows(a), ClientTyped, NEW p \in Packet, Receive(p), ~crashed, Fits(a, p)
  PROVE  Received(a, p)
  BY PacketKinds, ReceiveOutside, ReceiveAdd, ReceiveHost, ReceiveDelete, ReceiveReady, ReceiveFix, ReceiveGameover,
     ReceiveStart, ReceiveEnd, ReceiveOther

----------------------------------------------------------------------------
(* The packets under way. *)

LEMMA Concatenated ==
  ASSUME NEW p \in Seq(Packet), NEW q \in Seq(Packet)
  PROVE  /\ p \o q \in Seq(Packet) /\ Len(p) \in Nat /\ Len(q) \in Nat /\ Len(p \o q) = Len(p) + Len(q)
         /\ \A k \in 1..Len(p) : (p \o q)[k] = p[k]
         /\ \A k \in 1..Len(q) : (p \o q)[Len(p) + k] = q[k]
         /\ \A k \in (Len(p) + 1)..(Len(p) + Len(q)) : (p \o q)[k] = q[k - Len(p)]
  BY ConcatProperties

\* Tale f is tale h of the packets p, and then tale g of the packets q.
GoesOn(f, h, p, g, q) ==
  /\ Tale(f, p \o q)
  /\ \A k \in 0..Len(p) : f[k] = h[k]
  /\ \A k \in 0..Len(q) : f[Len(p) + k] = g[k]

\* A tale goes on with the tale of what is sent next.
LEMMA TaleGoesOn ==
  ASSUME NEW p \in Seq(Packet), NEW q \in Seq(Packet), NEW h, Tale(h, p), NEW g, Tale(g, q), g[0] = h[Len(p)]
  PROVE  \E f : GoesOn(f, h, p, g, q)
  <1> DEFINE P == Len(p)
             Q == Len(q)
             f == [k \in 0..(P + Q) |-> IF k <= P THEN h[k] ELSE g[k - P]]
  <1>1. P \in Nat /\ Q \in Nat /\ Len(p \o q) = P + Q
    BY Concatenated
  <1>2. h \in [0..P -> Picture] /\ g \in [0..Q -> Picture]
    BY DEF Tale
  <1>3. \A k \in 0..P : f[k] = h[k]
    BY <1>1
  <1>4. \A k \in 0..Q : f[P + k] = g[k]
    BY <1>1
  <1>5. f \in [0..(P + Q) -> Picture]
    BY <1>1, <1>2
  <1> HIDE DEF f
  <1>6. ASSUME NEW k \in 1..(P + Q)
        PROVE  f[k] = After(f[k - 1], (p \o q)[k]) /\ Fits(f[k - 1], (p \o q)[k])
    <2>1. CASE k <= P
      <3>1. k \in 1..P /\ k - 1 \in 0..P /\ k \in 0..P
        BY <1>1, <2>1
      <3>2. (p \o q)[k] = p[k] /\ f[k] = h[k] /\ f[k - 1] = h[k - 1]
        BY <1>3, <3>1, Concatenated
      <3>3. h[k] = After(h[k - 1], p[k]) /\ Fits(h[k - 1], p[k])
        BY <3>1 DEF Tale
      <3> QED
        BY <3>2, <3>3
    <2>2. CASE k > P
      <3>1. k - P \in 1..Q /\ (k - P) - 1 \in 0..Q /\ k - P \in 0..Q /\ k = P + (k - P) /\ k - 1 = P + ((k - P) - 1)
        BY <1>1, <2>2
      <3>2. (p \o q)[k] = q[k - P] /\ f[k] = g[k - P] /\ f[k - 1] = g[(k - P) - 1]
        BY <1>1, <1>4, <3>1, Concatenated
      <3>3. g[k - P] = After(g[(k - P) - 1], q[k - P]) /\ Fits(g[(k - P) - 1], q[k - P])
        BY <3>1 DEF Tale
      <3> QED
        BY <3>2, <3>3
    <2> QED
      BY <1>1, <2>1, <2>2
  <1>7. Tale(f, p \o q)
    BY <1>1, <1>5, <1>6 DEF Tale
  <1> QED
    BY <1>3, <1>4, <1>7 DEF GoesOn

\* The room sends the packets of q to a client that does nothing meanwhile.
LEMMA SendTale ==
  ASSUME Typed, Tells, UNCHANGED client, NEW q \in Seq(Packet), s2c' = s2c \o q,
         NEW a, Ends(a), NEW g, Tale(g, q), g[0] = a,
         Me \in Seated' => /\ Me \in Seated /\ Mirrors(g[Len(q)])' /\ (host_id = Me => host_id' = Me)
                           /\ \A k \in 1..Len(q) : g[k].host = Me => host_id' = Me
  PROVE  Tells'
  <1>1. PICK h \in [0..Len(s2c) -> Picture] : Told(h, a)
    BY DEF Ends
  <1>2. s2c \in Seq(Packet) /\ Len(s2c) \in Nat /\ Len(q) \in Nat /\ s2c' \in Seq(Packet) /\ Len(s2c') = Len(s2c) + Len(q)
    BY Concatenated DEF Typed, ChannelsTyped
  <1>3. PICK f : /\ Tale(f, s2c')
                 /\ \A k \in 0..Len(s2c) : f[k] = h[k]
                 /\ \A k \in 0..Len(q) : f[Len(s2c) + k] = g[k]
    <2>1. Tale(h, s2c) /\ g[0] = h[Len(s2c)]
      BY <1>1 DEF Told
    <2>2. PICK s \in Seq(Packet) : s = s2c
      BY <1>2
    <2>3. Tale(h, s) /\ g[0] = h[Len(s)]
      BY <2>1, <2>2
    <2>4. \E f : GoesOn(f, h, s, g, q)
      BY <2>3, TaleGoesOn
    <2> QED
      BY <2>2, <2>4 DEF GoesOn
  <1>4. f[0] = h[0] /\ f[Len(s2c')] = g[Len(q)] /\ f \in [0..Len(s2c') -> Picture] /\ g[Len(q)] \in Picture
    BY <1>2, <1>3 DEF Tale
  <1>5. Shows(f[0])'
    <2>1. Shows(f[0])
      BY <1>1, <1>4 DEF Told
    <2> QED
      BY <2>1 DEF client, Shows, BoardShown
  <1>6. ASSUME Me \in Seated', NEW k \in 0..Len(s2c'), f[k].host = Me
        PROVE  host_id' = Me
    <2>1. CASE k <= Len(s2c)
      BY <1>1, <1>2, <1>3, <1>6, <2>1 DEF Told
    <2>2. CASE k > Len(s2c)
      <3>1. k - Len(s2c) \in 1..Len(q) /\ f[k] = g[k - Len(s2c)]
        <4>1. k - Len(s2c) \in 1..Len(q) /\ k - Len(s2c) \in 0..Len(q) /\ k = Len(s2c) + (k - Len(s2c))
          BY <1>2, <2>2
        <4> QED
          BY <1>3, <4>1
      <3> QED
        BY <1>6, <3>1
    <2> QED
      BY <1>2, <2>1, <2>2
  <1>7. PICK b \in Picture : b = g[Len(q)]
    BY <1>4
  <1>8. Me \in Seated' => Mirrors(b)'
    BY <1>7
  <1>9. Told(f, b)'
    BY <1>3, <1>4, <1>5, <1>6, <1>7, <1>8 DEF Told
  <1>10. Ends(b)'
    BY <1>4, <1>9 DEF Ends
  <1> QED
    BY <1>7, <1>10 DEF Tells, client

\* What the steps of the room keep of the host when the last picture becomes b.
Keeps(b) == Me \in Seated' => Me \in Seated /\ Mirrors(b)' /\ (host_id = Me => host_id' = Me)

\* The host of a picture of the room is the host.
LEMMA HostOfPicture ==
  ASSUME NEW b, Mirrors(b), b.host = Me
  PROVE  host_id = Me
  BY PeopleFacts DEF Mirrors

LEMMA SendNothing ==
  ASSUME Typed, Tells, UNCHANGED client, s2c' = s2c, NEW a \in Picture, Ends(a), Keeps(a)
  PROVE  Tells'
  <1>0. <<>> \in Seq(Packet)
    OBVIOUS
  <1>1. PICK q \in Seq(Packet) : q = <<>>
    BY <1>0
  <1>2. PICK g : g = [k \in 0..0 |-> a]
    OBVIOUS
  <1>3. s2c \in Seq(Packet) /\ Len(q) = 0
    BY <1>1 DEF Typed, ChannelsTyped
  <1>4. s2c' = s2c \o q
    BY <1>1, <1>3
  <1>5. g[0] = a /\ Tale(g, q) /\ g[Len(q)] = a
    BY <1>2, <1>3 DEF Tale
  <1>6. \A k \in 1..Len(q) : FALSE
    BY <1>3
  <1>7. Mirrors(a)' => Mirrors(g[Len(q)])'
    BY <1>5
  <1> QED
    BY <1>4, <1>5, <1>6, <1>7, SendTale DEF Keeps

LEMMA SendOne ==
  ASSUME Typed, Tells, UNCHANGED client, NEW p \in Packet, s2c' = s2c \o <<p>>,
         NEW a \in Picture, Ends(a), Fits(a, p), NEW b, b = After(a, p), Keeps(b)
  PROVE  Tells'
  <1>0. <<p>> \in Seq(Packet)
    OBVIOUS
  <1>1. PICK q \in Seq(Packet) : q = <<p>>
    BY <1>0
  <1>2. PICK g : g = [k \in 0..1 |-> IF k = 0 THEN a ELSE b]
    OBVIOUS
  <1>3. Len(q) = 1 /\ q[1] = p /\ b \in Picture
    BY <1>1, AfterPicture
  <1>4. g[0] = a /\ g[1] = b /\ g \in [0..1 -> Picture]
    BY <1>2, <1>3
  <1>5. \A k \in 1..Len(q) : k = 1 /\ k - 1 = 0
    BY <1>3
  <1>6. Tale(g, q)
    BY <1>3, <1>4, <1>5 DEF Tale
  <1>7. Mirrors(b)' => Mirrors(g[Len(q)])'
    BY <1>3, <1>4
  <1>8. b.host = Me /\ Mirrors(b)' => host_id' = Me
    BY PeopleFacts DEF Mirrors
  <1> QED
    BY <1>1, <1>4, <1>5, <1>6, <1>7, <1>8, SendTale DEF Keeps

LEMMA SendTwo ==
  ASSUME Typed, Tells, UNCHANGED client, NEW p \in Packet, NEW r \in Packet, s2c' = s2c \o <<p, r>>,
         NEW a \in Picture, Ends(a), Fits(a, p), NEW c, c = After(a, p), Fits(c, r), c.host # Me,
         NEW b, b = After(c, r), Keeps(b)
  PROVE  Tells'
  <1>0. <<p, r>> \in Seq(Packet)
    OBVIOUS
  <1>1. PICK q \in Seq(Packet) : q = <<p, r>>
    BY <1>0
  <1>2. PICK g : g = [k \in 0..2 |-> IF k = 0 THEN a ELSE IF k = 1 THEN c ELSE b]
    OBVIOUS
  <1>3. Len(q) = 2 /\ q[1] = p /\ q[2] = r /\ c \in Picture
    BY <1>1, AfterPicture
  <1>4. b \in Picture
    BY <1>3, AfterPicture
  <1>5. g[0] = a /\ g[1] = c /\ g[2] = b /\ g \in [0..2 -> Picture]
    BY <1>2, <1>3, <1>4
  <1>6. \A k \in 1..Len(q) : (k = 1 /\ k - 1 = 0) \/ (k = 2 /\ k - 1 = 1)
    BY <1>3
  <1>7. Tale(g, q)
    BY <1>3, <1>5, <1>6 DEF Tale
  <1>8. Mirrors(b)' => Mirrors(g[Len(q)])'
    BY <1>3, <1>5
  <1>9. b.host = Me /\ Mirrors(b)' => host_id' = Me
    BY PeopleFacts DEF Mirrors
  <1> QED
    BY <1>1, <1>5, <1>6, <1>7, <1>8, <1>9, SendTale DEF Keeps

\* A Me that comes in is told everything from the lobby on.
LEMMA SendAfresh ==
  ASSUME Typed, Tells, UNCHANGED client, screen = "lobby", s2c = <<>>,
         NEW q \in Seq(Packet), s2c' = q, NEW g, Tale(g, q), g[0] = Lobby,
         Mirrors(g[Len(q)])', \A k \in 1..Len(q) : g[k].host = Me => host_id' = Me
  PROVE  Tells'
  <1>1. Shows(g[0])'
    BY DEF client, Shows, Lobby
  <1>2. g \in [0..Len(q) -> Picture] /\ Len(q) \in Nat /\ g[Len(q)] \in Picture
    BY DEF Tale
  <1>3. Lobby.host = None /\ None # Me
    BY PeopleFacts DEF Lobby
  <1>4. \A k \in 0..Len(q) : g[k].host = Me => host_id' = Me
    <2>1. \A k \in 0..Len(q) : k = 0 \/ k \in 1..Len(q)
      BY <1>2
    <2> QED
      BY <1>3, <2>1
  <1>5. PICK b \in Picture : b = g[Len(q)]
    BY <1>2
  <1>6. Mirrors(b)'
    BY <1>5
  <1>7. Told(g, b)'
    BY <1>1, <1>4, <1>5, <1>6 DEF Told
  <1>8. Ends(b)'
    BY <1>2, <1>7 DEF Ends
  <1> QED
    BY <1>5, <1>8 DEF Tells, client

LEMMA LastPicture ==
  ASSUME Tells
  PROVE  ~crashed /\ \E a \in Picture : Ends(a) /\ (Me \in Seated => Mirrors(a))
  BY DEF Tells, Ends, Told

----------------------------------------------------------------------------
(* What the packets of the room do not disturb. *)

\* Packets that keep the beginning.
LEMMA BeginsGoesOn ==
  ASSUME Typed, Begins, UNCHANGED client, NEW q \in Seq(Packet), s2c' = s2c \o q,
         \A k \in 1..Len(q) : q[k].type # "ADD_ROOM" /\ (Me \in Seated' /\ q[k].type = "DELETE_USER" => q[k].id # Me),
         Me \in Seated' => Me \in Seated
  PROVE  Begins'
  <1>1. s2c \in Seq(Packet)
    BY DEF Typed, ChannelsTyped
  <1>2. Len(s2c) \in Nat /\ Len(q) \in Nat /\ DOMAIN s2c = 1..Len(s2c) /\ DOMAIN s2c' = 1..(Len(s2c) + Len(q))
    BY <1>1, Concatenated
  <1>3. \A k \in DOMAIN s2c' : \/ k \in DOMAIN s2c /\ s2c'[k] = s2c[k]
                               \/ k - Len(s2c) \in 1..Len(q) /\ s2c'[k] = q[k - Len(s2c)]
    <2> SUFFICES ASSUME NEW k \in DOMAIN s2c'
                 PROVE  \/ k \in DOMAIN s2c /\ s2c'[k] = s2c[k]
                        \/ k - Len(s2c) \in 1..Len(q) /\ s2c'[k] = q[k - Len(s2c)]
      OBVIOUS
    <2>1. k \in 1..Len(s2c) \/ (k \in (Len(s2c) + 1)..(Len(s2c) + Len(q)) /\ k - Len(s2c) \in 1..Len(q))
      BY <1>2
    <2> QED
      BY <1>1, <1>2, <2>1, Concatenated
  <1>4. s2c # <<>> => 1 \in DOMAIN s2c /\ s2c' # <<>> /\ Head(s2c') = s2c'[1] /\ Head(s2c) = s2c[1] /\ s2c'[1] = s2c[1]
    <2> SUFFICES ASSUME s2c # <<>>
                 PROVE  1 \in DOMAIN s2c /\ s2c' # <<>> /\ Head(s2c') = s2c'[1] /\ Head(s2c) = s2c[1] /\ s2c'[1] = s2c[1]
      OBVIOUS
    <2>1. Len(s2c) >= 1 /\ 1 \in 1..Len(s2c)
      BY <1>1, <1>2
    <2>2. s2c' \in Seq(Packet) /\ Len(s2c') >= 1 /\ s2c'[1] = s2c[1]
      BY <1>1, <1>2, <2>1, Concatenated
    <2> QED
      BY <1>1, <1>2, <2>1, <2>2
  <1>5. \A k \in DOMAIN s2c' : s2c'[k].type = "ADD_ROOM" => k = 1 /\ screen' = "lobby"
    BY <1>3 DEF Begins, client
  <1>6. ASSUME Me \in Seated'
        PROVE  /\ screen' = "lobby" => s2c' # <<>> /\ Head(s2c').type = "ADD_ROOM"
               /\ \A k \in DOMAIN s2c' : s2c'[k].type = "DELETE_USER" => s2c'[k].id # Me
    BY <1>3, <1>4, <1>6 DEF Begins, client
  <1> QED
    BY <1>5, <1>6 DEF Begins

\* Packets that set no mark, when nothing happens to Me's readiness.
LEMMA MarkedGoesOn ==
  ASSUME Typed, Marked, UNCHANGED client, NEW q \in Seq(Packet), s2c' = s2c \o q,
         \A k \in 1..Len(q) : ~Marks(q[k]),
         AsksReady => AsksReady',
         (Me \in Seated' /\ ~unserved' /\ room_state' = "WAIT" /\ host_id' # Me) =>
            /\ Me \in Seated /\ ~unserved /\ room_state = "WAIT" /\ host_id # Me
            /\ (MeReady' <=> MeReady)
  PROVE  Marked'
  <1>1. s2c \in Seq(Packet)
    BY DEF Typed, ChannelsTyped
  <1>2. Len(s2c) \in Nat /\ Len(q) \in Nat /\ DOMAIN s2c = 1..Len(s2c) /\ DOMAIN s2c' = 1..(Len(s2c) + Len(q))
    BY <1>1, Concatenated
  <1>3. \A k \in DOMAIN s2c : k \in DOMAIN s2c' /\ s2c'[k] = s2c[k]
    <2>1. \A k \in 1..Len(s2c) : k \in 1..(Len(s2c) + Len(q))
      BY <1>2
    <2> QED
      BY <1>1, <1>2, <2>1, Concatenated
  <1>4. \A k \in DOMAIN s2c' : k \in DOMAIN s2c \/ ~Marks(s2c'[k])
    <2> SUFFICES ASSUME NEW k \in DOMAIN s2c', k \notin DOMAIN s2c
                 PROVE  ~Marks(s2c'[k])
      OBVIOUS
    <2>1. k \in (Len(s2c) + 1)..(Len(s2c) + Len(q)) /\ k - Len(s2c) \in 1..Len(q)
      BY <1>2
    <2>2. s2c'[k] = q[k - Len(s2c)]
      BY <1>1, <2>1, Concatenated
    <2> QED
      BY <2>1, <2>2
  <1>5. Marking' = Marking
    <2>1. \A k \in DOMAIN s2c : Marks(s2c'[k]) <=> Marks(s2c[k])
      BY <1>3
    <2>2. Marking' = {k \in DOMAIN s2c' : Marks(s2c'[k])}
      BY DEF Marking, Marks
    <2> QED
      BY <1>3, <1>4, <2>1, <2>2 DEF Marking
  <1>6. \A k \in Marking : s2c'[k] = s2c[k]
    BY <1>3 DEF Marking
  <1> QED
    BY <1>5, <1>6 DEF Marked, client

----------------------------------------------------------------------------
(* Steps of the room that the client takes no part in. *)

Apart == UNCHANGED client /\ c2s' \in Seq(Request) /\ Len(c2s') <= MaxRequests
Aside == Apart /\ (AsksReady => AsksReady')

LEMMA ApartKeeps ==
  ASSUME IInv, Apart, ServerTyped', RoomOK', s2c' \in Seq(Packet), Tells', Begins', Marked'
  PROVE  IInv'
  BY DEF IInv, Apart, Typed, ChannelsTyped, ClientTyped, NeverStuck, client

LEMMA OccupiedIs ==
  ASSUME NEW i \in Seats
  PROVE  (i \in Occupied <=> seat[i] # None) /\ (seat[i] # None => seat[i] \in Seated)
  BY DEF Occupied, Seated

LEMMA NewHostIs ==
  ASSUME NEW p
  PROVE  /\ NewHost(p) = 0 => host_id # p \/ \A j \in Seats : seat[j] \in {None, p}
         /\ NewHost(p) # 0 => host_id = p /\ NewHost(p) \in Seats /\ seat[NewHost(p)] \notin {None, p}
  <1>1. PICK rest \in SUBSET Seats : rest = {i \in Seats : seat[i] \notin {None, p}}
    OBVIOUS
  <1>2. NewHost(p) = IF host_id # p THEN 0 ELSE IF rest = {} THEN 0 ELSE FirstOf(rest)
    BY <1>1 DEF NewHost
  <1>3. rest # {} => FirstOf(rest) \in rest
    BY FirstSeat
  <1>4. 0 \notin Seats
    BY SeatFacts
  <1> QED
    BY <1>1, <1>2, <1>3, <1>4

\* The room after a player has been removed.
LEMMA RoomAfterRemoval ==
  ASSUME ServerTyped, RoomOK, NEW p \in Seated, CompletePlayerRemoval(p), UNCHANGED unserved
  PROVE  /\ ServerTyped' /\ RoomOK'
         /\ Seated' = Seated \ {p} /\ Occupied' \subseteq Occupied
         /\ \A j \in Occupied' : /\ seat'[j] = seat[j] /\ seat[j] # p /\ fixed'[j] = fixed[j]
                                 /\ player_state'[j] = player_state[j]
                                    \/ (room_state = "WAIT" /\ player_state'[j] = "WAIT" /\ host_id' = seat[j])
         /\ room_state' = IF Seated = {p} THEN "EMPTY" ELSE room_state
  <1>1. PICK i \in Seats : i = SeatOf(p) /\ seat[i] = p /\ p # None /\ i \in Occupied
    BY SeatOfIs
  <1>2. PICK h : h = NewHost(p)
    OBVIOUS
  <1>3. /\ h = 0 => host_id # p \/ \A j \in Seats : seat[j] \in {None, p}
        /\ h # 0 => host_id = p /\ h \in Seats /\ seat[h] \notin {None, p}
    BY <1>2, NewHostIs
  <1>4. /\ seat' = [seat EXCEPT ![i] = None]
        /\ player_state' = [j \in Seats |-> IF j = i THEN LeftState
                                            ELSE IF j = h /\ room_state = "WAIT" THEN "WAIT"
                                            ELSE player_state[j]]
        /\ fixed' = [fixed EXCEPT ![i] = 0]
        /\ host_id' = IF h # 0 THEN seat[h] ELSE host_id
        /\ room_state' = IF Seated = {p} THEN "EMPTY" ELSE room_state
        /\ mode' = mode
    BY <1>1, <1>2 DEF CompletePlayerRemoval
  <1>5. /\ seat \in [Seats -> People \cup {None}] /\ fixed \in [Seats -> 0..MaxPieces]
        /\ player_state \in [Seats -> {"WAIT", "READY", "PLAY", "GAME_OVER"}]
    BY DEF ServerTyped
  <1>6. /\ seat' \in [Seats -> People \cup {None}] /\ seat'[i] = None
        /\ \A j \in Seats \ {i} : seat'[j] = seat[j] /\ fixed'[j] = fixed[j]
    BY <1>4, <1>5
  <1>7. \A j \in Seats \ {i} : \/ player_state'[j] = player_state[j]
                               \/ (room_state = "WAIT" /\ player_state'[j] = "WAIT" /\ host_id' = seat[j])
    BY <1>3, <1>4, SeatFacts
  <1>8. ServerTyped'
    <2>1. player_state' \in [Seats -> {"WAIT", "READY", "PLAY", "GAME_OVER"}]
      BY <1>4, <1>5 DEF LeftState
    <2>2. fixed' \in [Seats -> 0..MaxPieces]
      <3>1. 0 \in 0..MaxPieces
        BY PeopleFacts
      <3> QED
        BY <1>4, <1>5, <3>1
    <2>3. host_id' \in People \cup {None}
      BY <1>3, <1>4, <1>5 DEF ServerTyped
    <2> QED
      BY <1>4, <1>6, <2>1, <2>2, <2>3 DEF ServerTyped
  <1>9. Occupied' = Occupied \ {i} /\ \A j \in Occupied' : j \in Seats \ {i} /\ j \in Occupied
    BY <1>1, <1>6 DEF Occupied
  <1>10. \A j \in Occupied' : seat'[j] = seat[j] /\ seat[j] # p /\ fixed'[j] = fixed[j]
    BY <1>1, <1>6, <1>9 DEF RoomOK
  <1>11. Seated' = Seated \ {p}
    <2>1. \A q : q \in Seated' <=> q # None /\ \E j \in Seats : seat'[j] = q
      BY DEF Seated
    <2>2. \A q : q \in Seated <=> q # None /\ \E j \in Seats : seat[j] = q
      BY DEF Seated
    <2>3. \A j \in Seats \ {i} : seat[j] # p
      BY <1>1 DEF RoomOK, Occupied
    <2>4. \A q : q \in Seated' <=> q \in Seated /\ q # p
      BY <1>1, <1>6, <2>1, <2>2, <2>3
    <2> QED
      BY <2>4
  <1>12. RoomOK'
    <2>1. \A j, k \in Occupied' : seat'[j] = seat'[k] => j = k
      BY <1>9, <1>10 DEF RoomOK
    <2>2. room_state' = "EMPTY" => Occupied' = {}
      <3>1. CASE Seated = {p}
        <4>1. \A j \in Occupied' : seat[j] \in Seated
          BY <1>9, OccupiedIs
        <4> QED
          BY <1>10, <3>1, <4>1
      <3>2. CASE Seated # {p}
        BY <1>4, <1>9, <3>2 DEF RoomOK
      <3> QED
        BY <3>1, <3>2
    <2>3. room_state' # "EMPTY" => host_id' \in Seated'
      <3> SUFFICES ASSUME room_state' # "EMPTY"
                   PROVE  host_id' \in Seated'
        OBVIOUS
      <3>1. Seated # {p} /\ room_state' = room_state
        BY <1>4
      <3>2. CASE h # 0
        <4>1. h \in Seats /\ seat[h] \notin {None, p} /\ host_id' = seat[h]
          BY <1>3, <1>4, <3>2
        <4> QED
          BY <1>11, <4>1, OccupiedIs
      <3>3. CASE h = 0
        <4>1. host_id' = host_id /\ host_id \in Seated
          BY <1>4, <3>1, <3>3 DEF RoomOK
        <4>2. host_id # p
          <5>1. ~ \A j \in Seats : seat[j] \in {None, p}
            BY <3>1 DEF Seated
          <5> QED
            BY <1>3, <3>3, <5>1
        <4> QED
          BY <1>11, <4>1, <4>2
      <3> QED
        BY <3>2, <3>3
    <2>4. room_state' = "WAIT" => \A j \in Occupied' : player_state'[j] \in {"WAIT", "READY"} /\ fixed'[j] = 0
      BY <1>4, <1>7, <1>9, <1>10 DEF RoomOK
    <2>5. room_state' = "PLAY" => \A j \in Occupied' : player_state'[j] \in {"PLAY", "GAME_OVER"}
      BY <1>4, <1>7, <1>9 DEF RoomOK
    <2>6. Me \in Seated' => mode' = "ROOM"
      BY <1>4, <1>11 DEF RoomOK
    <2> QED
      BY <2>1, <2>2, <2>3, <2>4, <2>5, <2>6 DEF RoomOK
  <1> QED
    BY <1>4, <1>7, <1>8, <1>9, <1>10, <1>11, <1>12

\* Nothing happens to the readiness of a Me that the room waits for.
ReadyKept ==
  (Me \in Seated' /\ ~unserved' /\ room_state' = "WAIT" /\ host_id' # Me) =>
     /\ Me \in Seated /\ ~unserved /\ room_state = "WAIT" /\ host_id # Me
     /\ (MeReady' <=> MeReady)

LEMMA EmptySend ==
  ASSUME s2c \in Seq(Packet)
  PROVE  \E q \in Seq(Packet) : q = <<>> /\ s2c = s2c \o q /\ \A k \in 1..Len(q) : FALSE
  <1>1. <<>> \in Seq(Packet) /\ Len(<<>>) = 0
    OBVIOUS
  <1>2. PICK q \in Seq(Packet) : q = <<>>
    BY <1>1
  <1>3. s2c = s2c \o q /\ Len(q) = 0
    BY <1>2
  <1>4. \A k \in 1..Len(q) : FALSE
    BY <1>3
  <1> QED
    BY <1>2, <1>3, <1>4

LEMMA OneSend ==
  ASSUME NEW p \in Packet
  PROVE  \E q \in Seq(Packet) : q = <<p>> /\ \A k \in 1..Len(q) : q[k] = p
  <1>1. <<p>> \in Seq(Packet) /\ Len(<<p>>) = 1 /\ <<p>>[1] = p
    OBVIOUS
  <1>2. PICK q \in Seq(Packet) : q = <<p>>
    BY <1>1
  <1>3. \A k \in 1..Len(q) : q[k] = p
    BY <1>1, <1>2
  <1> QED
    BY <1>2, <1>3

LEMMA TwoSend ==
  ASSUME NEW p \in Packet, NEW r \in Packet
  PROVE  \E q \in Seq(Packet) : q = <<p, r>> /\ \A k \in 1..Len(q) : q[k] = p \/ q[k] = r
  <1>1. <<p, r>> \in Seq(Packet) /\ Len(<<p, r>>) = 2 /\ <<p, r>>[1] = p /\ <<p, r>>[2] = r
    OBVIOUS
  <1>2. PICK q \in Seq(Packet) : q = <<p, r>>
    BY <1>1
  <1>3. \A k \in 1..Len(q) : q[k] = p \/ q[k] = r
    BY <1>1, <1>2
  <1> QED
    BY <1>2, <1>3

\* A step that tells nothing.
LEMMA SilentStep ==
  ASSUME IInv, Aside, ServerTyped', RoomOK', s2c' = s2c, ReadyKept, NEW a \in Picture, Ends(a), Keeps(a)
  PROVE  IInv'
  <1>1. s2c \in Seq(Packet) /\ Typed /\ Tells /\ Begins /\ Marked /\ UNCHANGED client
    BY DEF IInv, Typed, ChannelsTyped, Aside, Apart
  <1>2. PICK q \in Seq(Packet) : q = <<>> /\ s2c = s2c \o q /\ \A k \in 1..Len(q) : FALSE
    BY <1>1, EmptySend
  <1>3. Tells'
    BY <1>1, SendNothing
  <1>4. Begins'
    BY <1>1, <1>2, BeginsGoesOn DEF Keeps
  <1>5. Marked'
    BY <1>1, <1>2, MarkedGoesOn DEF ReadyKept, Aside
  <1> QED
    BY <1>1, <1>3, <1>4, <1>5, ApartKeeps DEF Aside

\* A step that tells one packet.
LEMMA OneStep ==
  ASSUME IInv, Aside, ServerTyped', RoomOK', NEW p \in Packet, s2c' = s2c \o <<p>>, ReadyKept,
         NEW a \in Picture, Ends(a), Fits(a, p), NEW b, b = After(a, p), Keeps(b),
         ~Marks(p), Me \in Seated' /\ p.type = "DELETE_USER" => p.id # Me
  PROVE  IInv'
  <1>1. s2c \in Seq(Packet) /\ Typed /\ Tells /\ Begins /\ Marked /\ UNCHANGED client
    BY DEF IInv, Typed, ChannelsTyped, Aside, Apart
  <1>2. PICK q \in Seq(Packet) : q = <<p>> /\ \A k \in 1..Len(q) : q[k] = p
    BY OneSend
  <1>3. Tells'
    BY <1>1, SendOne
  <1>4. p.type # "ADD_ROOM"
    BY DEF Marks
  <1>5. Begins'
    BY <1>1, <1>2, <1>4, BeginsGoesOn DEF Keeps
  <1>6. Marked'
    BY <1>1, <1>2, MarkedGoesOn DEF ReadyKept, Aside
  <1>7. s2c' \in Seq(Packet)
    BY <1>1, <1>2, Concatenated
  <1> QED
    BY <1>3, <1>5, <1>6, <1>7, ApartKeeps DEF Aside

\* A step that tells two packets.
LEMMA TwoStep ==
  ASSUME IInv, Aside, ServerTyped', RoomOK', NEW p \in Packet, NEW r \in Packet, s2c' = s2c \o <<p, r>>, ReadyKept,
         NEW a \in Picture, Ends(a), Fits(a, p), NEW c, c = After(a, p), Fits(c, r), c.host # Me,
         NEW b, b = After(c, r), Keeps(b),
         ~Marks(p), ~Marks(r), Me \in Seated' /\ p.type = "DELETE_USER" => p.id # Me, r.type # "DELETE_USER"
  PROVE  IInv'
  <1>1. s2c \in Seq(Packet) /\ Typed /\ Tells /\ Begins /\ Marked /\ UNCHANGED client
    BY DEF IInv, Typed, ChannelsTyped, Aside, Apart
  <1>2. PICK q \in Seq(Packet) : q = <<p, r>> /\ \A k \in 1..Len(q) : q[k] = p \/ q[k] = r
    BY TwoSend
  <1>3. Tells'
    BY <1>1, SendTwo
  <1>4. p.type # "ADD_ROOM" /\ r.type # "ADD_ROOM"
    BY DEF Marks
  <1>5. Begins'
    BY <1>1, <1>2, <1>4, BeginsGoesOn DEF Keeps
  <1>6. Marked'
    BY <1>1, <1>2, MarkedGoesOn DEF ReadyKept, Aside
  <1>7. s2c' \in Seq(Packet)
    BY <1>1, <1>2, Concatenated
  <1> QED
    BY <1>3, <1>5, <1>6, <1>7, ApartKeeps DEF Aside

\* The parts of the invariant.
LEMMA Parts ==
  ASSUME IInv
  PROVE  /\ ServerTyped /\ RoomOK /\ Typed /\ ClientTyped /\ s2c \in Seq(Packet) /\ c2s \in Seq(Request) /\ ~crashed
         /\ seat \in [Seats -> People \cup {None}] /\ fixed \in [Seats -> 0..MaxPieces]
         /\ player_state \in [Seats -> {"WAIT", "READY", "PLAY", "GAME_OVER"}]
         /\ Seated \subseteq People
         /\ \E a \in Picture : Ends(a) /\ (Me \in Seated => Mirrors(a))
  <1>1. Seated \subseteq People
    BY DEF IInv, Typed, ServerTyped, Seated
  <1> QED
    BY <1>1, LastPicture DEF IInv, Typed, ServerTyped, ChannelsTyped

\* Me's readiness is that of its seat.
LEMMA MeReadyIs ==
  ASSUME RoomOK, NEW i \in Seats, seat[i] = Me
  PROVE  MeReady <=> player_state[i] = "READY"
  BY PeopleFacts DEF RoomOK, Occupied, MeReady

----------------------------------------------------------------------------
(* Removals. *)

LEMMA Pair ==
  ASSUME NEW d \in Packet, NEW u \in Packet
  PROVE  <<d>> \o <<u>> = <<d, u>>
  <1> DEFINE x == <<d>>
             y == <<u>>
             z == <<d, u>>
  <1>1. x \in Seq(Packet) /\ y \in Seq(Packet) /\ z \in Seq(Packet) /\ Len(x) = 1 /\ Len(y) = 1 /\ Len(z) = 2
        /\ x[1] = d /\ y[1] = u /\ z[1] = d /\ z[2] = u
    OBVIOUS
  <1> HIDE DEF x, y, z
  <1>2. x \o y \in Seq(Packet) /\ Len(x \o y) = 2
    BY <1>1, ConcatProperties
  <1>3. (x \o y)[1] = d
    BY <1>1, ConcatProperties
  <1>4. (x \o y)[1 + 1] = u
    BY <1>1, ConcatProperties
  <1>5. \A k \in 1..2 : k = 1 \/ k = 2
    OBVIOUS
  <1>6. x \o y = z
    BY <1>1, <1>2, <1>3, <1>4, <1>5, SeqEqual
  <1> QED
    BY <1>6 DEF x, y, z

\* Readiness after a removal.
LEMMA RemovalReady ==
  ASSUME IInv, NEW p \in Seated, CompletePlayerRemoval(p), UNCHANGED unserved, p # Me, Me \in Seated
  PROVE  ReadyKept /\ (host_id = Me => host_id' = Me) /\ room_state' = room_state
  <1>1. ServerTyped /\ RoomOK /\ Me \in People /\ Me # None
    BY Parts, PeopleFacts
  <1>2. /\ ServerTyped' /\ RoomOK' /\ Seated' = Seated \ {p} /\ Occupied' \subseteq Occupied
        /\ \A j \in Occupied' : /\ seat'[j] = seat[j]
                                /\ player_state'[j] = player_state[j]
                                   \/ (room_state = "WAIT" /\ player_state'[j] = "WAIT" /\ host_id' = seat[j])
    BY <1>1, RoomAfterRemoval
  <1>3. room_state' = room_state
    <2>1. Seated # {p}
      OBVIOUS
    <2> QED
      BY <1>1, <2>1, RoomAfterRemoval
  <1>4. host_id = Me => host_id' = Me
    <2>1. host_id = Me => NewHost(p) = 0
      BY NewHostIs
    <2>2. host_id' = IF NewHost(p) # 0 THEN seat[NewHost(p)] ELSE host_id
      BY DEF CompletePlayerRemoval
    <2> QED
      BY <2>1, <2>2
  <1>5. ASSUME Me \in Seated', ~unserved', room_state' = "WAIT", host_id' # Me
        PROVE  MeReady' <=> MeReady
    <2>1. PICK j \in Seats : seat'[j] = Me
      BY <1>5 DEF Seated
    <2>2. j \in Occupied'
      BY <1>1, <2>1 DEF Occupied
    <2>3. seat[j] = Me /\ player_state'[j] = player_state[j]
      BY <1>2, <1>5, <2>1, <2>2
    <2>4. MeReady <=> player_state[j] = "READY"
      BY <1>1, <2>3, MeReadyIs
    <2>5. \A k \in Seats : seat'[k] = Me => k = j
      BY <1>1, <1>2, <2>1 DEF RoomOK, Occupied
    <2>6. MeReady' <=> player_state'[j] = "READY"
      BY <2>1, <2>5 DEF MeReady
    <2> QED
      BY <2>3, <2>4, <2>6
  <1> QED
    BY <1>3, <1>4, <1>5 DEF ReadyKept

\* The picture of a room that a player has left, whose place a new host may have taken.
LEMMA MirrorsAfterRemoval ==
  ASSUME IInv, NEW p \in Seated, CompletePlayerRemoval(p), UNCHANGED unserved, p # Me, Me \in Seated,
         NEW a \in Picture, Mirrors(a), NEW b \in Picture,
         b.room = a.room, b.ids = a.ids \ {p}, b.playing = a.playing \ {p}, b.pieces = a.pieces,
         b.host = host_id' \/ (b.host = None /\ host_id' = Me)
  PROVE  Mirrors(b)'
  <1>1. ServerTyped /\ RoomOK
    BY Parts
  <1>2. /\ Seated' = Seated \ {p} /\ Occupied' \subseteq Occupied
        /\ \A j \in Occupied' : /\ seat'[j] = seat[j] /\ seat[j] # p /\ fixed'[j] = fixed[j]
                                /\ player_state'[j] = player_state[j]
                                   \/ (room_state = "WAIT" /\ player_state'[j] = "WAIT" /\ host_id' = seat[j])
    BY <1>1, RoomAfterRemoval
  <1>3. room_state' = room_state /\ unserved' = unserved
    BY RemovalReady
  <1>4. b.room /\ b.ids = Seated'
    BY <1>2 DEF Mirrors
  <1>5. (room_state' = "WAIT" /\ ~unserved') => \A j \in Occupied' : b.pieces[seat'[j]] = 0
    BY <1>2, <1>3 DEF Mirrors
  <1>6. ASSUME room_state' = "PLAY", ~unserved', NEW j \in Occupied'
        PROVE  b.pieces[seat'[j]] = fixed'[j] /\ (seat'[j] \in b.playing <=> player_state'[j] = "PLAY")
    <2>1. room_state = "PLAY" /\ ~unserved /\ j \in Occupied /\ seat'[j] = seat[j] /\ seat[j] # p /\ fixed'[j] = fixed[j]
          /\ player_state'[j] = player_state[j]
      BY <1>2, <1>3, <1>6
    <2>2. a.pieces[seat[j]] = fixed[j] /\ (seat[j] \in a.playing <=> player_state[j] = "PLAY")
      BY <2>1 DEF Mirrors
    <2> QED
      BY <2>1, <2>2
  <1> QED
    BY <1>4, <1>5, <1>6 DEF Mirrors

\* A removal keeps the invariant.
LEMMA RemovalKeeps ==
  ASSUME IInv, Aside, UNCHANGED unserved, NEW p \in Seated, CompletePlayerRemoval(p)
  PROVE  IInv'
  <1>1. ServerTyped /\ RoomOK /\ p \in People /\ s2c \in Seq(Packet)
    BY Parts
  <1>2. ServerTyped' /\ RoomOK' /\ Seated' = Seated \ {p}
    BY <1>1, RoomAfterRemoval
  <1>3. PICK a \in Picture : Ends(a) /\ (Me \in Seated => Mirrors(a))
    BY Parts
  <1>4. CASE p = Me \/ Me \notin Seated
    <2>1. s2c' = s2c
      BY <1>4 DEF CompletePlayerRemoval, Toward
    <2>2. Me \notin Seated'
      BY <1>2, <1>4
    <2> QED
      BY <1>2, <1>3, <2>1, <2>2, SilentStep DEF ReadyKept, Keeps
  <1>5. CASE p # Me /\ Me \in Seated
    <2>1. PICK h : h = NewHost(p)
      OBVIOUS
    <2>2. s2c' = s2c \o (<< [type |-> "DELETE_USER", id |-> p] >>
                         \o IF h # 0 THEN << [type |-> "UPDATE_HOST", id |-> seat[h]] >> ELSE <<>>)
          /\ host_id' = IF h # 0 THEN seat[h] ELSE host_id
      BY <1>5, <2>1 DEF CompletePlayerRemoval, Toward
    <2>3. PICK d \in Packet : d = [type |-> "DELETE_USER", id |-> p]
      BY <1>1 DEF Packet
    <2>4. d.type = "DELETE_USER" /\ d.id = p /\ ~Marks(d)
      BY <2>3 DEF Marks
    <2>5. Mirrors(a) /\ a.room /\ a.ids = Seated /\ (a.host = host_id \/ (a.host = None /\ host_id = Me))
      BY <1>3, <1>5 DEF Mirrors
    <2>6. PICK c \in Picture : c = After(a, d)
      BY AfterPicture
    <2>7. c = [a EXCEPT !.ids = @ \ {p}, !.playing = @ \ {p}, !.host = IF @ = p THEN None ELSE @]
      BY <1>5, <2>4, <2>5, <2>6 DEF After
    <2>8. c.room = a.room /\ c.ids = a.ids \ {p} /\ c.playing = a.playing \ {p} /\ c.pieces = a.pieces
          /\ c.host = IF a.host = p THEN None ELSE a.host
      BY <2>7 DEF Picture
    <2>9. Fits(a, d)
      BY <2>4 DEF Fits
    <2>10. ReadyKept /\ (host_id = Me => host_id' = Me)
      BY <1>5, RemovalReady
    <2>11. /\ h = 0 => host_id # p \/ \A j \in Seats : seat[j] \in {None, p}
           /\ h # 0 => host_id = p /\ h \in Seats /\ seat[h] \notin {None, p}
      BY <2>1, NewHostIs
    <2>12. CASE h = 0
      <3>1. s2c' = s2c \o <<d>> /\ host_id' = host_id
        <4>1. <<d>> \o <<>> = <<d>>
          OBVIOUS
        <4> QED
          BY <2>2, <2>3, <2>12, <4>1
      <3>2. host_id # p
        BY <1>5, <2>11, <2>12, PeopleFacts DEF Seated
      <3>3. c.host = host_id' \/ (c.host = None /\ host_id' = Me)
        BY <2>5, <2>8, <3>1, <3>2
      <3>4. Mirrors(c)'
        BY <1>5, <2>5, <2>8, <3>3, MirrorsAfterRemoval
      <3>5. Keeps(c)
        BY <1>5, <2>10, <3>4 DEF Keeps
      <3> QED
        BY <1>2, <1>3, <1>5, <2>4, <2>6, <2>9, <2>10, <3>1, <3>5, OneStep
    <2>13. CASE h # 0
      <3>1. PICK q \in People : q = seat[h]
        BY <1>1, <2>11, <2>13 DEF ServerTyped
      <3>2. PICK u \in Packet : u = [type |-> "UPDATE_HOST", id |-> q]
        BY DEF Packet
      <3>3. u.type = "UPDATE_HOST" /\ u.id = q /\ ~Marks(u) /\ u.type # "DELETE_USER"
        BY <3>2 DEF Marks
      <3>4. s2c' = s2c \o <<d, u>> /\ host_id' = q
        <4>1. <<d>> \o <<u>> = <<d, u>>
          BY Pair
        <4> QED
          BY <2>2, <2>3, <2>13, <3>1, <3>2, <4>1
      <3>5. host_id = p /\ q # p /\ q \in Seated
        BY <2>11, <2>13, <3>1, OccupiedIs
      <3>6. c.host = None /\ q \in c.ids /\ c.room
        BY <1>5, <2>5, <2>8, <3>5
      <3>7. Fits(c, u) /\ c.host # Me
        BY <3>3, <3>6, PeopleFacts DEF Fits
      <3>8. PICK b \in Picture : b = After(c, u)
        BY AfterPicture
      <3>9. b = [c EXCEPT !.host = q]
        BY <3>3, <3>6, <3>8 DEF After
      <3>10. b.room = a.room /\ b.ids = a.ids \ {p} /\ b.playing = a.playing \ {p} /\ b.pieces = a.pieces /\ b.host = host_id'
        BY <2>8, <3>4, <3>9 DEF Picture
      <3>11. Mirrors(b)'
        BY <1>5, <2>5, <3>10, MirrorsAfterRemoval
      <3>12. Keeps(b)
        BY <1>5, <2>10, <3>11 DEF Keeps
      <3> QED
        BY <1>2, <1>3, <1>5, <2>4, <2>6, <2>9, <2>10, <3>3, <3>4, <3>7, <3>8, <3>12, TwoStep
    <2> QED
      BY <2>12, <2>13
  <1> QED
    BY <1>4, <1>5

----------------------------------------------------------------------------
(* Ready, start and kick. *)

LEMMA ReadyRoom ==
  ASSUME IInv, NEW p \in Seated, TogglePlayerReady(p), UNCHANGED <<room_state, seat, fixed, host_id, mode, unserved>>
  PROVE  /\ ServerTyped' /\ RoomOK'
         /\ \A i \in Occupied : player_state'[i] = "PLAY" <=> player_state[i] = "PLAY"
         /\ \A i \in Occupied : seat[i] # p => player_state'[i] = player_state[i]
         /\ host_id # p => \A i \in Occupied : seat[i] = p =>
               player_state'[i] = (IF player_state[i] = "READY" THEN "WAIT"
                                   ELSE IF player_state[i] = "WAIT" THEN "READY" ELSE player_state[i])
  <1>1. ServerTyped /\ RoomOK /\ player_state \in [Seats -> {"WAIT", "READY", "PLAY", "GAME_OVER"}]
    BY Parts
  <1>2. PICK i \in Seats : i = SeatOf(p) /\ seat[i] = p /\ i \in Occupied
    BY SeatOfIs
  <1>3. \A j \in Occupied : seat[j] = p <=> j = i
    BY <1>1, <1>2 DEF RoomOK
  <1>4. player_state' = IF host_id = p THEN player_state
                        ELSE [player_state EXCEPT ![i] = IF player_state[i] = "READY" THEN "WAIT"
                                 ELSE IF player_state[i] = "WAIT" THEN "READY" ELSE player_state[i]]
    BY <1>2 DEF TogglePlayerReady
  <1>5. player_state' \in [Seats -> {"WAIT", "READY", "PLAY", "GAME_OVER"}]
    BY <1>1, <1>4
  <1>6. Occupied' = Occupied /\ Seated' = Seated /\ \A j \in Occupied : j \in Seats
    BY DEF Occupied, Seated
  <1>7. ServerTyped'
    BY <1>1, <1>5 DEF ServerTyped
  <1>8. \A j \in Occupied : j # i => player_state'[j] = player_state[j]
    BY <1>1, <1>4, <1>6
  <1>9. host_id # p => player_state'[i] = (IF player_state[i] = "READY" THEN "WAIT"
                                   ELSE IF player_state[i] = "WAIT" THEN "READY" ELSE player_state[i])
    BY <1>1, <1>4
  <1>10. host_id = p => player_state' = player_state
    BY <1>4
  <1>11. room_state = "WAIT" => \A j \in Occupied : player_state'[j] \in {"WAIT", "READY"}
    BY <1>1, <1>8, <1>9, <1>10 DEF RoomOK
  <1>12. room_state = "PLAY" => \A j \in Occupied : player_state'[j] \in {"PLAY", "GAME_OVER"}
    BY <1>1, <1>8, <1>9, <1>10 DEF RoomOK
  <1>13. RoomOK'
    BY <1>1, <1>6, <1>11, <1>12 DEF RoomOK
  <1>14. \A j \in Occupied : player_state'[j] = "PLAY" <=> player_state[j] = "PLAY"
    BY <1>8, <1>9, <1>10
  <1> QED
    BY <1>3, <1>7, <1>8, <1>9, <1>13, <1>14

\* The picture of a room does not show who is ready.
LEMMA ReadyMirrors ==
  ASSUME IInv, NEW p \in Seated, TogglePlayerReady(p), UNCHANGED <<room_state, seat, fixed, host_id, mode, unserved>>,
         NEW a \in Picture, Mirrors(a)
  PROVE  Mirrors(a)'
  <1>1. Occupied' = Occupied /\ Seated' = Seated
    BY DEF Occupied, Seated
  <1>2. \A i \in Occupied : player_state'[i] = "PLAY" <=> player_state[i] = "PLAY"
    BY ReadyRoom
  <1> QED
    BY <1>1, <1>2 DEF Mirrors

\* Another player is ready, or is not any more.
LEMMA OtherReadyKeeps ==
  ASSUME IInv, NEW p \in Others, OtherReady(p)
  PROVE  IInv'
  <1>1. p \in Seated /\ TogglePlayerReady(p) /\ UNCHANGED <<room_state, seat, fixed, host_id, mode, c2s, client, unserved>>
    BY DEF OtherReady
  <1>2. p # Me /\ p \in People /\ ServerTyped /\ RoomOK /\ s2c \in Seq(Packet) /\ c2s \in Seq(Request)
    BY Parts, MeIsSomebody DEF People
  <1>3. ServerTyped' /\ RoomOK'
    BY <1>1, ReadyRoom
  <1>4. Aside
    BY <1>1, <1>2 DEF Aside, Apart, IInv, Typed, ChannelsTyped, AsksReady
  <1>5. Occupied' = Occupied /\ Seated' = Seated
    BY <1>1 DEF Occupied, Seated
  <1>6. PICK a \in Picture : Ends(a) /\ (Me \in Seated => Mirrors(a))
    BY Parts
  <1>7. Me \in Seated => Mirrors(a)'
    BY <1>1, <1>6, ReadyMirrors
  <1>8. Keeps(a)
    BY <1>1, <1>5, <1>7 DEF Keeps
  <1>9. ReadyKept
    <2>1. \A i \in Seats : seat[i] = Me => player_state'[i] = player_state[i]
      BY <1>1, <1>2, PeopleFacts, ReadyRoom DEF Occupied
    <2>2. MeReady' <=> MeReady
      BY <1>1, <2>1 DEF MeReady
    <2> QED
      BY <1>1, <1>5, <2>2 DEF ReadyKept
  <1>10. CASE s2c' = s2c
    BY <1>3, <1>4, <1>6, <1>8, <1>9, <1>10, SilentStep
  <1>11. CASE s2c' # s2c
    <2>0. PICK w \in BOOLEAN : w = (player_state[SeatOf(p)] = "WAIT")
      OBVIOUS
    <2>1. PICK d \in Packet : d = [type |-> "READY", id |-> p, is_ready |-> w]
      BY <1>2 DEF Packet
    <2>2. d.type = "READY" /\ d.id = p /\ ~Marks(d)
      BY <1>2, <2>1 DEF Marks
    <2>3. s2c' = s2c \o <<d>>
      BY <1>1, <1>11, <2>0, <2>1 DEF TogglePlayerReady, Toward
    <2>4. Fits(a, d) /\ a = After(a, d)
      BY <2>2 DEF Fits, After
    <2> QED
      BY <1>3, <1>4, <1>6, <1>8, <1>9, <2>2, <2>3, <2>4, OneStep
  <1> QED
    BY <1>10, <1>11

\* A last packet that sets the mark.
LEMMA MarkedLast ==
  ASSUME Typed, NEW q \in Seq(Packet), NEW n, n = Len(q), n >= 1, Marks(q[n]), s2c' = s2c \o q,
         (Me \in Seated' /\ room_state' = "WAIT" /\ host_id' # Me) =>
            ((q[n].type = "READY" /\ q[n].is_ready) <=> MeReady')
  PROVE  Marked'
  <1>1. s2c \in Seq(Packet) /\ n \in Nat
    BY DEF Typed, ChannelsTyped
  <1>2. Len(s2c) \in Nat /\ DOMAIN s2c' = 1..(Len(s2c) + n) /\ s2c'[Len(s2c) + n] = q[n]
    BY <1>1, Concatenated
  <1>3. PICK m : m = Len(s2c) + n
    OBVIOUS
  <1>4. m \in Nat /\ DOMAIN s2c' = 1..m /\ m \in 1..m /\ s2c'[m] = q[n]
    BY <1>1, <1>2, <1>3
  <1>5. m \in Marking' /\ \A k \in Marking' : k \in 1..m
    <2>1. Marks(s2c'[m])
      BY <1>4
    <2>2. Marking' = {k \in DOMAIN s2c' : Marks(s2c'[k])}
      BY DEF Marking, Marks
    <2> QED
      BY <1>4, <2>1, <2>2
  <1>6. Marking' # {} /\ \A k \in Marking' : (\A j \in Marking' : j <= k) => k = m
    BY <1>4, <1>5
  <1> QED
    BY <1>4, <1>6 DEF Marked

\* The room handles a ready request of Me.
LEMMA OwnReadyKeeps ==
  ASSUME IInv, Apart, Me \in Seated, TogglePlayerReady(Me), UNCHANGED <<room_state, seat, fixed, host_id, mode, unserved>>
  PROVE  IInv'
  <1>1. ServerTyped /\ RoomOK /\ s2c \in Seq(Packet) /\ Me \in People /\ Typed /\ Tells /\ Begins /\ UNCHANGED client
    BY Parts, PeopleFacts DEF IInv, Apart
  <1>2. ServerTyped' /\ RoomOK'
    BY ReadyRoom
  <1>3. Seated' = Seated
    BY DEF Seated
  <1>4. PICK a \in Picture : Ends(a) /\ (Me \in Seated => Mirrors(a))
    BY Parts
  <1>5. Keeps(a)
    BY <1>3, <1>4, ReadyMirrors DEF Keeps
  <1>6. CASE host_id = Me
    <2>1. s2c' = s2c
      BY <1>6 DEF TogglePlayerReady
    <2>2. PICK q \in Seq(Packet) : q = <<>> /\ s2c = s2c \o q /\ \A k \in 1..Len(q) : FALSE
      BY <1>1, EmptySend
    <2>3. Tells'
      BY <1>1, <1>4, <1>5, <2>1, SendNothing
    <2>4. Begins'
      BY <1>1, <1>3, <2>1, <2>2, BeginsGoesOn
    <2>5. Marked'
      BY <1>6 DEF Marked
    <2> QED
      BY <1>1, <1>2, <2>1, <2>3, <2>4, <2>5, ApartKeeps
  <1>7. CASE host_id # Me
    <2>1. PICK i \in Seats : i = SeatOf(Me) /\ seat[i] = Me /\ i \in Occupied
      BY SeatOfIs
    <2>2. PICK w \in BOOLEAN : w = (player_state[i] = "WAIT")
      OBVIOUS
    <2>3. PICK d \in Packet : d = [type |-> "READY", id |-> Me, is_ready |-> w]
      BY <1>1 DEF Packet
    <2>4. d.type = "READY" /\ d.id = Me /\ d.is_ready = w /\ Marks(d)
      BY <2>3 DEF Marks
    <2>5. s2c' = s2c \o <<d>>
      BY <1>7, <2>1, <2>2, <2>3 DEF TogglePlayerReady, Toward
    <2>6. Fits(a, d) /\ a = After(a, d)
      BY <2>4 DEF Fits, After
    <2>7. PICK q \in Seq(Packet) : q = <<d>> /\ \A k \in 1..Len(q) : q[k] = d
      BY OneSend
    <2>8. Tells'
      BY <1>1, <1>4, <1>5, <2>5, <2>6, SendOne
    <2>9. Begins'
      BY <1>1, <1>3, <2>4, <2>5, <2>7, BeginsGoesOn
    <2>10. room_state = "WAIT" => (MeReady' <=> player_state[i] = "WAIT")
      <3>1. player_state'[i] = (IF player_state[i] = "READY" THEN "WAIT"
                                   ELSE IF player_state[i] = "WAIT" THEN "READY" ELSE player_state[i])
        BY <1>7, <2>1, ReadyRoom
      <3>2. room_state = "WAIT" => player_state[i] \in {"WAIT", "READY"}
        BY <1>1, <2>1 DEF RoomOK
      <3>3. \A k \in Seats : seat'[k] = Me <=> k = i
        BY <1>1, <2>1 DEF RoomOK, Occupied
      <3>4. MeReady' <=> player_state'[i] = "READY"
        BY <2>1, <3>3 DEF MeReady
      <3> QED
        BY <3>1, <3>2, <3>4
    <2>11. Marked'
      <3>1. Len(q) = 1
        BY <2>7
      <3>2. PICK n \in Nat : n = 1
        OBVIOUS
      <3>3. n = Len(q) /\ n >= 1 /\ q[n] = d /\ s2c' = s2c \o q
        BY <2>5, <2>7, <3>1, <3>2
      <3>4. (q[n].type = "READY" /\ q[n].is_ready) <=> player_state[i] = "WAIT"
        BY <2>2, <2>4, <3>3
      <3> QED
        BY <1>1, <2>4, <2>10, <3>3, <3>4, MarkedLast
    <2>12. s2c' \in Seq(Packet)
      BY <1>1, <2>5, <2>7, Concatenated
    <2> QED
      BY <1>2, <2>8, <2>9, <2>11, <2>12, ApartKeeps
  <1> QED
    BY <1>6, <1>7

\* A step in which nothing happens to the room.
LEMMA SameServer ==
  ASSUME IInv, UNCHANGED <<server, unserved>>, NEW a \in Picture, Me \in Seated => Mirrors(a)
  PROVE  ServerTyped' /\ RoomOK' /\ ReadyKept /\ Keeps(a) /\ Seated' = Seated
  <1>1. ServerTyped /\ RoomOK
    BY Parts
  <1>2. UNCHANGED <<room_state, seat, player_state, fixed, host_id, mode, unserved>>
    BY DEF server
  <1>3. Seated' = Seated /\ Occupied' = Occupied
    BY <1>2 DEF Seated, Occupied
  <1>4. MeReady' <=> MeReady
    BY <1>2 DEF MeReady
  <1>5. Mirrors(a) => Mirrors(a)'
    BY <1>2, <1>3 DEF Mirrors
  <1>6. ServerTyped' /\ RoomOK'
    BY <1>1, <1>2, <1>3 DEF ServerTyped, RoomOK
  <1> QED
    BY <1>2, <1>3, <1>4, <1>5, <1>6 DEF ReadyKept, Keeps

LEMMA NothingKeeps ==
  ASSUME IInv, Aside, UNCHANGED <<server, unserved, s2c>>
  PROVE  IInv'
  <1>1. PICK a \in Picture : Ends(a) /\ (Me \in Seated => Mirrors(a))
    BY Parts
  <1>2. UNCHANGED <<server, unserved>>
    OBVIOUS
  <1>3. ServerTyped' /\ RoomOK' /\ ReadyKept /\ Keeps(a)
    BY <1>1, <1>2, SameServer
  <1> QED
    BY <1>1, <1>3, SilentStep

\* The packet of a game that starts.
LEMMA StartMirrors ==
  ASSUME IInv, Me \in Seated, NEW a \in Picture, Mirrors(a), room_state = "WAIT", room_state' = "PLAY",
         player_state' = [i \in Seats |-> IF seat[i] # None THEN "PLAY" ELSE player_state[i]],
         fixed' = [i \in Seats |-> 0], UNCHANGED <<seat, host_id, mode, unserved>>,
         NEW b \in Picture, b = [a EXCEPT !.playing = @ \cup a.ids]
  PROVE  Mirrors(b)'
  <1>1. b.room = a.room /\ b.ids = a.ids /\ b.host = a.host /\ b.pieces = a.pieces /\ b.playing = a.playing \cup a.ids
    BY DEF Picture
  <1>2. Seated' = Seated /\ Occupied' = Occupied
    BY DEF Seated, Occupied
  <1>3. \A i \in Occupied : i \in Seats /\ seat[i] # None /\ seat[i] \in Seated
    BY OccupiedIs DEF Occupied
  <1>4. \A i \in Occupied : fixed'[i] = 0 /\ player_state'[i] = "PLAY"
    BY <1>3
  <1>5. a.room /\ a.ids = Seated /\ (a.host = host_id \/ (a.host = None /\ host_id = Me))
        /\ (~unserved => \A i \in Occupied : a.pieces[seat[i]] = 0)
    BY DEF Mirrors
  <1> QED
    BY <1>1, <1>2, <1>3, <1>4, <1>5 DEF Mirrors

LEMMA StartKeeps ==
  ASSUME IInv, Aside, UNCHANGED unserved, NEW p \in Seated, StartGame(p)
  PROVE  IInv'
  <1>1. ServerTyped /\ RoomOK /\ s2c \in Seq(Packet) /\ p \in People
    BY Parts
  <1>2. PICK a \in Picture : Ends(a) /\ (Me \in Seated => Mirrors(a))
    BY Parts
  <1>3. CASE UNCHANGED <<server, s2c>>
    BY <1>3, NothingKeeps
  <1>4. CASE /\ p = host_id /\ room_state # "PLAY" /\ room_state' = "PLAY"
             /\ player_state' = [i \in Seats |-> IF seat[i] # None THEN "PLAY" ELSE player_state[i]]
             /\ fixed' = [i \in Seats |-> 0]
             /\ s2c' = Toward(<< [type |-> "MULTI_START"] >>)
             /\ UNCHANGED <<seat, host_id, mode>>
    <2>1. room_state = "WAIT"
      <3>1. Seated # {}
        OBVIOUS
      <3>2. Occupied # {}
        BY SeatOfIs
      <3> QED
        BY <1>1, <1>4, <3>2 DEF ServerTyped, RoomOK
    <2>2. Seated' = Seated /\ Occupied' = Occupied
      BY <1>4 DEF Seated, Occupied
    <2>3. ServerTyped'
      <3>1. 0 \in 0..MaxPieces
        BY PeopleFacts
      <3>2. fixed' \in [Seats -> 0..MaxPieces]
        BY <1>4, <3>1
      <3>3. player_state' \in [Seats -> {"WAIT", "READY", "PLAY", "GAME_OVER"}]
        BY <1>1, <1>4 DEF ServerTyped
      <3> QED
        BY <1>1, <1>4, <3>2, <3>3 DEF ServerTyped
    <2>4. RoomOK'
      <3>1. \A i \in Occupied : player_state'[i] = "PLAY"
        BY <1>4 DEF Occupied
      <3> QED
        BY <1>1, <1>4, <2>1, <2>2, <3>1 DEF RoomOK
    <2>5. ReadyKept
      BY <1>4 DEF ReadyKept
    <2>6. CASE Me \notin Seated
      <3>1. s2c' = s2c
        BY <1>4, <2>6 DEF Toward
      <3>2. Keeps(a)
        BY <2>2, <2>6 DEF Keeps
      <3> QED
        BY <1>2, <2>3, <2>4, <2>5, <3>1, <3>2, SilentStep
    <2>7. CASE Me \in Seated
      <3>1. PICK d \in Packet : d = [type |-> "MULTI_START"]
        BY DEF Packet
      <3>2. d.type = "MULTI_START" /\ ~Marks(d) /\ d.type # "DELETE_USER" /\ s2c' = s2c \o <<d>>
        BY <1>4, <2>7, <3>1 DEF Marks, Toward
      <3>3. PICK b \in Picture : b = After(a, d)
        BY AfterPicture
      <3>4. a.room /\ b = [a EXCEPT !.playing = @ \cup a.ids] /\ Fits(a, d)
        BY <1>2, <2>7, <3>2, <3>3 DEF After, Fits, Mirrors
      <3>5. Mirrors(b)'
        BY <1>2, <1>4, <2>1, <2>7, <3>4, StartMirrors
      <3>6. Keeps(b)
        BY <1>4, <2>7, <3>5 DEF Keeps
      <3> QED
        BY <1>2, <2>3, <2>4, <2>5, <3>2, <3>3, <3>4, <3>6, OneStep
    <2> QED
      BY <2>6, <2>7
  <1>5. CASE s2c' = Append(s2c, [type |-> "ERROR"]) /\ UNCHANGED server
    <2>1. PICK d \in Packet : d = [type |-> "ERROR"]
      BY DEF Packet
    <2>2. d.type = "ERROR" /\ ~Marks(d) /\ d.type # "DELETE_USER" /\ s2c' = s2c \o <<d>>
      BY <1>1, <1>5, <2>1 DEF Marks
    <2>3. Fits(a, d) /\ a = After(a, d)
      BY <2>2 DEF Fits, After
    <2>4. ServerTyped' /\ RoomOK' /\ ReadyKept /\ Keeps(a)
      BY <1>2, <1>5, SameServer
    <2> QED
      BY <1>2, <2>2, <2>3, <2>4, OneStep
  <1> QED
    BY <1>3, <1>4, <1>5 DEF StartGame, server

\* Me loses its seat and hears of it.
LEMMA KickedKeeps ==
  ASSUME IInv, Aside, UNCHANGED unserved, NEW p \in Seated, p = host_id, p # Me, Me \in Seated, KickPlayer(p, Me)
  PROVE  IInv'
  <1>1. ServerTyped /\ RoomOK /\ s2c \in Seq(Packet) /\ p \in People
    BY Parts
  <1>2. PICK a \in Picture : Ends(a)
    BY Parts
  <1>3. PICK i \in Seats : i = SeatOf(Me) /\ seat[i] = Me /\ i \in Occupied
    BY SeatOfIs
  <1>4. /\ seat' = [seat EXCEPT ![i] = None]
        /\ player_state' = [player_state EXCEPT ![i] = "WAIT"] /\ fixed' = [fixed EXCEPT ![i] = 0]
        /\ s2c' = Append(s2c, [type |-> "INFO"])
        /\ UNCHANGED <<room_state, host_id, mode>>
    BY <1>3 DEF KickPlayer
  <1>5. \A j \in Seats : seat[j] = Me <=> j = i
    BY <1>1, <1>3, PeopleFacts DEF RoomOK, Occupied
  <1>6. seat \in [Seats -> People \cup {None}] /\ fixed \in [Seats -> 0..MaxPieces]
        /\ player_state \in [Seats -> {"WAIT", "READY", "PLAY", "GAME_OVER"}]
    BY Parts
  <1>7. /\ \A j \in Seats : seat'[j] = IF j = i THEN None ELSE seat[j]
        /\ \A j \in Seats : j # i => fixed'[j] = fixed[j] /\ player_state'[j] = player_state[j]
    BY <1>4, <1>6
  <1>8. ServerTyped'
    <2>1. 0 \in 0..MaxPieces
      BY PeopleFacts
    <2>2. seat' \in [Seats -> People \cup {None}] /\ fixed' \in [Seats -> 0..MaxPieces]
          /\ player_state' \in [Seats -> {"WAIT", "READY", "PLAY", "GAME_OVER"}]
      BY <1>4, <1>6, <2>1
    <2> QED
      BY <1>1, <1>4, <2>2 DEF ServerTyped
  <1>9. Occupied' = Occupied \ {i} /\ \A j \in Occupied' : j \in Seats /\ j # i
    BY <1>7 DEF Occupied
  <1>10. Me \notin Seated' /\ \A q \in Seated : q # Me => q \in Seated'
    BY <1>3, <1>5, <1>7 DEF Seated
  <1>11. RoomOK'
    <2>1. \A j, k \in Occupied' : seat'[j] = seat'[k] => j = k
      BY <1>1, <1>7, <1>9 DEF RoomOK
    <2>2. room_state' = "EMPTY" => Occupied' = {}
      BY <1>1, <1>4, <1>9 DEF RoomOK
    <2>3. host_id' \in Seated'
      BY <1>4, <1>10
    <2>4. room_state' = "WAIT" => \A j \in Occupied' : player_state'[j] \in {"WAIT", "READY"} /\ fixed'[j] = 0
      BY <1>1, <1>4, <1>7, <1>9 DEF RoomOK
    <2>5. room_state' = "PLAY" => \A j \in Occupied' : player_state'[j] \in {"PLAY", "GAME_OVER"}
      BY <1>1, <1>4, <1>7, <1>9 DEF RoomOK
    <2> QED
      BY <1>10, <2>1, <2>2, <2>3, <2>4, <2>5 DEF RoomOK
  <1>12. PICK d \in Packet : d = [type |-> "INFO"]
    BY DEF Packet
  <1>13. d.type = "INFO" /\ ~Marks(d) /\ d.type # "DELETE_USER" /\ s2c' = s2c \o <<d>>
    <2>1. s2c' = Append(s2c, d)
      BY <1>4, <1>12
    <2>2. s2c' = s2c \o <<d>>
      BY <1>1, <2>1
    <2> QED
      BY <1>12, <2>2 DEF Marks
  <1>14. Fits(a, d) /\ a = After(a, d)
    BY <1>13 DEF Fits, After
  <1>15. ReadyKept /\ Keeps(a)
    BY <1>10 DEF ReadyKept, Keeps
  <1> QED
    BY <1>2, <1>8, <1>11, <1>13, <1>14, <1>15, OneStep

LEMMA KickKeeps ==
  ASSUME IInv, Aside, UNCHANGED unserved, NEW p \in Seated, NEW t \in People, KickPlayer(p, t)
  PROVE  IInv'
  <1>1. CASE p = host_id /\ t # p /\ t \in Seated /\ t = Me
    BY <1>1, KickedKeeps
  <1>2. CASE p = host_id /\ t # p /\ t \in Seated /\ t # Me
    BY <1>2, RemovalKeeps DEF KickPlayer
  <1>3. CASE ~(p = host_id /\ t # p /\ t \in Seated)
    BY <1>3, NothingKeeps DEF KickPlayer
  <1> QED
    BY <1>1, <1>2, <1>3

\* The room handles a request of Me.
LEMMA HandleRequestKeeps ==
  ASSUME IInv, HandleRequest
  PROVE  IInv'
  <1>1. c2s \in Seq(Request) /\ Len(c2s) \in Nat /\ Len(c2s) <= MaxRequests /\ c2s # <<>> /\ UNCHANGED <<client, unserved>>
    BY DEF IInv, Typed, ChannelsTyped, HandleRequest
  <1>2. PICK r \in Request : r = Head(c2s)
    BY <1>1
  <1>3. c2s' = Tail(c2s) /\ c2s' \in Seq(Request) /\ Len(c2s') = Len(c2s) - 1
    BY <1>1 DEF HandleRequest
  <1>4. Apart
    BY <1>1, <1>3, PeopleFacts DEF Apart
  <1>5. r.type # "READY" => Aside
    <2> SUFFICES ASSUME r.type # "READY", NEW k \in DOMAIN c2s, c2s[k].type = "READY"
                 PROVE  \E j \in DOMAIN c2s' : c2s'[j].type = "READY"
      BY <1>4 DEF Aside, AsksReady
    <2>1. DOMAIN c2s = 1..Len(c2s) /\ DOMAIN c2s' = 1..(Len(c2s) - 1) /\ Head(c2s) = c2s[1]
      BY <1>1, <1>3
    <2>2. k # 1
      BY <1>2, <2>1
    <2>3. k - 1 \in 1..(Len(c2s) - 1) /\ c2s'[k - 1] = c2s[k]
      BY <1>1, <1>3, <2>1, <2>2
    <2> QED
      BY <2>1, <2>3
  <1>6. CASE Me \notin Seated
    <2>1. UNCHANGED <<server, s2c>>
      BY <1>6 DEF HandleRequest
    <2>2. PICK a \in Picture : Ends(a) /\ (Me \in Seated => Mirrors(a))
      BY Parts
    <2>3. ServerTyped' /\ RoomOK' /\ Seated' = Seated
      BY <1>1, <2>1, <2>2, SameServer
    <2>4. Tells' /\ Begins'
      <3>1. s2c \in Seq(Packet) /\ Typed /\ Tells /\ Begins /\ UNCHANGED client
        BY <1>1, Parts DEF IInv
      <3>2. PICK q \in Seq(Packet) : q = <<>> /\ s2c = s2c \o q /\ \A k \in 1..Len(q) : FALSE
        BY <3>1, EmptySend
      <3>3. Keeps(a)
        BY <1>6, <2>3 DEF Keeps
      <3>4. Tells'
        BY <2>1, <2>2, <3>1, <3>3, SendNothing
      <3>5. Begins'
        BY <1>6, <2>1, <2>3, <3>1, <3>2, BeginsGoesOn
      <3> QED
        BY <3>4, <3>5
    <2>5. Marked'
      BY <1>6, <2>3 DEF Marked
    <2>6. s2c' \in Seq(Packet)
      BY <2>1, Parts
    <2> QED
      BY <1>4, <2>3, <2>4, <2>5, <2>6, ApartKeeps
  <1>7. CASE Me \in Seated
    <2>1. CASE r.type = "REMOVE_PLAYER" 
      <3>1. CompletePlayerRemoval(Me)
        BY <1>2, <1>7, <2>1 DEF HandleRequest
      <3> QED
        BY <1>1, <1>5, <1>7, <2>1, <3>1, RemovalKeeps
    <2>2. CASE r.type = "READY"
      <3>1. TogglePlayerReady(Me) /\ UNCHANGED <<room_state, seat, fixed, host_id, mode>>
        BY <1>2, <1>7, <2>2 DEF HandleRequest
      <3> QED
        BY <1>1, <1>4, <1>7, <3>1, OwnReadyKeeps
    <2>3. CASE r.type = "START"
      <3>1. StartGame(Me)
        BY <1>2, <1>7, <2>3 DEF HandleRequest
      <3> QED
        BY <1>1, <1>5, <1>7, <2>3, <3>1, StartKeeps
    <2>4. CASE r.type = "KICK"
      <3>1. KickPlayer(Me, r.id) /\ r.id \in People
        BY <1>2, <1>7, <2>4 DEF HandleRequest, Request
      <3> QED
        BY <1>1, <1>5, <1>7, <2>4, <3>1, KickKeeps
    <2> QED
      BY <1>2, <2>1, <2>2, <2>3, <2>4 DEF Request
  <1> QED
    BY <1>6, <1>7

\* What another player does with the room.
LEMMA OthersKeep ==
  ASSUME IInv, NEW p \in Others, NEW t \in People,
         OtherLeaves(p) \/ OtherReady(p) \/ OtherStarts(p) \/ OtherKicks(p, t)
  PROVE  IInv'
  <1>1. OtherLeaves(p) \/ OtherStarts(p) \/ OtherKicks(p, t) => Aside /\ UNCHANGED unserved /\ p \in Seated
    BY DEF OtherLeaves, OtherStarts, OtherKicks, Aside, Apart, AsksReady, IInv, Typed, ChannelsTyped
  <1>2. CASE OtherLeaves(p)
    BY <1>1, <1>2, RemovalKeeps DEF OtherLeaves
  <1>3. CASE OtherStarts(p)
    BY <1>1, <1>3, StartKeeps DEF OtherStarts
  <1>4. CASE OtherKicks(p, t)
    BY <1>1, <1>4, KickKeeps DEF OtherKicks
  <1> QED
    BY <1>2, <1>3, <1>4, OtherReadyKeeps

----------------------------------------------------------------------------
(* The ways into a room and out of it. *)

\* The lobby tells a Me without a seat of its own removal.
LEMMA EnterLobbyKeeps ==
  ASSUME IInv, EnterLobby
  PROVE  IInv'
  <1>1. ServerTyped /\ RoomOK /\ s2c \in Seq(Packet) /\ Me \in People
    BY Parts, PeopleFacts
  <1>2. /\ Me \notin Seated /\ mode' = "LOBBY" /\ s2c' = Append(s2c, [type |-> "DELETE_USER", id |-> Me])
        /\ UNCHANGED <<room_state, seat, player_state, fixed, host_id, c2s, client, unserved>>
    BY DEF EnterLobby
  <1>3. Aside
    BY <1>2 DEF Aside, Apart, AsksReady, IInv, Typed, ChannelsTyped
  <1>4. Seated' = Seated /\ Occupied' = Occupied
    BY <1>2 DEF Seated, Occupied
  <1>5. ServerTyped' /\ RoomOK'
    BY <1>1, <1>2, <1>4 DEF ServerTyped, RoomOK
  <1>6. PICK d \in Packet : d = [type |-> "DELETE_USER", id |-> Me]
    BY <1>1 DEF Packet
  <1>7. d.type = "DELETE_USER" /\ ~Marks(d)
    BY <1>6 DEF Marks
  <1>8. s2c' = s2c \o <<d>>
    <2>1. s2c' = Append(s2c, d)
      BY <1>2, <1>6
    <2> QED
      BY <1>1, <2>1
  <1>9. PICK a \in Picture : Ends(a)
    BY Parts
  <1>10. PICK b \in Picture : b = After(a, d)
    BY AfterPicture
  <1>11. Fits(a, d)
    BY <1>7 DEF Fits
  <1>12. ReadyKept /\ Keeps(b)
    BY <1>2, <1>4 DEF ReadyKept, Keeps
  <1> QED
    BY <1>2, <1>3, <1>4, <1>5, <1>7, <1>8, <1>9, <1>10, <1>11, <1>12, OneStep

LEMMA CreateRoomKeeps ==
  ASSUME IInv, NEW p \in People, CreateRoom(p)
  PROVE  IInv'
  <1>1. ServerTyped /\ RoomOK /\ Typed /\ Tells /\ s2c \in Seq(Packet) /\ Me \in People /\ None \notin People
    BY Parts, PeopleFacts DEF IInv
  <1>2. /\ room_state = "EMPTY" /\ room_state' = "WAIT" /\ host_id' = p
        /\ seat' = [i \in Seats |-> IF i = 1 THEN p ELSE None]
        /\ player_state' = [i \in Seats |-> "WAIT"] /\ fixed' = [i \in Seats |-> 0]
        /\ mode' = IF p = Me THEN "ROOM" ELSE mode
        /\ unserved' = FALSE
        /\ UNCHANGED <<c2s, client>>
    BY DEF CreateRoom
  <1>3. Aside
    BY <1>2 DEF Aside, Apart, AsksReady, IInv, Typed, ChannelsTyped
  <1>4. \A i \in Seats : seat'[i] = IF i = 1 THEN p ELSE None
    BY <1>2
  <1>5. Occupied' = {1} /\ Seated' = {p}
    <2>1. 1 \in Seats
      BY SeatFacts
    <2>2. p # None
      BY <1>1
    <2> QED
      BY <1>4, <2>1, <2>2 DEF Occupied, Seated
  <1>6. ServerTyped'
    <2>1. 0 \in 0..MaxPieces
      BY PeopleFacts
    <2>2. seat' \in [Seats -> People \cup {None}] /\ fixed' \in [Seats -> 0..MaxPieces]
          /\ player_state' \in [Seats -> {"WAIT", "READY", "PLAY", "GAME_OVER"}]
      BY <1>2, <2>1
    <2> QED
      BY <1>1, <1>2, <2>2 DEF ServerTyped
  <1>7. RoomOK'
    <2>1. \A i \in Occupied' : player_state'[i] = "WAIT" /\ fixed'[i] = 0
      BY <1>2, <1>5, SeatFacts
    <2> QED
      BY <1>2, <1>5, <2>1 DEF RoomOK
  <1>8. CASE p # Me
    <2>1. s2c' = s2c
      BY <1>8 DEF CreateRoom
    <2>2. PICK a \in Picture : Ends(a)
      BY Parts
    <2>3. ReadyKept /\ Keeps(a)
      BY <1>5, <1>8 DEF ReadyKept, Keeps
    <2> QED
      BY <1>3, <1>6, <1>7, <2>1, <2>2, <2>3, SilentStep
  <1>9. CASE p = Me
    <2>1. screen = "lobby" /\ s2c = <<>> /\ s2c' = Append(s2c, [type |-> "ADD_ROOM"])
      BY <1>9 DEF CreateRoom
    <2>2. PICK d \in Packet : d = [type |-> "ADD_ROOM"]
      BY DEF Packet
    <2>3. d.type = "ADD_ROOM" /\ s2c' = <<d>>
      <3>1. s2c' = Append(<<>>, d)
        BY <2>1, <2>2
      <3> QED
        BY <2>2, <3>1
    <2>4. PICK q \in Seq(Packet) : q = <<d>> /\ \A k \in 1..Len(q) : q[k] = d
      BY OneSend
    <2>5. Len(q) = 1 /\ q[1] = d /\ Head(q) = d /\ q # <<>> /\ DOMAIN q = {1}
      BY <2>4
    <2>6. PICK g : g = [k \in 0..1 |-> IF k = 0 THEN Lobby ELSE Opened]
      OBVIOUS
    <2>7. Lobby \in Picture /\ Opened \in Picture /\ ~Lobby.room
      BY <1>1, PeopleFacts DEF Lobby, Opened, NoPieces, Picture
    <2>8. g[0] = Lobby /\ g[1] = Opened /\ g \in [0..1 -> Picture]
      BY <2>6, <2>7
    <2>9. Tale(g, q)
      <3>1. \A k \in 1..Len(q) : k = 1 /\ k - 1 = 0
        BY <2>5
      <3>2. Opened = After(Lobby, d) /\ Fits(Lobby, d)
        BY <2>3, <2>7 DEF After, Fits
      <3> QED
        BY <2>5, <2>8, <3>1, <3>2 DEF Tale
    <2>10. Opened.room /\ Opened.ids = {Me} /\ Opened.host = None /\ Opened.pieces = NoPieces
      BY DEF Opened
    <2>11. Mirrors(g[Len(q)])'
      <3>1. PICK o : o = Opened
        OBVIOUS
      <3>2. \A i \in Occupied' : o.pieces[seat'[i]] = 0
        BY <1>1, <1>4, <1>5, <1>9, <2>10, <3>1, SeatFacts DEF NoPieces
      <3>3. Mirrors(o)'
        BY <1>2, <1>5, <1>9, <2>10, <3>1, <3>2 DEF Mirrors
      <3> QED
        BY <2>5, <2>8, <3>1, <3>3
    <2>12. \A k \in 1..Len(q) : g[k].host = Me => host_id' = Me
      BY <1>2, <1>9
    <2>13. s2c' = q /\ UNCHANGED client
      BY <1>2, <2>3, <2>4
    <2>14. Tells'
      BY <1>1, <2>1, <2>8, <2>9, <2>11, <2>12, <2>13, SendAfresh
    <2>15. Begins'
      BY <2>1, <2>3, <2>5, <2>13 DEF Begins, client
    <2>16. Marked'
      BY <1>2, <1>9 DEF Marked
    <2> QED
      BY <1>3, <1>6, <1>7, <2>13, <2>14, <2>15, <2>16, ApartKeeps DEF Aside
  <1> QED
    BY <1>8, <1>9

\* The room with a newcomer.
LEMMA RoomAfterJoin ==
  ASSUME ServerTyped, RoomOK, NEW p \in People, room_state = "WAIT", p \notin Seated, NEW i \in Seats, seat[i] = None,
         seat' = [seat EXCEPT ![i] = p],
         player_state' = [player_state EXCEPT ![i] = "WAIT"], fixed' = [fixed EXCEPT ![i] = 0],
         mode' = IF p = Me THEN "ROOM" ELSE mode, unserved' \in BOOLEAN, UNCHANGED <<room_state, host_id>>
  PROVE  /\ ServerTyped' /\ RoomOK' /\ Seated' = Seated \cup {p} /\ Occupied' = Occupied \cup {i}
         /\ seat'[i] = p /\ player_state'[i] = "WAIT" /\ fixed'[i] = 0
         /\ \A j \in Occupied : seat'[j] = seat[j] /\ player_state'[j] = player_state[j] /\ fixed'[j] = fixed[j]
  <1>1. seat \in [Seats -> People \cup {None}] /\ fixed \in [Seats -> 0..MaxPieces]
        /\ player_state \in [Seats -> {"WAIT", "READY", "PLAY", "GAME_OVER"}] /\ p # None /\ 0 \in 0..MaxPieces
    BY PeopleFacts DEF ServerTyped
  <1>2. /\ seat'[i] = p /\ player_state'[i] = "WAIT" /\ fixed'[i] = 0
        /\ \A j \in Seats : j # i => seat'[j] = seat[j] /\ player_state'[j] = player_state[j] /\ fixed'[j] = fixed[j]
    BY <1>1
  <1>3. ServerTyped'
    <2>1. seat' \in [Seats -> People \cup {None}] /\ fixed' \in [Seats -> 0..MaxPieces]
          /\ player_state' \in [Seats -> {"WAIT", "READY", "PLAY", "GAME_OVER"}]
      BY <1>1
    <2> QED
      BY <2>1 DEF ServerTyped
  <1>4. Occupied' = Occupied \cup {i} /\ i \notin Occupied /\ \A j \in Occupied : j \in Seats /\ j # i
    BY <1>1, <1>2 DEF Occupied
  <1>5. Seated' = Seated \cup {p}
    <2>1. \A q : q \in Seated' <=> q # None /\ \E j \in Seats : seat'[j] = q
      BY DEF Seated
    <2>2. \A q : q \in Seated <=> q # None /\ \E j \in Seats : seat[j] = q
      BY DEF Seated
    <2>3. \A q : q \in Seated' <=> q \in Seated \/ q = p
      BY <1>1, <1>2, <2>1, <2>2
    <2> QED
      BY <2>3
  <1>6. RoomOK'
    <2>1. \A j \in Occupied : seat[j] # p
      BY <1>4, OccupiedIs
    <2>2. \A j, k \in Occupied' : seat'[j] = seat'[k] => j = k
      BY <1>2, <1>4, <2>1 DEF RoomOK
    <2>3. \A j \in Occupied' : player_state'[j] \in {"WAIT", "READY"} /\ fixed'[j] = 0
      BY <1>2, <1>4 DEF RoomOK
    <2>4. Me \in Seated' => mode' = "ROOM"
      BY <1>5 DEF RoomOK
    <2>5. host_id' \in Seated'
      BY <1>5 DEF RoomOK
    <2> QED
      BY <2>2, <2>3, <2>4, <2>5 DEF RoomOK
  <1> QED
    BY <1>2, <1>3, <1>4, <1>5, <1>6

\* What AddPlayer does to the room, by the seat that is taken.
LEMMA JoinIs ==
  ASSUME IInv, NEW p \in People, AddPlayer(p)
  PROVE  /\ room_state = "WAIT" /\ p \notin Seated /\ Aside /\ unserved' = (p # Me /\ unserved)
         /\ UNCHANGED <<room_state, host_id>>
         /\ ServerTyped' /\ RoomOK' /\ Seated' = Seated \cup {p}
         /\ \E i \in Seats :
              /\ seat[i] = None /\ Occupied' = Occupied \cup {i}
              /\ seat'[i] = p /\ player_state'[i] = "WAIT" /\ fixed'[i] = 0
              /\ \A j \in Occupied : seat'[j] = seat[j] /\ player_state'[j] = player_state[j] /\ fixed'[j] = fixed[j]
  <1>1. ServerTyped /\ RoomOK /\ unserved \in BOOLEAN
    BY Parts DEF ServerTyped
  <1>2. /\ room_state = "WAIT" /\ p \notin Seated
        /\ mode' = IF p = Me THEN "ROOM" ELSE mode
        /\ unserved' = (p # Me /\ unserved)
        /\ UNCHANGED <<room_state, host_id, c2s, client>>
    BY DEF AddPlayer
  <1>3. Aside
    BY <1>2 DEF Aside, Apart, AsksReady, IInv, Typed, ChannelsTyped
  <1>4. PICK i \in Seats : /\ seat[i] = None /\ seat' = [seat EXCEPT ![i] = p]
                           /\ player_state' = [player_state EXCEPT ![i] = "WAIT"] /\ fixed' = [fixed EXCEPT ![i] = 0]
    BY DEF AddPlayer
  <1>5. unserved' \in BOOLEAN
    BY <1>1, <1>2
  <1>6. /\ ServerTyped' /\ RoomOK' /\ Seated' = Seated \cup {p} /\ Occupied' = Occupied \cup {i}
        /\ seat'[i] = p /\ player_state'[i] = "WAIT" /\ fixed'[i] = 0
        /\ \A j \in Occupied : seat'[j] = seat[j] /\ player_state'[j] = player_state[j] /\ fixed'[j] = fixed[j]
    BY <1>1, <1>2, <1>4, <1>5, RoomAfterJoin
  <1> QED
    BY <1>2, <1>3, <1>4, <1>6

LEMMA JoinOtherKeeps ==
  ASSUME IInv, NEW p \in Others, AddPlayer(p)
  PROVE  IInv'
  <1>1. p \in People /\ p # Me /\ p # None /\ RoomOK /\ s2c \in Seq(Packet) /\ Me \in People /\ Me # None
    BY Parts, MeIsSomebody, PeopleFacts DEF People
  <1>2. /\ room_state = "WAIT" /\ p \notin Seated /\ Aside /\ unserved' = unserved
        /\ UNCHANGED <<room_state, host_id>>
        /\ ServerTyped' /\ RoomOK' /\ Seated' = Seated \cup {p}
    BY <1>1, JoinIs DEF ServerTyped, IInv, Typed
  <1>3. PICK i \in Seats :
              /\ seat[i] = None /\ Occupied' = Occupied \cup {i}
              /\ seat'[i] = p /\ player_state'[i] = "WAIT" /\ fixed'[i] = 0
              /\ \A j \in Occupied : seat'[j] = seat[j] /\ player_state'[j] = player_state[j] /\ fixed'[j] = fixed[j]
    BY <1>1, JoinIs
  <1>4. PICK a \in Picture : Ends(a) /\ (Me \in Seated => Mirrors(a))
    BY Parts
  <1>5. ReadyKept
    <2>1. Me \in Seated' <=> Me \in Seated
      BY <1>1, <1>2
    <2>2. \A k \in Seats : (k \in Occupied <=> seat[k] # None) /\ (k \in Occupied' <=> seat'[k] # None)
      BY DEF Occupied
    <2>3. \A k \in Seats : (seat'[k] = Me /\ player_state'[k] = "READY") <=> (seat[k] = Me /\ player_state[k] = "READY")
      <3> SUFFICES ASSUME NEW k \in Seats
                   PROVE  (seat'[k] = Me /\ player_state'[k] = "READY") <=> (seat[k] = Me /\ player_state[k] = "READY")
        OBVIOUS
      <3>1. CASE k = i
        BY <1>1, <1>3, <3>1
      <3>2. CASE k \in Occupied
        BY <1>3, <3>2
      <3>3. CASE k # i /\ k \notin Occupied
        BY <1>1, <1>3, <2>2, <3>3
      <3> QED
        BY <3>1, <3>2, <3>3
    <2>4. MeReady' <=> MeReady
      BY <2>3 DEF MeReady
    <2> QED
      BY <1>2, <2>1, <2>4 DEF ReadyKept
  <1>6. CASE Me \notin Seated
    <2>1. s2c' = s2c
      BY <1>1, <1>6 DEF AddPlayer, Toward
    <2>2. Keeps(a)
      BY <1>1, <1>2, <1>6 DEF Keeps
    <2> QED
      BY <1>2, <1>4, <1>5, <2>1, <2>2, SilentStep
  <1>7. CASE Me \in Seated
    <2>1. PICK d \in Packet : d = [type |-> "ADD_USER", id |-> p]
      BY <1>1 DEF Packet
    <2>2. d.type = "ADD_USER" /\ d.id = p /\ ~Marks(d) /\ d.type # "DELETE_USER"
      BY <2>1 DEF Marks
    <2>3. s2c' = s2c \o <<d>>
      BY <1>1, <1>7, <2>1 DEF AddPlayer, Toward
    <2>4. a.room /\ a.ids = Seated /\ (a.host = host_id \/ (a.host = None /\ host_id = Me))
          /\ (~unserved => \A j \in Occupied : a.pieces[seat[j]] = 0)
      BY <1>2, <1>4, <1>7 DEF Mirrors
    <2>5. Fits(a, d)
      BY <1>2, <1>3, <2>2, <2>4, FreeSeat DEF Fits
    <2>6. PICK b \in Picture : b = After(a, d)
      BY AfterPicture
    <2>7. b = [a EXCEPT !.ids = @ \cup {p}, !.pieces[p] = 0, !.playing = @ \ {p}]
      BY <2>2, <2>4, <2>6 DEF After
    <2>8. /\ b.room = a.room /\ b.ids = a.ids \cup {p} /\ b.host = a.host /\ b.pieces[p] = 0
          /\ \A q \in People : q # p => b.pieces[q] = a.pieces[q]
      BY <1>1, <2>7 DEF Picture
    <2>9. ~unserved' => \A j \in Occupied' : b.pieces[seat'[j]] = 0
      <3>1. \A j \in Occupied : seat[j] \in Seated /\ seat[j] \in People /\ seat[j] # p
        BY <1>2, OccupiedIs, Parts DEF Occupied
      <3> QED
        BY <1>2, <1>3, <2>4, <2>8, <3>1
    <2>10. Mirrors(b)'
      BY <1>2, <2>4, <2>8, <2>9 DEF Mirrors
    <2>11. Keeps(b)
      BY <1>2, <1>7, <2>10 DEF Keeps
    <2> QED
      BY <1>2, <1>4, <1>5, <2>2, <2>3, <2>5, <2>6, <2>11, OneStep
  <1> QED
    BY <1>6, <1>7

\* The picture of a room that shows only its people.
WithIds(I) == [Opened EXCEPT !.ids = I]

LEMMA WithIdsIs ==
  ASSUME NEW I \in SUBSET People
  PROVE  /\ WithIds(I) \in Picture /\ WithIds(I).room /\ WithIds(I).ids = I /\ WithIds(I).host = None
         /\ WithIds(I).pieces = NoPieces /\ WithIds(I).playing = {}
  <1>1. Opened \in Picture
    BY PeopleFacts DEF Opened, NoPieces, Picture
  <1>2. Opened.room /\ Opened.host = None /\ Opened.pieces = NoPieces /\ Opened.playing = {}
    BY DEF Opened
  <1> QED
    BY <1>1, <1>2 DEF WithIds, Picture

LEMMA SamePicture ==
  ASSUME NEW b \in Picture, NEW c \in Picture,
         b.room = c.room, b.ids = c.ids, b.host = c.host, b.pieces = c.pieces, b.playing = c.playing
  PROVE  b = c
  <1>1. b = [room |-> b.room, ids |-> b.ids, host |-> b.host, pieces |-> b.pieces, playing |-> b.playing]
    BY DEF Picture
  <1>2. c = [room |-> c.room, ids |-> c.ids, host |-> c.host, pieces |-> c.pieces, playing |-> c.playing]
    BY DEF Picture
  <1> QED
    BY <1>1, <1>2

LEMMA WelcomeUser ==
  ASSUME NEW I \in SUBSET People, NEW p \in Packet, p.type = "ADD_USER", p.id \notin I, Cardinality(I) < SeatCount
  PROVE  After(WithIds(I), p) = WithIds(I \cup {p.id}) /\ Fits(WithIds(I), p)
  <1>1. PICK a \in Picture : a = WithIds(I)
    BY WithIdsIs
  <1>2. p.id \in People
    BY PacketKinds
  <1>3. a.room /\ a.ids = I /\ a.host = None /\ a.pieces = NoPieces /\ a.playing = {}
    BY <1>1, WithIdsIs
  <1>4. After(a, p) = [a EXCEPT !.ids = @ \cup {p.id}, !.pieces[p.id] = 0, !.playing = @ \ {p.id}]
    BY <1>3 DEF After
  <1>5. PICK b \in Picture : b = After(a, p)
    BY AfterPicture
  <1>6. b.room = TRUE /\ b.ids = I \cup {p.id} /\ b.host = None /\ b.playing = {} /\ b.pieces = [NoPieces EXCEPT ![p.id] = 0]
    BY <1>3, <1>4, <1>5 DEF Picture
  <1>7. [NoPieces EXCEPT ![p.id] = 0] = NoPieces
    BY DEF NoPieces
  <1>8. PICK J \in SUBSET People : J = I \cup {p.id}
    BY <1>2
  <1>9. PICK c \in Picture : c = WithIds(J) /\ c.room = TRUE /\ c.ids = J /\ c.host = None /\ c.playing = {} /\ c.pieces = NoPieces
    <2>1. WithIds(J) \in Picture /\ WithIds(J).room /\ WithIds(J).ids = J /\ WithIds(J).host = None
          /\ WithIds(J).pieces = NoPieces /\ WithIds(J).playing = {}
      BY WithIdsIs
    <2> QED
      BY <2>1 DEF Picture
  <1>10. b = c
    <2>1. b.room = c.room /\ b.ids = c.ids /\ b.host = c.host /\ b.pieces = c.pieces /\ b.playing = c.playing
      BY <1>6, <1>7, <1>8, <1>9
    <2> QED
      BY <2>1, SamePicture
  <1> QED
    BY <1>1, <1>3, <1>5, <1>8, <1>9, <1>10 DEF Fits

\* Three parts of a sequence.
IsThree(q, d, us, u, N) ==
  /\ q = << d >> \o us \o << u >> /\ Len(q) = N + 2
  /\ q[1] = d /\ q[N + 2] = u /\ \A k \in 2..(N + 1) : q[k] = us[k - 1]

LEMMA ThreeParts ==
  ASSUME NEW d \in Packet, NEW u \in Packet, NEW N \in Nat, NEW us \in Seq(Packet), Len(us) = N
  PROVE  \E q \in Seq(Packet) : IsThree(q, d, us, u, N)
  <1>1. PICK x \in Seq(Packet) : x = <<d>> /\ Len(x) = 1 /\ x[1] = d
    <2>1. <<d>> \in Seq(Packet) /\ Len(<<d>>) = 1 /\ <<d>>[1] = d
      OBVIOUS
    <2> QED
      BY <2>1
  <1>2. PICK z \in Seq(Packet) : z = <<u>> /\ Len(z) = 1 /\ z[1] = u
    <2>1. <<u>> \in Seq(Packet) /\ Len(<<u>>) = 1 /\ <<u>>[1] = u
      OBVIOUS
    <2> QED
      BY <2>1
  <1>3. PICK y \in Seq(Packet) : y = x \o us
    BY Concatenated
  <1>4. Len(y) = N + 1 /\ y[1] = d /\ \A k \in 2..(N + 1) : y[k] = us[k - 1]
    <2>1. Len(y) = N + 1
      BY <1>1, <1>3, Concatenated
    <2>2. y[1] = d
      BY <1>1, <1>3, Concatenated
    <2>3. \A k \in 2..(N + 1) : y[k] = us[k - 1]
      BY <1>1, <1>3, Concatenated
    <2> QED
      BY <2>1, <2>2, <2>3
  <1>5. PICK q \in Seq(Packet) : q = y \o z
    BY Concatenated
  <1>6. Len(q) = N + 2 /\ q[1] = d /\ q[N + 2] = u
    <2>1. Len(q) = N + 2
      BY <1>2, <1>4, <1>5, Concatenated
    <2>2. q[1] = y[1]
      <3>1. 1 \in 1..Len(y)
        BY <1>4
      <3> QED
        BY <1>5, <3>1, Concatenated
    <2>3. q[Len(y) + 1] = z[1]
      <3>1. 1 \in 1..Len(z)
        BY <1>2
      <3> QED
        BY <1>5, <3>1, Concatenated
    <2>4. Len(y) + 1 = N + 2
      BY <1>4
    <2> QED
      BY <1>2, <1>4, <2>1, <2>2, <2>3, <2>4
  <1>7. \A k \in 2..(N + 1) : q[k] = us[k - 1]
    <2>1. \A k \in 2..(N + 1) : k \in 1..Len(y)
      BY <1>4
    <2>2. \A k \in 1..Len(y) : q[k] = y[k]
      BY <1>5, Concatenated
    <2> QED
      BY <1>4, <2>1, <2>2
  <1> QED
    BY <1>1, <1>2, <1>3, <1>5, <1>6, <1>7 DEF IsThree

\* The people a newcomer Me has been told of after m of the users.
Guests(A, m) == {Me} \cup {seat[A[k]] : k \in 1..m}

LEMMA GuestsAre ==
  ASSUME RoomOK, NEW N \in Nat, NEW A \in [1..N -> Occupied], Me \notin Seated, Seated \subseteq People,
         \A j, k \in 1..N : A[j] = A[k] => j = k, \A i \in Occupied : \E k \in 1..N : A[k] = i,
         NEW i \in Seats, seat[i] = None
  PROVE  /\ Guests(A, 0) = {Me} /\ Guests(A, N) = Seated \cup {Me}
         /\ \A m \in 0..N : Guests(A, m) \in SUBSET People
         /\ \A m \in 1..N : /\ seat[A[m]] \in Seated /\ seat[A[m]] \notin Guests(A, m - 1)
                            /\ Guests(A, m) = Guests(A, m - 1) \cup {seat[A[m]]}
                            /\ Cardinality(Guests(A, m - 1)) < SeatCount
  <1>1. \A k \in 1..N : A[k] \in Occupied /\ seat[A[k]] \in Seated
    BY OccupiedIs DEF Occupied
  <1>2. \A m \in 0..N : Guests(A, m) \subseteq Seated \cup {Me}
    <2>1. \A m \in 0..N : \A k \in 1..m : k \in 1..N
      OBVIOUS
    <2> QED
      BY <1>1, <2>1 DEF Guests
  <1>3. Me \in People
    BY PeopleFacts
  <1>4. Guests(A, 0) = {Me}
    <2>1. \A k \in 1..0 : FALSE
      OBVIOUS
    <2> QED
      BY <2>1 DEF Guests
  <1>5. Guests(A, N) = Seated \cup {Me}
    <2>1. \A x \in Seated : \E j \in Occupied : seat[j] = x
      BY DEF Seated, Occupied
    <2>2. \A x \in Seated : \E k \in 1..N : seat[A[k]] = x
      BY <2>1
    <2>3. \A x \in Seated : x \in Guests(A, N)
      BY <2>2 DEF Guests
    <2>4. Me \in Guests(A, N) /\ Guests(A, N) \subseteq Seated \cup {Me}
      BY <1>2 DEF Guests
    <2> QED
      BY <2>3, <2>4
  <1>6. ASSUME NEW m \in 1..N
        PROVE  /\ seat[A[m]] \in Seated /\ seat[A[m]] \notin Guests(A, m - 1)
               /\ Guests(A, m) = Guests(A, m - 1) \cup {seat[A[m]]}
               /\ Cardinality(Guests(A, m - 1)) < SeatCount
    <2>1. PICK x : x = seat[A[m]]
      OBVIOUS
    <2>2. x \in Seated /\ x # Me
      BY <1>1, <2>1
    <2>3. \A k \in 1..(m - 1) : k \in 1..N /\ k # m
      OBVIOUS
    <2>4. \A k \in 1..(m - 1) : seat[A[k]] # x
      BY <1>1, <2>1, <2>3 DEF RoomOK
    <2>5. x \notin Guests(A, m - 1)
      BY <2>2, <2>4 DEF Guests
    <2>6. \A k : k \in 1..m <=> k \in 1..(m - 1) \/ k = m
      OBVIOUS
    <2>7. Guests(A, m) = Guests(A, m - 1) \cup {x}
      BY <2>1, <2>6 DEF Guests
    <2>8. Guests(A, m - 1) \in SUBSET ((Seated \cup {Me}) \ {x})
      BY <1>2, <2>5
    <2>9. Cardinality((Seated \cup {Me}) \ {x}) < SeatCount /\ IsFiniteSet((Seated \cup {Me}) \ {x})
      <3>1. IsFiniteSet(Seated) /\ Cardinality(Seated) \in Nat /\ Cardinality(Seated) < SeatCount
        BY FreeSeat
      <3>2. IsFiniteSet(Seated \cup {Me}) /\ Cardinality(Seated \cup {Me}) = Cardinality(Seated) + 1
        BY <3>1, FS_AddElement
      <3>3. IsFiniteSet((Seated \cup {Me}) \ {x}) /\ Cardinality((Seated \cup {Me}) \ {x}) = Cardinality(Seated)
        <4>1. PICK G : G = Seated \cup {Me}
          OBVIOUS
        <4>2. IsFiniteSet(G) /\ x \in G /\ Cardinality(G) = Cardinality(Seated) + 1
          BY <2>2, <3>2, <4>1
        <4>3. IsFiniteSet(G \ {x}) /\ Cardinality(G \ {x}) = Cardinality(G) - 1
          BY <4>2, FS_RemoveElement
        <4>4. Cardinality(G \ {x}) = Cardinality(Seated)
          BY <3>1, <4>2, <4>3
        <4> QED
          BY <4>1, <4>3, <4>4
      <3> QED
        BY <3>1, <3>3
    <2>10. IsFiniteSet(Guests(A, m - 1)) /\ Cardinality(Guests(A, m - 1)) <= Cardinality((Seated \cup {Me}) \ {x})
      BY <2>8, <2>9, FS_Subset
    <2>11. Cardinality(Guests(A, m - 1)) \in Nat /\ Cardinality((Seated \cup {Me}) \ {x}) \in Nat /\ SeatCount \in Nat
      BY <2>9, <2>10, FS_CardinalityType, SeatFacts
    <2> QED
      BY <2>1, <2>2, <2>5, <2>7, <2>9, <2>10, <2>11
  <1> QED
    BY <1>2, <1>3, <1>4, <1>5, <1>6

\* The packets of the welcome.
IsWelcome(q, A, N) ==
  /\ \A j, k \in 1..N : A[j] = A[k] => j = k
  /\ \A i \in Occupied : \E k \in 1..N : A[k] = i
  /\ q = Welcome /\ Len(q) = N + 2
  /\ q[1] = [type |-> "ADD_ROOM"] /\ q[N + 2] = [type |-> "UPDATE_HOST", id |-> host_id]
  /\ \A k \in 2..(N + 1) : q[k] = [type |-> "ADD_USER", id |-> seat[A[k - 1]]]

LEMMA WelcomeIs ==
  ASSUME ServerTyped, RoomOK, host_id \in People, IsFiniteSet(Occupied)
  PROVE  \E N \in Nat : \E A \in [1..N -> Occupied] : \E q \in Seq(Packet) : IsWelcome(q, A, N)
  <1>1. Occupied \in SUBSET Nat
    BY SeatFacts DEF Occupied
  <1>2. PICK N : N = Cardinality(Occupied)
    OBVIOUS
  <1>3. PICK A : A = Ascending(Occupied)
    OBVIOUS
  <1>4. N \in Nat /\ A \in [1..N -> Occupied] /\ \A i \in Occupied : \E k \in 1..N : A[k] = i
    BY <1>1, <1>2, <1>3, AscendingIs
  <1>5. \A j, k \in 1..N : A[j] = A[k] => j = k
    BY <1>1, <1>2, <1>3, AscendingOnce
  <1>6. \A k \in 1..N : seat[A[k]] \in People
    BY <1>4 DEF Occupied, ServerTyped
  <1>7. PICK us \in Seq(Packet) : us = [k \in 1..N |-> [type |-> "ADD_USER", id |-> seat[A[k]]]]
    <2>1. \A k \in 1..N : [type |-> "ADD_USER", id |-> seat[A[k]]] \in Packet
      BY <1>6 DEF Packet
    <2>2. [k \in 1..N |-> [type |-> "ADD_USER", id |-> seat[A[k]]]] \in [1..N -> Packet]
      BY <2>1
    <2>3. [1..N -> Packet] \subseteq Seq(Packet)
      BY <1>4
    <2> QED
      BY <2>2, <2>3
  <1>8. Len(us) = N /\ \A k \in 1..N : us[k] = [type |-> "ADD_USER", id |-> seat[A[k]]]
    BY <1>4, <1>7
  <1>9. PICK d \in Packet : d = [type |-> "ADD_ROOM"]
    BY DEF Packet
  <1>10. PICK u \in Packet : u = [type |-> "UPDATE_HOST", id |-> host_id]
    BY DEF Packet
  <1>11. PICK q \in Seq(Packet) : IsThree(q, d, us, u, N)
    BY <1>4, <1>8, ThreeParts
  <1>12. q = Welcome
    BY <1>2, <1>3, <1>7, <1>9, <1>10, <1>11 DEF Welcome, IsThree
  <1>13. \A k \in 2..(N + 1) : q[k] = [type |-> "ADD_USER", id |-> seat[A[k - 1]]]
    <2>1. \A k \in 2..(N + 1) : k - 1 \in 1..N
      BY <1>4
    <2> QED
      BY <1>8, <1>11, <2>1 DEF IsThree
  <1>14. IsWelcome(q, A, N)
    BY <1>4, <1>5, <1>9, <1>10, <1>11, <1>12, <1>13 DEF IsWelcome, IsThree
  <1> QED
    BY <1>4, <1>14

\* A newcomer Me is told of the room, of everybody in it and of the host.
LEMMA JoinMeKeeps ==
  ASSUME IInv, AddPlayer(Me)
  PROVE  IInv'
  <1>1. ServerTyped /\ RoomOK /\ Typed /\ Tells /\ Me \in People /\ Me # None /\ Seated \subseteq People
    BY Parts, PeopleFacts DEF IInv
  <1>2. /\ room_state = "WAIT" /\ Me \notin Seated /\ Aside /\ unserved' = FALSE
        /\ UNCHANGED <<room_state, host_id>>
        /\ ServerTyped' /\ RoomOK' /\ Seated' = Seated \cup {Me}
    BY <1>1, JoinIs
  <1>3. PICK i \in Seats :
              /\ seat[i] = None /\ Occupied' = Occupied \cup {i}
              /\ seat'[i] = Me /\ player_state'[i] = "WAIT" /\ fixed'[i] = 0
              /\ \A j \in Occupied : seat'[j] = seat[j] /\ player_state'[j] = player_state[j] /\ fixed'[j] = fixed[j]
    BY <1>1, JoinIs
  <1>4. screen = "lobby" /\ s2c = <<>> /\ s2c' = s2c \o Welcome
    BY DEF AddPlayer
  <1>5. IsFiniteSet(Occupied) /\ host_id \in Seated /\ host_id \in People /\ host_id # Me
    BY <1>1, <1>2, <1>3, FreeSeat DEF RoomOK
  <1>6. PICK N \in Nat : \E A \in [1..N -> Occupied] : \E q \in Seq(Packet) : IsWelcome(q, A, N)
    BY <1>1, <1>5, WelcomeIs
  <1>60. PICK A \in [1..N -> Occupied], q \in Seq(Packet) : IsWelcome(q, A, N)
    BY <1>6
  <1>7. /\ \A j, k \in 1..N : A[j] = A[k] => j = k
        /\ \A j \in Occupied : \E k \in 1..N : A[k] = j
        /\ q = Welcome /\ Len(q) = N + 2
        /\ q[1] = [type |-> "ADD_ROOM"] /\ q[N + 2] = [type |-> "UPDATE_HOST", id |-> host_id]
        /\ \A k \in 2..(N + 1) : q[k] = [type |-> "ADD_USER", id |-> seat[A[k - 1]]]
    BY <1>60 DEF IsWelcome
  <1>8. s2c' = q
    BY <1>4, <1>7
  <1>9. /\ Guests(A, 0) = {Me} /\ Guests(A, N) = Seated \cup {Me}
        /\ \A m \in 0..N : Guests(A, m) \in SUBSET People
        /\ \A m \in 1..N : /\ seat[A[m]] \in Seated /\ seat[A[m]] \notin Guests(A, m - 1)
                           /\ Guests(A, m) = Guests(A, m - 1) \cup {seat[A[m]]}
                           /\ Cardinality(Guests(A, m - 1)) < SeatCount
    BY <1>1, <1>2, <1>3, <1>7, GuestsAre
  <1>10. PICK S : S = [m \in 0..N |-> Guests(A, m)]
    OBVIOUS
  <1>11. /\ S[0] = {Me} /\ S[N] = Seated \cup {Me} /\ \A m \in 0..N : S[m] \in SUBSET People
         /\ \A m \in 1..N : /\ seat[A[m]] \in People /\ seat[A[m]] \notin S[m - 1] /\ S[m] = S[m - 1] \cup {seat[A[m]]}
                            /\ Cardinality(S[m - 1]) < SeatCount
    <2>1. \A m \in 1..N : m - 1 \in 0..N /\ m \in 0..N
      OBVIOUS
    <2> QED
      BY <1>1, <1>9, <1>10, <2>1
  <1>12. PICK last : last = [WithIds(S[N]) EXCEPT !.host = host_id]
    OBVIOUS
  <1>13. PICK I \in SUBSET People : I = S[N]
    <2>1. N \in 0..N
      OBVIOUS
    <2> QED
      BY <1>11, <2>1
  <1>14. /\ last \in Picture /\ last.room /\ last.ids = Seated' /\ last.host = host_id /\ last.pieces = NoPieces
    <2>1. WithIds(I) \in Picture /\ WithIds(I).room /\ WithIds(I).ids = I /\ WithIds(I).pieces = NoPieces
      BY WithIdsIs
    <2> HIDE DEF WithIds
    <2>2. last = [WithIds(I) EXCEPT !.host = host_id]
      BY <1>12, <1>13
    <2>3. PICK w \in Picture : w = WithIds(I)
      BY <2>1
    <2> QED
      BY <1>2, <1>5, <1>11, <1>13, <2>1, <2>2, <2>3 DEF Picture
  <1>15. PICK g : g = [k \in 0..(N + 2) |-> IF k = 0 THEN Lobby ELSE IF k = N + 2 THEN last ELSE WithIds(S[k - 1])]
    OBVIOUS
  <1>16. g[0] = Lobby /\ g[N + 2] = last /\ \A k \in 1..(N + 1) : g[k] = WithIds(S[k - 1]) /\ k - 1 \in 0..N
    BY <1>15
  <1>17. Lobby \in Picture /\ ~Lobby.room
    BY <1>1, PeopleFacts DEF Lobby, NoPieces, Picture
  <1>18. \A k \in 1..(N + 1) : WithIds(S[k - 1]) \in Picture /\ WithIds(S[k - 1]).host = None
    BY <1>11, <1>16, WithIdsIs
  <1>19. g \in [0..(N + 2) -> Picture]
    <2>1. \A k \in 0..(N + 2) : k = 0 \/ k = N + 2 \/ k \in 1..(N + 1)
      OBVIOUS
    <2>2. \A k \in 0..(N + 2) : g[k] \in Picture
      BY <1>14, <1>16, <1>17, <1>18, <2>1
    <2>3. g = [k \in 0..(N + 2) |-> g[k]]
      BY <1>15
    <2> QED
      BY <2>2, <2>3
  <1>20. ASSUME NEW k \in 1..(N + 2)
         PROVE  g[k] = After(g[k - 1], q[k]) /\ Fits(g[k - 1], q[k])
    <2>0. PICK d \in Packet : d = q[k]
      BY <1>7
    <2>1. CASE k = 1
      <3>1. d.type = "ADD_ROOM"
        BY <1>7, <2>0, <2>1
      <3>2. After(Lobby, d) = Opened /\ Fits(Lobby, d)
        BY <1>17, <3>1 DEF After, Fits
      <3>3. Opened = WithIds({Me})
        <4>1. PICK J \in SUBSET People : J = {Me}
          BY <1>1
        <4>2. /\ WithIds(J) \in Picture /\ WithIds(J).room /\ WithIds(J).ids = J /\ WithIds(J).host = None
              /\ WithIds(J).pieces = NoPieces /\ WithIds(J).playing = {}
          BY WithIdsIs
        <4>3. PICK b \in Picture : b = WithIds(J)
          BY <4>2
        <4>4. PICK c \in Picture : c = Opened
          <5>1. Opened \in Picture
            BY PeopleFacts DEF Opened, NoPieces, Picture
          <5> QED
            BY <5>1
        <4>5. c.room = TRUE /\ c.ids = {Me} /\ c.host = None /\ c.pieces = NoPieces /\ c.playing = {}
          BY <4>4 DEF Opened
        <4>6. b = c
          <5>1. b.room = TRUE
            BY <4>2, <4>3 DEF Picture
          <5> QED
            BY <4>1, <4>2, <4>3, <4>5, <5>1, SamePicture
        <4> QED
          BY <4>1, <4>3, <4>4, <4>6
      <3>4. g[1] = WithIds(S[0]) /\ k - 1 = 0
        BY <1>16, <2>1
      <3>5. g[k] = Opened /\ g[k - 1] = Lobby
        BY <1>11, <1>16, <2>1, <3>3, <3>4
      <3> QED
        BY <2>0, <3>2, <3>5
    <2>2. CASE k \in 2..(N + 1)
      <3>1. PICK m \in 1..N : m = k - 1
        BY <2>2
      <3>2. m - 1 \in 0..N /\ k \in 1..(N + 1) /\ m \in 1..(N + 1)
        BY <2>2
      <3>3. PICK x \in People : x = seat[A[m]]
        <4>1. seat[A[m]] \in People
          BY <1>11
        <4> QED
          BY <4>1
      <3>4. d.type = "ADD_USER" /\ d.id = x
        <4>1. q[k] = [type |-> "ADD_USER", id |-> seat[A[k - 1]]]
          BY <1>7, <2>2
        <4>2. d = [type |-> "ADD_USER", id |-> x]
          BY <2>0, <3>1, <3>3, <4>1
        <4> QED
          BY <4>2
      <3>5. PICK J \in SUBSET People : J = S[m - 1]
        BY <1>11, <3>2
      <3>6. x \notin J /\ S[m] = J \cup {x} /\ Cardinality(J) < SeatCount
        BY <1>11, <3>3, <3>5
      <3>7. g[k] = WithIds(J \cup {x}) /\ g[k - 1] = WithIds(J)
        BY <1>16, <3>1, <3>2, <3>5, <3>6
      <3>8. After(WithIds(J), d) = WithIds(J \cup {d.id}) /\ Fits(WithIds(J), d)
        BY <3>4, <3>6, WelcomeUser
      <3> QED
        BY <2>0, <3>4, <3>7, <3>8
    <2>3. CASE k = N + 2
      <3>1. d.type = "UPDATE_HOST" /\ d.id = host_id
        BY <1>7, <2>0, <2>3
      <3>2. PICK w \in Picture : w = WithIds(I) /\ w.room /\ w.ids = I /\ w.host = None
        BY WithIdsIs
      <3>3. g[k] = last /\ g[k - 1] = w
        <4>1. k - 1 = N + 1 /\ N + 1 \in 1..(N + 1) /\ (N + 1) - 1 = N
          BY <2>3
        <4> QED
          BY <1>13, <1>16, <2>3, <3>2, <4>1
      <3>4. After(w, d) = [w EXCEPT !.host = host_id]
        BY <3>1, <3>2 DEF After
      <3>5. last = [w EXCEPT !.host = host_id]
        BY <1>12, <1>13, <3>2
      <3>6. Fits(w, d)
        BY <1>5, <1>11, <1>13, <3>1, <3>2 DEF Fits
      <3> QED
        BY <2>0, <3>3, <3>4, <3>5, <3>6
    <2> QED
      BY <2>1, <2>2, <2>3
  <1>21. Tale(g, q)
    BY <1>7, <1>19, <1>20 DEF Tale
  <1>22. Mirrors(g[Len(q)])'
    <2>1. \A j \in Occupied' : seat'[j] \in Seated' /\ last.pieces[seat'[j]] = 0
      <3>1. \A j \in Occupied' : seat'[j] \in Seated'
        BY DEF Occupied, Seated
      <3>2. Seated' \subseteq People
        BY <1>1, <1>2
      <3> QED
        BY <1>14, <3>1, <3>2 DEF NoPieces
    <2>2. Mirrors(last)'
      BY <1>2, <1>14, <2>1 DEF Mirrors
    <2> QED
      BY <1>7, <1>16, <2>2
  <1>23. \A k \in 1..Len(q) : g[k].host = Me => host_id' = Me
    <2>1. \A k \in 1..(N + 2) : k = N + 2 \/ k \in 1..(N + 1)
      OBVIOUS
    <2>2. \A k \in 1..(N + 2) : g[k].host # Me
      BY <1>1, <1>5, <1>14, <1>16, <1>18, <2>1
    <2> QED
      BY <1>7, <2>2
  <1>24. UNCHANGED client /\ Apart
    BY <1>2 DEF Aside, Apart
  <1>25. Tells'
    BY <1>1, <1>4, <1>8, <1>16, <1>21, <1>22, <1>23, <1>24, SendAfresh
  <1>26. DOMAIN q = 1..(N + 2) /\ q # <<>> /\ Head(q) = q[1] /\ q[1].type = "ADD_ROOM"
    BY <1>7
  <1>27. \A k \in 2..(N + 2) : q[k].type \in {"ADD_USER", "UPDATE_HOST"}
    <2>1. \A k \in 2..(N + 2) : k \in 2..(N + 1) \/ k = N + 2
      OBVIOUS
    <2>2. \A k \in 2..(N + 1) : q[k].type = "ADD_USER"
      <3> SUFFICES ASSUME NEW k \in 2..(N + 1)
                   PROVE  q[k].type = "ADD_USER"
        OBVIOUS
      <3>1. PICK x : x = seat[A[k - 1]]
        OBVIOUS
      <3>2. q[k] = [type |-> "ADD_USER", id |-> x]
        BY <1>7, <3>1
      <3> QED
        BY <3>2
    <2>3. q[N + 2].type = "UPDATE_HOST"
      BY <1>7
    <2> QED
      BY <2>1, <2>2, <2>3
  <1>28. \A k \in 1..(N + 2) : k = 1 \/ k \in 2..(N + 2)
    OBVIOUS
  <1>29. Begins'
    <2>1. screen' = "lobby"
      BY <1>4, <1>24 DEF client
    <2> QED
      BY <1>8, <1>26, <1>27, <1>28, <2>1 DEF Begins
  <1>30. Marked'
    <2>1. \A k \in Marking' : k = 1
      BY <1>8, <1>26, <1>27, <1>28 DEF Marking, Marks
    <2>2. 1 \in Marking'
      <3>1. 1 \in DOMAIN q
        BY <1>26
      <3> QED
        BY <1>8, <1>26, <3>1 DEF Marking, Marks
    <2>3. ~MeReady'
      <3>1. \A j \in Seats : seat'[j] = Me => j = i
        BY <1>1, <1>2, <1>3 DEF RoomOK, Occupied
      <3> QED
        BY <1>3, <3>1 DEF MeReady
    <2>4. s2c'[1].type # "READY"
      BY <1>8, <1>26
    <2> QED
      BY <2>1, <2>2, <2>3, <2>4 DEF Marked
  <1> QED
    BY <1>2, <1>8, <1>24, <1>25, <1>29, <1>30, ApartKeeps

----------------------------------------------------------------------------
(* The tick. *)

\* Packet p is the one of slot x.
IsSlot(x, p, fixes, outs, ends, w) ==
  \/ \E i \in fixes : x = 3 * i /\ p = [type |-> "FIX", id |-> seat[i]]
  \/ \E i \in outs : x = 3 * i + 1 /\ p = [type |-> "GAMEOVER", id |-> seat[i]]
  \/ \E i \in ends : x = 3 * i + 2 /\ p = [type |-> "GAMEEND", id |-> seat[w]]

SlotsOf(fixes, outs, ends) == {3 * i : i \in fixes} \cup {3 * i + 1 : i \in outs} \cup {3 * i + 2 : i \in ends}

\* q are the packets of a tick, A[n] the slot of the n-th.
IsTick(q, A, K, fixes, outs, ends, w) ==
  /\ q \in Seq(Packet) /\ Len(q) = K
  /\ A \in [1..K -> SlotsOf(fixes, outs, ends)]
  /\ \A x \in SlotsOf(fixes, outs, ends) : \E n \in 1..K : A[n] = x
  /\ \A m, n \in 1..K : m < n => A[m] < A[n]
  /\ \A n \in 1..K : IsSlot(A[n], q[n], fixes, outs, ends, w)

LEMMA PlayingIs ==
  ASSUME ServerTyped
  PROVE  /\ Playing \subseteq Occupied /\ Playing \subseteq Seats /\ Occupied \subseteq Seats /\ IsFiniteSet(Playing)
         /\ \A i \in Occupied : seat[i] \in People
  BY SeatFacts, FS_Subset DEF Playing, Occupied, ServerTyped

LEMMA SlotsFinite ==
  ASSUME NEW fixes \in SUBSET Seats, NEW outs \in SUBSET Seats, NEW ends \in SUBSET Seats
  PROVE  SlotsOf(fixes, outs, ends) \in SUBSET Nat /\ IsFiniteSet(SlotsOf(fixes, outs, ends))
  <1> DEFINE S == SlotsOf(fixes, outs, ends)
             M == 3 * SeatCount + 2
  <1>1. SeatCount \in Nat /\ M \in Nat /\ \A i \in Seats : i \in Nat /\ i <= SeatCount
    BY SeatFacts DEF Seats
  <1>2. \A i \in Seats : 3 * i \in 0..M /\ 3 * i + 1 \in 0..M /\ 3 * i + 2 \in 0..M
    BY <1>1
  <1>3. S \subseteq 0..M
    BY <1>2 DEF SlotsOf
  <1> HIDE DEF M, S
  <1>4. IsFiniteSet(0..M)
    BY <1>1, FS_Interval
  <1>5. IsFiniteSet(S)
    BY <1>3, <1>4, FS_Subset
  <1>6. S \in SUBSET Nat
    BY <1>1, <1>3
  <1> QED
    BY <1>5, <1>6 DEF S

\* The packets of a tick, by their slots.
SomeTick(fixes, outs, ends, w) ==
  \E K \in Nat : \E A, q : IsTick(q, A, K, fixes, outs, ends, w) /\ q = TickPackets(fixes, outs, w)

LEMMA TickIs ==
  ASSUME ServerTyped, NEW fixes \in SUBSET Playing, NEW outs \in SUBSET Playing, NEW w, w = 0 \/ w \in Occupied,
         NEW ends, ends = (IF w # 0 THEN Playing ELSE {})
  PROVE  SomeTick(fixes, outs, ends, w)
  <1> DEFINE kinds == << "FIX", "GAMEOVER", "GAMEEND" >>
  <1>1. fixes \in SUBSET Seats /\ outs \in SUBSET Seats /\ ends \in SUBSET Seats /\ fixes \subseteq Occupied /\ outs \subseteq Occupied
        /\ \A i \in Occupied : seat[i] \in People
    BY PlayingIs
  <1>2. PICK S \in SUBSET Nat : S = SlotsOf(fixes, outs, ends) /\ IsFiniteSet(S)
    BY <1>1, SlotsFinite
  <1>3. PICK A : A = Ascending(S)
    OBVIOUS
  <1>4. PICK K \in Nat : K = Cardinality(S)
    BY <1>2, AscendingIs
  <1>5. /\ A \in [1..K -> S] /\ \A x \in S : \E n \in 1..K : A[n] = x
        /\ \A m, n \in 1..K : m < n => A[m] < A[n]
    BY <1>2, <1>3, <1>4, AscendingIs
  <1> DEFINE pkt(x) == [type |-> kinds[(x % 3) + 1], id |-> IF x % 3 = 2 THEN seat[w] ELSE seat[x \div 3]]
  <1>6. kinds[0 + 1] = "FIX" /\ kinds[1 + 1] = "GAMEOVER" /\ kinds[2 + 1] = "GAMEEND"
    OBVIOUS
  <1> HIDE DEF kinds
  <1>7. \A i \in Nat : /\ (3 * i) % 3 = 0 /\ (3 * i) \div 3 = i /\ (3 * i + 1) % 3 = 1 /\ (3 * i + 1) \div 3 = i
                       /\ (3 * i + 2) % 3 = 2
    OBVIOUS
  <1>8. \A i \in Seats : i \in Nat
    BY SeatFacts
  <1>9. ASSUME NEW x \in S
        PROVE  IsSlot(x, pkt(x), fixes, outs, ends, w) /\ pkt(x) \in Packet
    <2>1. CASE \E i \in fixes : x = 3 * i
      <3>1. PICK i \in fixes : x = 3 * i
        BY <2>1
      <3>2. x % 3 = 0 /\ x \div 3 = i /\ 0 # 2 /\ seat[i] \in People
        BY <1>1, <1>7, <1>8, <3>1
      <3>3. pkt(x) = [type |-> "FIX", id |-> seat[i]]
        BY <1>6, <3>2
      <3> HIDE DEF pkt
      <3> QED
        BY <3>1, <3>2, <3>3 DEF IsSlot, Packet
    <2>2. CASE \E i \in outs : x = 3 * i + 1
      <3>1. PICK i \in outs : x = 3 * i + 1
        BY <2>2
      <3>2. x % 3 = 1 /\ x \div 3 = i /\ 1 # 2 /\ seat[i] \in People
        BY <1>1, <1>7, <1>8, <3>1
      <3>3. pkt(x) = [type |-> "GAMEOVER", id |-> seat[i]]
        BY <1>6, <3>2
      <3> HIDE DEF pkt
      <3> QED
        BY <3>1, <3>2, <3>3 DEF IsSlot, Packet
    <2>3. CASE \E i \in ends : x = 3 * i + 2
      <3>1. PICK i \in ends : x = 3 * i + 2
        BY <2>3
      <3>2. x % 3 = 2 /\ seat[w] \in People
        BY <1>1, <1>7, <1>8, <3>1
      <3>3. pkt(x) = [type |-> "GAMEEND", id |-> seat[w]]
        BY <1>6, <3>2
      <3> HIDE DEF pkt
      <3> QED
        BY <3>1, <3>2, <3>3 DEF IsSlot, Packet
    <2> HIDE DEF pkt
    <2> QED
      BY <1>2, <2>1, <2>2, <2>3 DEF SlotsOf
  <1>10. PICK q : q = [n \in 1..K |-> pkt(A[n])]
    OBVIOUS
  <1>11. \A n \in 1..K : q[n] = pkt(A[n]) /\ A[n] \in S
    BY <1>5, <1>10
  <1>12. q = TickPackets(fixes, outs, w)
    <2>1. DOMAIN A = 1..K
      BY <1>5
    <2>2. A = Ascending({3 * i : i \in fixes} \cup {3 * i + 1 : i \in outs} \cup {3 * i + 2 : i \in (IF w # 0 THEN Playing ELSE {})})
      BY <1>2, <1>3 DEF SlotsOf
    <2>3. TickPackets(fixes, outs, w) = [n \in DOMAIN A |-> pkt(A[n])]
      BY <2>2, Zenon DEF TickPackets, pkt, kinds
    <2> QED
      BY <1>10, <2>1, <2>3
  <1> HIDE DEF pkt
  <1>13. q \in Seq(Packet) /\ Len(q) = K
    <2>1. q \in [1..K -> Packet]
      BY <1>9, <1>10, <1>11
    <2> QED
      BY <2>1
  <1>14. IsTick(q, A, K, fixes, outs, ends, w)
    BY <1>2, <1>5, <1>9, <1>11, <1>13 DEF IsTick
  <1> QED
    BY <1>12, <1>14 DEF SomeTick

\* The players whose packets are among the slots T.
FixedIn(T) == {seat[i] : i \in {j \in Occupied : 3 * j \in T}}
OutIn(T) == {seat[i] : i \in {j \in Occupied : 3 * j + 1 \in T}}
EndIn(T) == \E j \in Occupied : 3 * j + 2 \in T

\* Picture a after the packets of the slots T.
Ticked(a, T) ==
  IF EndIn(T) THEN [a EXCEPT !.pieces = NoPieces, !.playing = {}]
  ELSE [a EXCEPT !.pieces = [p \in People |-> IF p \in FixedIn(T) THEN OneMore(a.pieces[p]) ELSE a.pieces[p]],
                 !.playing = @ \ OutIn(T)]

IsTicked(b, a, T) ==
  /\ b.room = a.room /\ b.ids = a.ids /\ b.host = a.host
  /\ EndIn(T) => b.pieces = NoPieces /\ b.playing = {}
  /\ ~EndIn(T) => /\ b.playing = a.playing \ OutIn(T)
                  /\ \A p \in People : b.pieces[p] = IF p \in FixedIn(T) THEN OneMore(a.pieces[p]) ELSE a.pieces[p]

LEMMA TickedIs ==
  ASSUME NEW a \in Picture, NEW T
  PROVE  Ticked(a, T) \in Picture /\ IsTicked(Ticked(a, T), a, T)
  <1>1. PICK f : f = [p \in People |-> IF p \in FixedIn(T) THEN OneMore(a.pieces[p]) ELSE a.pieces[p]]
    OBVIOUS
  <1>2. \A p \in People : a.pieces[p] \in 0..(MaxPieces + 1)
    BY DEF Picture
  <1>3. \A p \in People : OneMore(a.pieces[p]) \in 0..(MaxPieces + 1)
    BY <1>2, OneMoreIs
  <1>4. f \in [People -> 0..(MaxPieces + 1)]
    BY <1>1, <1>2, <1>3
  <1>5. NoPieces \in [People -> 0..(MaxPieces + 1)]
    BY PeopleFacts DEF NoPieces
  <1>6. PICK O : O = OutIn(T)
    OBVIOUS
  <1>7. CASE EndIn(T)
    <2>1. Ticked(a, T) = [a EXCEPT !.pieces = NoPieces, !.playing = {}]
      BY <1>7 DEF Ticked
    <2> QED
      BY <1>5, <1>7, <2>1 DEF Picture, IsTicked
  <1>8. CASE ~EndIn(T)
    <2>1. Ticked(a, T) = [a EXCEPT !.pieces = f, !.playing = a.playing \ O]
      BY <1>1, <1>6, <1>8 DEF Ticked
    <2>2. PICK b : b = Ticked(a, T)
      OBVIOUS
    <2>3. b \in Picture /\ b.room = a.room /\ b.ids = a.ids /\ b.host = a.host /\ b.pieces = f /\ b.playing = a.playing \ O
      BY <1>4, <2>1, <2>2 DEF Picture
    <2> QED
      BY <1>1, <1>6, <1>8, <2>2, <2>3 DEF IsTicked
  <1> QED
    BY <1>7, <1>8

\* One more slot.
LEMMA TickedMore ==
  ASSUME ServerTyped, RoomOK, NEW a \in Picture, a.room, NEW T \in SUBSET Nat, ~EndIn(T), NEW x \in Nat, x \notin T, NEW p \in Packet,
         NEW fixes \in SUBSET Playing, NEW outs \in SUBSET Playing, NEW ends \in SUBSET Playing, NEW w,
         IsSlot(x, p, fixes, outs, ends, w)
  PROVE  Ticked(a, T \cup {x}) = After(Ticked(a, T), p) /\ Fits(Ticked(a, T), p)
  <1>1. PICK b \in Picture : b = Ticked(a, T)
    BY TickedIs
  <1>2. /\ b.room /\ b.ids = a.ids /\ b.host = a.host /\ b.playing = a.playing \ OutIn(T)
        /\ \A q \in People : b.pieces[q] = IF q \in FixedIn(T) THEN OneMore(a.pieces[q]) ELSE a.pieces[q]
    BY <1>1, TickedIs DEF IsTicked
  <1>3. PICK U : U = T \cup {x}
    OBVIOUS
  <1>4. PICK c \in Picture : c = Ticked(a, U)
    BY TickedIs
  <1>5. /\ c.room = a.room /\ c.ids = a.ids /\ c.host = a.host
        /\ EndIn(U) => c.pieces = NoPieces /\ c.playing = {}
        /\ ~EndIn(U) => /\ c.playing = a.playing \ OutIn(U)
                        /\ \A q \in People : c.pieces[q] = IF q \in FixedIn(U) THEN OneMore(a.pieces[q]) ELSE a.pieces[q]
    <2>1. IsTicked(c, a, U)
      BY <1>4, TickedIs
    <2> QED
      BY <2>1 DEF IsTicked
  <1>6. PICK d \in Picture : d = After(b, p)
    BY AfterPicture
  <1>7. p.type \in {"FIX", "GAMEOVER", "GAMEEND"}
    BY DEF IsSlot
  <1>8. Fits(b, p)
    BY <1>7 DEF Fits
  <1>9. Playing \subseteq Occupied /\ \A i \in Occupied : i \in Nat /\ i \in Seats /\ seat[i] \in People
    BY PlayingIs, SeatFacts
  <1>10. \A i, j \in Occupied : seat[i] = seat[j] => i = j
    BY DEF RoomOK
  <1>11. a.room = TRUE /\ b.room = TRUE /\ c.room = TRUE /\ d.room \in BOOLEAN /\ a.playing \subseteq People
         /\ b.pieces \in [People -> 0..(MaxPieces + 1)] /\ c.pieces \in [People -> 0..(MaxPieces + 1)]
    BY <1>2, <1>5 DEF Picture
  <1>12. CASE \E i \in fixes : x = 3 * i /\ p = [type |-> "FIX", id |-> seat[i]]
    <2>1. PICK i \in Occupied : x = 3 * i /\ p = [type |-> "FIX", id |-> seat[i]]
      BY <1>9, <1>12
    <2>2. PICK y \in People : y = seat[i]
      BY <1>9
    <2>3. \A j \in Nat : 3 * j + 1 # x /\ 3 * j + 2 # x /\ (3 * j = x <=> j = i)
      BY <1>9, <2>1
    <2>4. ~EndIn(U)
      BY <1>3, <1>9, <2>3 DEF EndIn
    <2>5. OutIn(U) = OutIn(T)
      BY <1>3, <1>9, <2>3 DEF OutIn
    <2>6. FixedIn(U) = FixedIn(T) \cup {y}
      BY <1>3, <1>9, <2>1, <2>2, <2>3 DEF FixedIn
    <2>7. y \notin FixedIn(T)
      BY <1>10, <2>1, <2>2 DEF FixedIn
    <2>8. d = [b EXCEPT !.pieces[y] = OneMore(@)]
      BY <1>6, <1>11, <2>1, <2>2 DEF After
    <2>9. d.room = b.room /\ d.ids = b.ids /\ d.host = b.host /\ d.playing = b.playing
          /\ d.pieces = [b.pieces EXCEPT ![y] = OneMore(b.pieces[y])]
      BY <2>8 DEF Picture
    <2>10. \A q \in People : d.pieces[q] = c.pieces[q]
      <3> SUFFICES ASSUME NEW q \in People
                   PROVE  d.pieces[q] = c.pieces[q]
        OBVIOUS
      <3>1. CASE q = y
        <4>1. b.pieces[y] = a.pieces[y] /\ c.pieces[y] = OneMore(a.pieces[y])
          BY <1>2, <1>5, <2>4, <2>6, <2>7
        <4>2. d.pieces[y] = OneMore(b.pieces[y])
          BY <1>11, <2>9
        <4> QED
          BY <3>1, <4>1, <4>2
      <3>2. CASE q # y
        <4>1. d.pieces[q] = b.pieces[q]
          BY <1>11, <2>9, <3>2
        <4>2. b.pieces[q] = c.pieces[q]
          BY <1>2, <1>5, <2>4, <2>6, <3>2
        <4> QED
          BY <4>1, <4>2
      <3> QED
        BY <3>1, <3>2
    <2>11. d.pieces = c.pieces
      <3>1. d.pieces \in [People -> 0..(MaxPieces + 1)]
        BY DEF Picture
      <3> QED
        BY <1>11, <2>10, <3>1
    <2>12. d.playing = c.playing
      BY <1>2, <1>5, <2>4, <2>5, <2>9
    <2>13. d = c
      BY <1>2, <1>5, <1>11, <2>9, <2>11, <2>12, SamePicture
    <2> QED
      BY <1>1, <1>3, <1>4, <1>6, <1>8, <2>13
  <1>13. CASE \E i \in outs : x = 3 * i + 1 /\ p = [type |-> "GAMEOVER", id |-> seat[i]]
    <2>1. PICK i \in Occupied : x = 3 * i + 1 /\ p = [type |-> "GAMEOVER", id |-> seat[i]]
      BY <1>9, <1>13
    <2>2. PICK y \in People : y = seat[i]
      BY <1>9
    <2>3. \A j \in Nat : 3 * j # x /\ 3 * j + 2 # x /\ (3 * j + 1 = x <=> j = i)
      BY <1>9, <2>1
    <2>4. ~EndIn(U)
      BY <1>3, <1>9, <2>3 DEF EndIn
    <2>5. OutIn(U) = OutIn(T) \cup {y}
      BY <1>3, <1>9, <2>1, <2>2, <2>3 DEF OutIn
    <2>6. FixedIn(U) = FixedIn(T)
      BY <1>3, <1>9, <2>3 DEF FixedIn
    <2>7. d = [b EXCEPT !.playing = @ \ {y}]
      BY <1>6, <1>11, <2>1, <2>2 DEF After
    <2>8. d.room = b.room /\ d.ids = b.ids /\ d.host = b.host /\ d.playing = b.playing \ {y} /\ d.pieces = b.pieces
      BY <2>7 DEF Picture
    <2>9. \A q \in People : b.pieces[q] = c.pieces[q]
      BY <1>2, <1>5, <2>4, <2>6
    <2>10. d.pieces = c.pieces
      BY <1>11, <2>8, <2>9
    <2>11. d.playing = c.playing
      BY <1>2, <1>5, <2>4, <2>5, <2>8
    <2>12. d = c
      BY <1>2, <1>5, <1>11, <2>8, <2>10, <2>11, SamePicture
    <2> QED
      BY <1>1, <1>3, <1>4, <1>6, <1>8, <2>12
  <1>14. CASE \E i \in ends : x = 3 * i + 2 /\ p = [type |-> "GAMEEND", id |-> seat[w]]
    <2>1. PICK i \in Occupied : x = 3 * i + 2 /\ p = [type |-> "GAMEEND", id |-> seat[w]]
      BY <1>9, <1>14
    <2>2. EndIn(U)
      BY <1>3, <2>1 DEF EndIn
    <2>3. d = [b EXCEPT !.pieces = NoPieces, !.playing = {}]
      BY <1>6, <1>11, <2>1 DEF After
    <2>4. d.room = b.room /\ d.ids = b.ids /\ d.host = b.host /\ d.playing = {} /\ d.pieces = NoPieces
      BY <2>3 DEF Picture
    <2>5. d = c
      BY <1>2, <1>5, <1>11, <2>2, <2>4, SamePicture
    <2> QED
      BY <1>1, <1>3, <1>4, <1>6, <1>8, <2>5
  <1> QED
    BY <1>12, <1>13, <1>14 DEF IsSlot

LEMMA TickedNone ==
  ASSUME NEW a \in Picture
  PROVE  Ticked(a, {}) = a
  <1>1. ~EndIn({}) /\ FixedIn({}) = {} /\ OutIn({}) = {}
    BY DEF EndIn, FixedIn, OutIn
  <1>2. PICK b \in Picture : b = Ticked(a, {})
    BY TickedIs
  <1>3. b.room = a.room /\ b.ids = a.ids /\ b.host = a.host /\ b.playing = a.playing
        /\ \A p \in People : b.pieces[p] = a.pieces[p]
    <2>1. IsTicked(b, a, {})
      BY <1>2, TickedIs
    <2> QED
      BY <1>1, <2>1 DEF IsTicked
  <1>4. a.pieces \in [People -> 0..(MaxPieces + 1)] /\ b.pieces \in [People -> 0..(MaxPieces + 1)]
    BY DEF Picture
  <1>5. b.pieces = a.pieces
    BY <1>3, <1>4
  <1> QED
    BY <1>2, <1>3, <1>5, SamePicture

\* The tale of a tick; nothing follows the end of the game.
LEMMA TickTale ==
  ASSUME ServerTyped, RoomOK, NEW a \in Picture, a.room,
         NEW fixes \in SUBSET Playing, NEW outs \in SUBSET Playing, NEW ends \in SUBSET Playing, NEW w,
         NEW K \in Nat, NEW A, NEW q, IsTick(q, A, K, fixes, outs, ends, w),
         \A i \in ends : \A x \in SlotsOf(fixes, outs, ends) : x <= 3 * i + 2
  PROVE  \E g : /\ Tale(g, q) /\ g[0] = a /\ g[K] = Ticked(a, SlotsOf(fixes, outs, ends))
                /\ \A k \in 0..K : g[k].host = a.host
  <1>1. PICK S : S = SlotsOf(fixes, outs, ends)
    OBVIOUS
  <1>2. S \in SUBSET Nat
    <2>1. fixes \in SUBSET Seats /\ outs \in SUBSET Seats /\ ends \in SUBSET Seats
      BY PlayingIs
    <2> QED
      BY <1>1, <2>1, SlotsFinite
  <1>3. /\ q \in Seq(Packet) /\ Len(q) = K /\ A \in [1..K -> S]
        /\ \A x \in S : \E n \in 1..K : A[n] = x
        /\ \A m, n \in 1..K : m < n => A[m] < A[n]
        /\ \A n \in 1..K : IsSlot(A[n], q[n], fixes, outs, ends, w)
    BY <1>1 DEF IsTick
  <1> DEFINE T(n) == {A[m] : m \in 1..n}
  <1>4. \A n \in 0..K : T(n) \in SUBSET S /\ \A m \in 1..n : m \in 1..K
    BY <1>3
  <1>5. T(0) = {} /\ T(K) = S
    BY <1>3
  <1>6. PICK g : g = [k \in 0..K |-> Ticked(a, T(k))]
    OBVIOUS
  <1>7. \A k \in 0..K : g[k] = Ticked(a, T(k))
    BY <1>6
  <1>8. \A k \in 0..K : g[k] \in Picture /\ g[k].host = a.host
    <2> HIDE DEF T
    <2> SUFFICES ASSUME NEW k \in 0..K
                 PROVE  g[k] \in Picture /\ g[k].host = a.host
      OBVIOUS
    <2>1. PICK U : U = T(k)
      OBVIOUS
    <2>2. Ticked(a, U) \in Picture /\ IsTicked(Ticked(a, U), a, U)
      BY TickedIs
    <2> QED
      BY <1>7, <2>1, <2>2 DEF IsTicked
  <1>9. g \in [0..K -> Picture]
    <2>1. g = [k \in 0..K |-> g[k]]
      BY <1>6
    <2> QED
      BY <1>8, <2>1
  <1>10. ASSUME NEW n \in 1..K
         PROVE  g[n] = After(g[n - 1], q[n]) /\ Fits(g[n - 1], q[n])
    <2>1. n - 1 \in 0..K /\ n \in 0..K /\ K >= 1
      OBVIOUS
    <2>2. PICK x \in Nat : x = A[n] /\ x \in S
      BY <1>2, <1>3
    <2>3. PICK p \in Packet : p = q[n]
      BY <1>3
    <2>4. PICK U \in SUBSET Nat : U = T(n - 1)
      BY <1>2, <1>4, <2>1
    <2>5. \A y \in U : y < x /\ y \in S
      <3>1. \A m \in 1..(n - 1) : m \in 1..K /\ m < n
        OBVIOUS
      <3>2. \A m \in 1..(n - 1) : A[m] < A[n] /\ A[m] \in S
        BY <1>3, <3>1
      <3> QED
        BY <2>2, <2>4, <3>2
    <2>6. x \notin U
      BY <2>5
    <2>7. T(n) = U \cup {x}
      <3>1. \A m : m \in 1..n <=> m \in 1..(n - 1) \/ m = n
        OBVIOUS
      <3> QED
        BY <2>2, <2>4, <3>1
    <2>8. ~EndIn(U)
      <3> SUFFICES ASSUME NEW j \in Occupied, 3 * j + 2 \in U
                   PROVE  FALSE
        BY DEF EndIn
      <3>1. j \in Nat /\ 3 * j + 2 < x /\ 3 * j + 2 \in S /\ \A i \in Playing : i \in Nat
        BY <2>5, PlayingIs, SeatFacts
      <3>2. j \in ends
        BY <1>1, <3>1 DEF SlotsOf
      <3>3. x <= 3 * j + 2
        BY <1>1, <2>2, <3>2
      <3> QED
        BY <3>1, <3>3
    <2>9. IsSlot(x, p, fixes, outs, ends, w)
      BY <1>3, <2>2, <2>3
    <2>10. Ticked(a, U \cup {x}) = After(Ticked(a, U), p) /\ Fits(Ticked(a, U), p)
      BY <2>6, <2>8, <2>9, TickedMore
    <2> HIDE DEF T
    <2> QED
      BY <1>7, <2>1, <2>3, <2>4, <2>7, <2>10
  <1> HIDE DEF T
  <1>11. Tale(g, q)
    BY <1>3, <1>9, <1>10 DEF Tale
  <1>12. g[0] = a /\ g[K] = Ticked(a, S)
    <2>1. 0 \in 0..K /\ K \in 0..K
      OBVIOUS
    <2> QED
      BY <1>5, <1>7, <2>1, TickedNone
  <1> QED
    BY <1>1, <1>8, <1>11, <1>12

\* The winner is a seat of the room, and is alone in PLAY if anybody is.
LEMMA WinnerIs ==
  ASSUME ServerTyped, RoomOK, room_state = "PLAY"
  PROVE  /\ ResolveWinner = 0 \/ ResolveWinner \in Occupied
         /\ Playing = {} => ResolveWinner # 0
         /\ ResolveWinner # 0 /\ Playing # {} => Playing = {ResolveWinner}
  <1>1. Playing \in SUBSET Seats /\ Occupied \in SUBSET Seats /\ Playing \subseteq Occupied /\ IsFiniteSet(Playing) /\ 0 \notin Seats
    BY PlayingIs, SeatFacts
  <1>2. Occupied # {}
    BY SeatOfIs DEF RoomOK
  <1>3. FirstOf(Occupied) \in Occupied
    BY <1>1, <1>2, FirstSeat
  <1>4. Playing # {} => FirstOf(Playing) \in Playing
    BY <1>1, FirstSeat
  <1>5. Cardinality({}) = 0
    BY FS_EmptySet
  <1>6. CASE Cardinality(Playing) = 1
    <2>1. \E x : Playing = {x}
      BY <1>1, <1>6, FS_Singleton
    <2>2. Playing # {}
      BY <2>1
    <2>3. ResolveWinner = FirstOf(Playing)
      BY <1>6, <2>2 DEF ResolveWinner
    <2> QED
      BY <1>1, <1>4, <2>1, <2>2, <2>3
  <1>7. CASE Cardinality(Playing) # 1 /\ Playing = {}
    <2>1. ResolveWinner = FirstOf(Occupied)
      BY <1>7 DEF ResolveWinner
    <2> QED
      BY <1>1, <1>3, <1>7, <2>1
  <1>8. CASE Cardinality(Playing) # 1 /\ Playing # {}
    <2>1. ResolveWinner = 0
      BY <1>8 DEF ResolveWinner
    <2> QED
      BY <1>8, <2>1
  <1> QED
    BY <1>6, <1>7, <1>8

\* The room after a tick: the game is over, or goes on.
TickEnds ==
  /\ room_state' = "WAIT" /\ unserved' = (Playing = {})
  /\ player_state' = [i \in Seats |-> "WAIT"] /\ fixed' = [i \in Seats |-> 0]

TickGoesOn(fixes, outs) ==
  /\ player_state' = [i \in Seats |-> IF i \in outs THEN "GAME_OVER" ELSE player_state[i]]
  /\ fixed' = [i \in Seats |-> IF i \in fixes THEN fixed[i] + 1 ELSE fixed[i]]
  /\ UNCHANGED <<room_state, unserved>>

LEMMA RoomAfterTick ==
  ASSUME ServerTyped, RoomOK, room_state = "PLAY", UNCHANGED <<seat, host_id, mode>>,
         NEW fixes \in SUBSET Playing, \A i \in fixes : fixed[i] < MaxPieces, NEW outs \in SUBSET Playing,
         TickEnds \/ TickGoesOn(fixes, outs)
  PROVE  ServerTyped' /\ RoomOK' /\ Seated' = Seated /\ Occupied' = Occupied
  <1>1. Seated' = Seated /\ Occupied' = Occupied /\ Occupied \subseteq Seats
    BY DEF Seated, Occupied
  <1>2. fixed \in [Seats -> 0..MaxPieces] /\ player_state \in [Seats -> {"WAIT", "READY", "PLAY", "GAME_OVER"}]
    BY DEF ServerTyped
  <1>3. CASE TickEnds
    <2>1. 0 \in 0..MaxPieces
      BY PeopleFacts
    <2>2. fixed' \in [Seats -> 0..MaxPieces] /\ player_state' \in [Seats -> {"WAIT", "READY", "PLAY", "GAME_OVER"}]
      BY <1>3, <2>1 DEF TickEnds
    <2>3. \A i \in Occupied : player_state'[i] = "WAIT" /\ fixed'[i] = 0
      BY <1>1, <1>3 DEF TickEnds
    <2>4. room_state' = "WAIT" /\ unserved' \in BOOLEAN
      BY <1>3 DEF TickEnds
    <2>5. ServerTyped'
      BY <2>2, <2>4 DEF ServerTyped
    <2>6. RoomOK'
      BY <1>1, <2>3, <2>4 DEF RoomOK
    <2> QED
      BY <1>1, <2>5, <2>6
  <1>4. CASE TickGoesOn(fixes, outs)
    <2>1. \A i \in Seats : fixed'[i] \in 0..MaxPieces
      <3>1. MaxPieces \in Nat
        BY PeopleFacts
      <3>2. \A i \in Seats : fixed[i] \in 0..MaxPieces /\ fixed'[i] = IF i \in fixes THEN fixed[i] + 1 ELSE fixed[i]
        BY <1>2, <1>4 DEF TickGoesOn
      <3> QED
        BY <3>1, <3>2
    <2>2. fixed' \in [Seats -> 0..MaxPieces]
      BY <1>4, <2>1 DEF TickGoesOn
    <2>3. player_state' \in [Seats -> {"WAIT", "READY", "PLAY", "GAME_OVER"}]
      BY <1>2, <1>4 DEF TickGoesOn
    <2>4. \A i \in Occupied : player_state'[i] \in {"PLAY", "GAME_OVER"}
      BY <1>1, <1>4 DEF RoomOK, TickGoesOn
    <2>5. room_state' = "PLAY" /\ unserved' = unserved
      BY <1>4 DEF TickGoesOn
    <2>6. ServerTyped'
      BY <2>2, <2>3, <2>5 DEF ServerTyped
    <2>7. RoomOK'
      BY <1>1, <2>4, <2>5 DEF RoomOK
    <2> QED
      BY <1>1, <2>6, <2>7
  <1> QED
    BY <1>3, <1>4

\* The picture of a tick is the one of the room that the tick leaves.
LEMMA TickMirrors ==
  ASSUME ServerTyped, RoomOK, room_state = "PLAY", UNCHANGED <<seat, host_id, mode>>,
         NEW fixes \in SUBSET Playing, \A i \in fixes : fixed[i] < MaxPieces, NEW outs \in SUBSET Playing,
         NEW w, w = ResolveWinner, IF w # 0 THEN TickEnds ELSE TickGoesOn(fixes, outs),
         NEW ends, ends = (IF w # 0 THEN Playing ELSE {}),
         NEW a \in Picture, Mirrors(a), NEW b \in Picture, b = Ticked(a, SlotsOf(fixes, outs, ends))
  PROVE  Mirrors(b)'
  <1>1. Seated' = Seated /\ Occupied' = Occupied /\ Occupied \subseteq Seats
    BY DEF Seated, Occupied
  <1>2. PICK S : S = SlotsOf(fixes, outs, ends)
    OBVIOUS
  <1>3. IsTicked(b, a, S)
    BY <1>2, TickedIs
  <1>4. a.room /\ a.ids = Seated /\ (a.host = host_id \/ (a.host = None /\ host_id = Me))
        /\ (~unserved => \A i \in Occupied : a.pieces[seat[i]] = fixed[i] /\ (seat[i] \in a.playing <=> player_state[i] = "PLAY"))
    BY DEF Mirrors
  <1>5. b.room /\ b.ids = Seated' /\ (b.host = host_id' \/ (b.host = None /\ host_id' = Me))
    BY <1>1, <1>3, <1>4 DEF IsTicked
  <1>6. Playing \subseteq Occupied /\ \A i \in Occupied : i \in Nat /\ i \in Seats /\ seat[i] \in People
    BY PlayingIs, SeatFacts
  <1>7. CASE w # 0
    <2>1. room_state' = "WAIT" /\ unserved' = (Playing = {})
      BY <1>7 DEF TickEnds
    <2>2. ~unserved' => EndIn(S)
      <3> SUFFICES ASSUME Playing # {}
                   PROVE  EndIn(S)
        BY <2>1
      <3>1. PICK i \in Playing : TRUE
        OBVIOUS
      <3>2. 3 * i + 2 \in S /\ i \in Occupied
        BY <1>2, <1>6, <1>7 DEF SlotsOf
      <3> QED
        BY <3>2 DEF EndIn
    <2>3. ~unserved' => \A i \in Occupied : b.pieces[seat[i]] = 0
      BY <1>3, <1>6, <2>2 DEF IsTicked, NoPieces
    <2> QED
      BY <1>1, <1>5, <2>1, <2>3 DEF Mirrors
  <1>8. CASE w = 0
    <2>1. TickGoesOn(fixes, outs) /\ ends = {}
      BY <1>8
    <2>2. /\ \A i \in Seats : /\ player_state'[i] = IF i \in outs THEN "GAME_OVER" ELSE player_state[i]
                              /\ fixed'[i] = IF i \in fixes THEN fixed[i] + 1 ELSE fixed[i]
          /\ room_state' = "PLAY" /\ unserved' = unserved
      BY <2>1 DEF TickGoesOn
    <2>3. \A j \in Occupied : (3 * j \in S <=> j \in fixes) /\ (3 * j + 1 \in S <=> j \in outs) /\ 3 * j + 2 \notin S
      <3>1. fixes \subseteq Nat /\ outs \subseteq Nat
        BY <1>6
      <3> SUFFICES ASSUME NEW j \in Occupied
                   PROVE  (3 * j \in S <=> j \in fixes) /\ (3 * j + 1 \in S <=> j \in outs) /\ 3 * j + 2 \notin S
        OBVIOUS
      <3>2. j \in Nat
        BY <1>6
      <3>3. \A x : x \in S <=> (\E i \in fixes : x = 3 * i) \/ (\E i \in outs : x = 3 * i + 1)
        BY <1>2, <2>1 DEF SlotsOf
      <3>4. \A i \in Nat : (3 * j = 3 * i <=> i = j) /\ 3 * j # 3 * i + 1 /\ 3 * j + 1 # 3 * i /\ (3 * j + 1 = 3 * i + 1 <=> i = j)
                           /\ 3 * j + 2 # 3 * i /\ 3 * j + 2 # 3 * i + 1
        BY <3>2
      <3> QED
        BY <3>1, <3>3, <3>4
    <2>4. ~EndIn(S)
      BY <2>3 DEF EndIn
    <2>5. \A i \in Occupied : (seat[i] \in FixedIn(S) <=> i \in fixes) /\ (seat[i] \in OutIn(S) <=> i \in outs)
      <3>1. \A i, j \in Occupied : seat[i] = seat[j] => i = j
        BY DEF RoomOK
      <3> QED
        BY <2>3, <3>1 DEF FixedIn, OutIn
    <2>6. ASSUME ~unserved', NEW i \in Occupied
          PROVE  b.pieces[seat[i]] = fixed'[i] /\ (seat[i] \in b.playing <=> player_state'[i] = "PLAY")
      <3>1. i \in Seats /\ seat[i] \in People /\ fixed[i] \in 0..MaxPieces /\ MaxPieces \in Nat
        BY <1>6, PeopleFacts DEF ServerTyped
      <3>2. a.pieces[seat[i]] = fixed[i] /\ (seat[i] \in a.playing <=> player_state[i] = "PLAY")
        BY <1>4, <2>2, <2>6
      <3>3. b.pieces[seat[i]] = IF i \in fixes THEN OneMore(fixed[i]) ELSE fixed[i]
        BY <1>3, <2>4, <2>5, <3>1, <3>2 DEF IsTicked
      <3>4. OneMore(fixed[i]) = fixed[i] + 1
        BY <3>1 DEF OneMore
      <3>5. seat[i] \in b.playing <=> seat[i] \in a.playing /\ i \notin outs
        BY <1>3, <2>4, <2>5 DEF IsTicked
      <3>6. i \in outs => player_state'[i] # "PLAY"
        BY <2>2, <3>1
      <3> QED
        BY <2>2, <3>1, <3>2, <3>3, <3>4, <3>5, <3>6
    <2> QED
      BY <1>1, <1>5, <2>2, <2>6 DEF Mirrors
  <1> QED
    BY <1>7, <1>8

\* A tick keeps the invariant.
LEMMA TickKeeps ==
  ASSUME IInv, ProcessGameTick
  PROVE  IInv'
  <1>1. ServerTyped /\ RoomOK /\ s2c \in Seq(Packet) /\ Typed /\ Tells /\ Begins
    BY Parts DEF IInv
  <1>2. room_state = "PLAY" /\ UNCHANGED <<seat, host_id, mode, c2s, client>>
    BY DEF ProcessGameTick
  <1>3. PICK w : w = ResolveWinner
    OBVIOUS
  <1>4. PICK fixes \in SUBSET Playing, outs \in SUBSET Playing :
           /\ \A i \in fixes : fixed[i] < MaxPieces
           /\ s2c' = Toward(TickPackets(fixes, outs, w))
           /\ IF w # 0 THEN TickEnds ELSE TickGoesOn(fixes, outs)
    BY <1>3 DEF ProcessGameTick, TickEnds, TickGoesOn
  <1>5. ServerTyped' /\ RoomOK' /\ Seated' = Seated /\ Occupied' = Occupied
    BY <1>1, <1>2, <1>4, RoomAfterTick
  <1>6. Aside /\ UNCHANGED client
    BY <1>2 DEF Aside, Apart, AsksReady, IInv, Typed, ChannelsTyped
  <1>7. PICK a \in Picture : Ends(a) /\ (Me \in Seated => Mirrors(a))
    BY Parts
  <1>8. CASE Me \notin Seated
    <2>1. s2c' = s2c
      BY <1>4, <1>8 DEF Toward
    <2>2. ReadyKept /\ Keeps(a)
      BY <1>5, <1>8 DEF ReadyKept, Keeps
    <2> QED
      BY <1>5, <1>6, <1>7, <2>1, <2>2, SilentStep
  <1>9. CASE Me \in Seated
    <2>1. PICK ends : ends = (IF w # 0 THEN Playing ELSE {})
      OBVIOUS
    <2>2. (w = 0 \/ w \in Occupied) /\ (Playing = {} => w # 0) /\ (w # 0 /\ Playing # {} => Playing = {w})
      BY <1>1, <1>2, <1>3, WinnerIs
    <2>3. PICK K \in Nat : \E A, q : IsTick(q, A, K, fixes, outs, ends, w) /\ q = TickPackets(fixes, outs, w)
      <3>1. SomeTick(fixes, outs, ends, w)
        BY <1>1, <2>1, <2>2, TickIs
      <3> QED
        BY <3>1 DEF SomeTick
    <2>4. PICK A, q : IsTick(q, A, K, fixes, outs, ends, w) /\ q = TickPackets(fixes, outs, w)
      BY <2>3
    <2>5. s2c' = s2c \o q /\ q \in Seq(Packet) /\ Len(q) = K
      BY <1>4, <1>9, <2>4 DEF Toward, IsTick
    <2>6. Playing \subseteq Occupied /\ ends \in SUBSET Playing /\ \A i \in Playing : i \in Nat
      BY <1>1, <2>1, PlayingIs, SeatFacts
    <2>7. \A i \in ends : \A x \in SlotsOf(fixes, outs, ends) : x <= 3 * i + 2
      <3> SUFFICES ASSUME NEW i \in ends
                   PROVE  \A x \in SlotsOf(fixes, outs, ends) : x <= 3 * i + 2
        OBVIOUS
      <3>1. Playing = {i} /\ i \in Nat
        BY <2>1, <2>2, <2>6
      <3>2. \A j \in fixes \cup outs \cup ends : j = i
        BY <2>6, <3>1
      <3> QED
        BY <3>1, <3>2 DEF SlotsOf
    <2>8. a.room /\ Mirrors(a)
      BY <1>7, <1>9 DEF Mirrors
    <2>9. PICK g : /\ Tale(g, q) /\ g[0] = a /\ g[K] = Ticked(a, SlotsOf(fixes, outs, ends))
                   /\ \A k \in 0..K : g[k].host = a.host
      BY <1>1, <2>4, <2>6, <2>7, <2>8, TickTale
    <2>10. PICK b \in Picture : b = Ticked(a, SlotsOf(fixes, outs, ends))
      BY TickedIs
    <2>11. Mirrors(b)'
      BY <1>1, <1>2, <1>3, <1>4, <2>1, <2>8, <2>10, TickMirrors
    <2>12. Tells'
      <3>1. Mirrors(g[Len(q)])'
        BY <2>5, <2>9, <2>10, <2>11
      <3>2. \A k \in 1..Len(q) : k \in 0..K
        BY <2>5
      <3>3. a.host = Me => host_id' = Me
        BY <1>2, <2>8, HostOfPicture
      <3>4. \A k \in 1..Len(q) : g[k].host = Me => host_id' = Me
        BY <2>9, <3>2, <3>3
      <3>5. host_id = Me => host_id' = Me
        BY <1>2
      <3> QED
        BY <1>1, <1>6, <1>7, <1>9, <2>5, <2>9, <3>1, <3>4, <3>5, SendTale
    <2>13. \A k \in 1..Len(q) : q[k].type \in {"FIX", "GAMEOVER", "GAMEEND"}
      BY <2>4, <2>5 DEF IsTick, IsSlot
    <2>14. Begins'
      <3>1. \A k \in 1..Len(q) : q[k].type # "ADD_ROOM" /\ q[k].type # "DELETE_USER"
        BY <2>13
      <3> QED
        BY <1>1, <1>6, <1>9, <2>5, <3>1, BeginsGoesOn
    <2>15. Marked'
      <3>1. CASE w = 0
        BY <1>2, <1>4, <3>1 DEF TickGoesOn, Marked
      <3>2. CASE w # 0 /\ Playing = {}
        BY <1>4, <3>2 DEF TickEnds, Marked
      <3>3. CASE w # 0 /\ Playing # {}
        <4>1. Playing = {w} /\ ends = {w} /\ w \in Nat
          BY <2>1, <2>2, <2>6, <3>3
        <4>2. 3 * w + 2 \in SlotsOf(fixes, outs, ends)
          BY <4>1 DEF SlotsOf
        <4>3. PICK n \in 1..K : A[n] = 3 * w + 2
          BY <2>4, <4>2 DEF IsTick
        <4>4. K \in 1..K /\ K >= 1
          BY <4>3
        <4>5. A[K] \in SlotsOf(fixes, outs, ends) /\ A[K] <= 3 * w + 2
          BY <2>4, <2>7, <4>1, <4>4 DEF IsTick
        <4>6. ~(n < K)
          <5>1. n < K => A[n] < A[K]
            BY <2>4, <4>4 DEF IsTick
          <5>2. A[K] \in Nat
            <6>1. SlotsOf(fixes, outs, ends) \in SUBSET Nat
              <7>1. fixes \in SUBSET Seats /\ outs \in SUBSET Seats /\ ends \in SUBSET Seats
                BY <1>1, <2>6, PlayingIs
              <7> QED
                BY <7>1, SlotsFinite
            <6> QED
              BY <4>5, <6>1
          <5> QED
            BY <4>1, <4>3, <4>5, <5>1, <5>2
        <4>7. n = K
          BY <4>3, <4>6
        <4>8. IsSlot(A[K], q[K], fixes, outs, ends, w)
          BY <2>4, <4>4 DEF IsTick
        <4>9. q[K].type = "GAMEEND"
          <5>1. \A i \in Nat : 3 * w + 2 # 3 * i /\ 3 * w + 2 # 3 * i + 1
            BY <4>1
          <5>2. fixes \subseteq Nat /\ outs \subseteq Nat
            BY <2>6
          <5>3. A[K] = 3 * w + 2
            BY <4>3, <4>7
          <5>4. ~\E i \in fixes : A[K] = 3 * i
            BY <5>1, <5>2, <5>3
          <5>5. ~\E i \in outs : A[K] = 3 * i + 1
            BY <5>1, <5>2, <5>3
          <5>6. \E i \in ends : A[K] = 3 * i + 2 /\ q[K] = [type |-> "GAMEEND", id |-> seat[w]]
            BY <4>8, <5>4, <5>5 DEF IsSlot
          <5> QED
            BY <5>6
        <4>10. ~MeReady'
          BY <1>4, <3>3 DEF TickEnds, MeReady
        <4> QED
          BY <1>1, <2>5, <4>4, <4>9, <4>10, MarkedLast DEF Marks
      <3> QED
        BY <3>1, <3>2, <3>3
    <2>16. s2c' \in Seq(Packet)
      BY <1>1, <2>5, Concatenated
    <2> QED
      BY <1>5, <1>6, <2>12, <2>14, <2>15, <2>16, ApartKeeps DEF Aside
  <1> QED
    BY <1>8, <1>9

----------------------------------------------------------------------------
(* The client handles the packet in front. *)

\* Packet p is the first of those under way, h tells them, and p is handled.
Handles(h, a, p) ==
  /\ h \in [0..Len(s2c) -> Picture] /\ Told(h, a) /\ a \in Picture
  /\ p \in Packet /\ s2c # <<>> /\ p = s2c[1] /\ s2c' = Tail(s2c) /\ Receive(p)
  /\ ~crashed /\ UNCHANGED <<server, c2s, unserved>>

LEMMA TailIs ==
  ASSUME NEW q \in Seq(Packet), q # <<>>
  PROVE  /\ Tail(q) \in Seq(Packet) /\ Len(q) \in Nat /\ Len(q) >= 1 /\ Len(Tail(q)) = Len(q) - 1 /\ Head(q) = q[1]
         /\ DOMAIN q = 1..Len(q) /\ DOMAIN Tail(q) = 1..(Len(q) - 1) /\ q[1] \in Packet
         /\ \A k \in 1..(Len(q) - 1) : Tail(q)[k] = q[k + 1]
  <1>1. Tail(q) \in Seq(Packet) /\ Len(q) \in Nat /\ Len(q) >= 1 /\ Len(Tail(q)) = Len(q) - 1 /\ Head(q) = q[1]
    OBVIOUS
  <1>2. DOMAIN q = 1..Len(q) /\ DOMAIN Tail(q) = 1..Len(Tail(q))
    BY <1>1
  <1>3. \A k \in 1..(Len(q) - 1) : Tail(q)[k] = q[k + 1]
    BY <1>1
  <1> QED
    BY <1>1, <1>2, <1>3

LEMMA HandlesTell ==
  ASSUME Typed, NEW h, NEW a, NEW p, Handles(h, a, p)
  PROVE  Received(h[0], p) /\ h[0] \in Picture /\ Shows(h[0]) /\ Tells' /\ s2c \in Seq(Packet)
  <1>1. s2c \in Seq(Packet) /\ ClientTyped
    BY DEF Typed, ChannelsTyped
  <1>2. PICK n \in Nat : n = Len(s2c) /\ n >= 1
    BY <1>1, TailIs DEF Handles
  <1>3. h \in [0..n -> Picture] /\ Tale(h, s2c) /\ Shows(h[0]) /\ h[n] = a /\ p \in Packet /\ p = s2c[1]
    BY <1>2 DEF Handles, Told
  <1>4. \A k \in 1..n : h[k] = After(h[k - 1], s2c[k]) /\ Fits(h[k - 1], s2c[k])
    BY <1>2, <1>3 DEF Tale
  <1>5. h[0] \in Picture /\ h[1] = After(h[0], p) /\ Fits(h[0], p)
    <2>1. 1 \in 1..n /\ 0 \in 0..n /\ 1 - 1 = 0
      BY <1>2
    <2> QED
      BY <1>3, <1>4, <2>1
  <1>6. Received(h[0], p)
    BY <1>1, <1>3, <1>5, ReceiveAny DEF Handles
  <1>7. PICK g : g = [k \in 0..(n - 1) |-> h[k + 1]]
    OBVIOUS
  <1>8. g \in [0..(n - 1) -> Picture] /\ g[0] = h[1] /\ g[n - 1] = a
    BY <1>2, <1>3, <1>7
  <1>9. s2c' \in Seq(Packet) /\ Len(s2c') = n - 1 /\ \A k \in 1..(n - 1) : s2c'[k] = s2c[k + 1]
    BY <1>1, <1>2, TailIs DEF Handles
  <1>10. Tale(g, s2c')
    <2>1. \A k \in 1..(n - 1) : g[k] = After(g[k - 1], s2c'[k]) /\ Fits(g[k - 1], s2c'[k])
      <3>1. SUFFICES ASSUME NEW k \in 1..(n - 1) PROVE g[k] = After(g[k - 1], s2c'[k]) /\ Fits(g[k - 1], s2c'[k])
        OBVIOUS
      <3>2. k + 1 \in 1..n /\ k \in 0..(n - 1) /\ k - 1 \in 0..(n - 1) /\ (k - 1) + 1 = k /\ (k + 1) - 1 = k
        BY <1>2
      <3>3. g[k] = h[k + 1] /\ g[k - 1] = h[k] /\ s2c'[k] = s2c[k + 1]
        BY <1>7, <1>9, <3>2
      <3> QED
        BY <1>4, <3>2, <3>3
    <2> QED
      BY <1>8, <1>9, <2>1 DEF Tale
  <1>11. Shows(g[0])' /\ ~crashed'
    BY <1>5, <1>6, <1>8 DEF Received
  <1>12. Me \in Seated' => Mirrors(a)' /\ \A k \in 0..(n - 1) : g[k].host = Me => host_id' = Me
    <2>1. UNCHANGED <<room_state, seat, player_state, fixed, host_id, mode, unserved>>
      BY DEF Handles, server
    <2>2. Seated' = Seated /\ Occupied' = Occupied
      BY <2>1 DEF Seated, Occupied
    <2>3. Mirrors(a) => Mirrors(a)'
      BY <2>1, <2>2 DEF Mirrors
    <2>4. Me \in Seated => Mirrors(a) /\ \A k \in 0..n : h[k].host = Me => host_id = Me
      BY <1>2 DEF Handles, Told
    <2>5. \A k \in 0..(n - 1) : k + 1 \in 0..n /\ g[k] = h[k + 1]
      BY <1>2, <1>7
    <2> QED
      BY <2>1, <2>2, <2>3, <2>4, <2>5
  <1>13. Told(g, a)'
    BY <1>8, <1>9, <1>10, <1>11, <1>12 DEF Told
  <1>14. Ends(a)'
    BY <1>8, <1>9, <1>13 DEF Ends
  <1> QED
    BY <1>1, <1>3, <1>5, <1>6, <1>11, <1>14 DEF Tells, Handles

LEMMA AfterKeepsRoom ==
  ASSUME NEW b \in Picture, NEW p \in Packet, b.room, p.type = "DELETE_USER" => p.id # Me
  PROVE  After(b, p).room
  <1>1. CASE p.type = "ADD_USER"
    BY <1>1 DEF After, Picture
  <1>2. CASE p.type = "UPDATE_HOST"
    BY <1>2 DEF After, Picture
  <1>3. CASE p.type = "DELETE_USER"
    BY <1>3 DEF After, Picture
  <1>4. CASE p.type = "FIX"
    BY <1>4 DEF After, Picture
  <1>5. CASE p.type = "GAMEOVER"
    BY <1>5 DEF After, Picture
  <1>6. CASE p.type = "MULTI_START"
    BY <1>6 DEF After, Picture
  <1>7. CASE p.type = "GAMEEND"
    BY <1>7 DEF After, Picture
  <1>8. CASE p.type \in {"ADD_ROOM", "ERROR", "INFO", "READY"}
    BY <1>8 DEF After
  <1> QED
    BY <1>1, <1>2, <1>3, <1>4, <1>5, <1>6, <1>7, <1>8, PacketKinds

LEMMA HandlesBegin ==
  ASSUME Typed, Begins, NEW h, NEW a, NEW p, Handles(h, a, p)
  PROVE  Begins'
  <1>1. s2c \in Seq(Packet) /\ s2c # <<>> /\ p = s2c[1] /\ p \in Packet
    BY DEF Handles, Typed, ChannelsTyped
  <1>2. PICK n \in Nat : n = Len(s2c) /\ n >= 1
    BY <1>1, TailIs
  <1>3. DOMAIN s2c = 1..n /\ DOMAIN s2c' = 1..(n - 1) /\ \A k \in 1..(n - 1) : s2c'[k] = s2c[k + 1]
    BY <1>1, <1>2, TailIs DEF Handles
  <1>4. \A k \in 1..(n - 1) : k + 1 \in 1..n /\ k + 1 # 1
    BY <1>2
  <1>5. \A k \in DOMAIN s2c' : s2c'[k].type # "ADD_ROOM"
    BY <1>3, <1>4 DEF Begins
  <1>6. Seated' = Seated
    BY DEF Seated, Handles, server
  <1>7. Me \in Seated => \A k \in DOMAIN s2c' : s2c'[k].type = "DELETE_USER" => s2c'[k].id # Me
    BY <1>3, <1>4 DEF Begins
  <1>8. Me \in Seated => screen' # "lobby"
    <2>1. HAVE Me \in Seated
    <2>2. h[0] \in Picture /\ Shows(h[0]) /\ Received(h[0], p)
      BY HandlesTell
    <2>3. PICK b \in Picture : b = h[0]
      BY <2>2
    <2>4. Shows(After(b, p))' /\ (b.room <=> screen = "room") /\ After(b, p) \in Picture
      BY <1>1, <2>2, <2>3, AfterPicture DEF Received, Shows
    <2>5. PICK c \in Picture : c = After(b, p)
      BY <2>4
    <2>6. c.room => screen' = "room"
      BY <2>4, <2>5 DEF Shows
    <2>7. ~b.room => p.type = "ADD_ROOM"
      <3>1. HAVE ~b.room
      <3>2. screen = "lobby"
        BY <2>4, <3>1 DEF Typed, ClientTyped
      <3> QED
        BY <1>1, <2>1, <3>2, TailIs DEF Begins
    <2>8. p.type = "DELETE_USER" => p.id # Me
      BY <1>1, <1>2, <1>3, <2>1 DEF Begins
    <2>9. ~b.room => c.room
      BY <2>5, <2>7 DEF After, Opened
    <2>10. b.room => c.room
      <3>1. HAVE b.room
      <3>2. b.room /\ c = After(b, p) /\ (p.type = "DELETE_USER" => p.id # Me)
        BY <2>5, <2>8, <3>1
      <3> QED
        BY <1>1, <3>2, AfterKeepsRoom
    <2> QED
      BY <2>6, <2>9, <2>10
  <1> QED
    BY <1>5, <1>6, <1>7, <1>8 DEF Begins

LEMMA HandlesHost ==
  ASSUME Typed, NEW h, NEW a, NEW p, Handles(h, a, p), Me \in Seated, host_id # Me
  PROVE  h[0].host # Me /\ After(h[0], p).host # Me
  <1>1. s2c \in Seq(Packet)
    BY DEF Typed, ChannelsTyped
  <1>2. PICK n \in Nat : n = Len(s2c) /\ n >= 1
    BY <1>1, TailIs DEF Handles
  <1>3. Tale(h, s2c) /\ p = s2c[1] /\ \A k \in 0..n : h[k].host # Me
    BY <1>2 DEF Handles, Told
  <1>4. 1 \in 1..n /\ 0 \in 0..n /\ 1 \in 0..n /\ 1 - 1 = 0
    BY <1>2
  <1>5. h[1] = After(h[0], p)
    BY <1>2, <1>3, <1>4 DEF Tale
  <1> QED
    BY <1>3, <1>4, <1>5

\* The mark that is shown once p, the last packet that could set it, is handled.
LEMMA HandlesMark ==
  ASSUME Typed, Begins, NEW h, NEW a, NEW p, Handles(h, a, p), Me \in Seated, host_id # Me
  PROVE  /\ Marks(p) => (players'[1].btn_ready = "down" <=> (p.type = "READY" /\ p.is_ready))
         /\ ~Marks(p) => (players'[1].btn_ready = "down" <=> players[1].btn_ready = "down")
  <1>1. h[0] \in Picture /\ Shows(h[0]) /\ Received(h[0], p) /\ s2c \in Seq(Packet)
    BY HandlesTell
  <1>2. PICK b \in Picture : b = h[0]
    BY <1>1
  <1>3. Shows(b) /\ Received(b, p) /\ b.host # Me /\ After(b, p).host # Me
    BY <1>1, <1>2, HandlesHost
  <1>4. s2c # <<>> /\ p = s2c[1] /\ p = Head(s2c) /\ p \in Packet /\ 1 \in DOMAIN s2c
    BY <1>1, TailIs DEF Handles
  <1>5. CASE ~b.room
    <2>1. screen = "lobby"
      BY <1>3, <1>5 DEF Shows, Typed, ClientTyped
    <2>2. p.type = "ADD_ROOM"
      BY <1>4, <2>1 DEF Begins
    <2>3. players'[1].btn_ready # "down"
      BY <1>3, <1>5, <2>2 DEF Received
    <2> QED
      BY <2>2, <2>3 DEF Marks
  <1>6. CASE b.room
    <2>1. screen = "room" /\ players[1].btn_ready # "none"
      BY <1>3, <1>6 DEF Shows
    <2>2. MarkStep(p)
      BY <1>3, <1>6 DEF Received
    <2>3. p.type # "ADD_ROOM" /\ (p.type = "DELETE_USER" => p.id # Me)
      BY <1>4, <2>1 DEF Begins
    <2>4. ~(p.type = "UPDATE_HOST" /\ p.id = Me)
      <3>1. SUFFICES ASSUME p.type = "UPDATE_HOST", p.id = Me PROVE FALSE
        OBVIOUS
      <3>2. After(b, p) = [b EXCEPT !.host = Me]
        BY <1>6, <3>1 DEF After
      <3>3. After(b, p).host = Me
        BY <3>2 DEF Picture
      <3> QED
        BY <1>3, <3>3
    <2> QED
      BY <2>1, <2>2, <2>3, <2>4 DEF MarkStep, Marks
  <1> QED
    BY <1>5, <1>6

LEMMA HandlesMarked ==
  ASSUME Typed, Begins, Marked, NEW h, NEW a, NEW p, Handles(h, a, p)
  PROVE  Marked'
  <1>1. s2c \in Seq(Packet) /\ s2c # <<>> /\ p = s2c[1]
    BY DEF Handles, Typed, ChannelsTyped
  <1>2. PICK n \in Nat : n = Len(s2c) /\ n >= 1
    BY <1>1, TailIs
  <1>3. DOMAIN s2c = 1..n /\ DOMAIN s2c' = 1..(n - 1) /\ \A k \in 1..(n - 1) : s2c'[k] = s2c[k + 1]
    BY <1>1, <1>2, TailIs DEF Handles
  <1>4. UNCHANGED <<room_state, seat, player_state, host_id, unserved, c2s>>
    BY DEF Handles, server
  <1>5. Seated' = Seated /\ (MeReady' <=> MeReady) /\ (AsksReady' <=> AsksReady)
    BY <1>4 DEF Seated, MeReady, AsksReady
  <1>6. SUFFICES ASSUME Me \in Seated, ~unserved, ~AsksReady, room_state = "WAIT", host_id # Me
                 PROVE  /\ Marking' = {} => (players'[1].btn_ready = "down" <=> MeReady)
                        /\ \A k \in Marking' : (\A j \in Marking' : j <= k) =>
                              ((s2c'[k].type = "READY" /\ s2c'[k].is_ready) <=> MeReady)
    BY <1>4, <1>5 DEF Marked
  <1>7. \A k \in 1..n : k \in Marking <=> Marks(s2c[k])
    BY <1>3 DEF Marking
  <1>8. \A k \in 1..(n - 1) : k \in Marking' <=> Marks(s2c[k + 1])
    <2>1. Marking' = {k \in DOMAIN s2c' : Marks(s2c'[k])}
      BY DEF Marking, Marks
    <2> QED
      BY <1>3, <2>1
  <1>9. Marking \subseteq 1..n /\ Marking' \subseteq 1..(n - 1)
    BY <1>3 DEF Marking
  <1>10. \A k \in 1..(n - 1) : k + 1 \in 1..n /\ (k \in Marking' <=> k + 1 \in Marking)
    BY <1>2, <1>7, <1>8
  <1>11. \A k \in 1..n : k = 1 \/ (k - 1 \in 1..(n - 1) /\ (k - 1) + 1 = k)
    BY <1>2
  <1>12. Marking' = {} => (players'[1].btn_ready = "down" <=> MeReady)
    <2>1. HAVE Marking' = {}
    <2>2. Marking \subseteq {1} /\ 1 \in 1..n
      BY <1>2, <1>9, <1>10, <1>11, <2>1
    <2>3. CASE Marks(p)
      <3>1. 1 \in Marking /\ \A j \in Marking : j <= 1
        BY <1>1, <1>7, <2>2, <2>3
      <3>2. (p.type = "READY" /\ p.is_ready) <=> MeReady
        BY <1>1, <1>6, <3>1 DEF Marked
      <3> QED
        BY <1>6, <2>3, <3>2, HandlesMark
    <2>4. CASE ~Marks(p)
      <3>1. Marking = {}
        BY <1>1, <1>7, <2>2, <2>4
      <3>2. players[1].btn_ready = "down" <=> MeReady
        BY <1>6, <3>1 DEF Marked
      <3> QED
        BY <1>6, <2>4, <3>2, HandlesMark
    <2> QED
      BY <2>3, <2>4
  <1>13. ASSUME NEW k \in Marking', \A j \in Marking' : j <= k
         PROVE  (s2c'[k].type = "READY" /\ s2c'[k].is_ready) <=> MeReady
    <2>1. k \in 1..(n - 1) /\ k + 1 \in Marking /\ s2c'[k] = s2c[k + 1]
      BY <1>3, <1>9, <1>10, <1>13
    <2>2. \A j \in Marking : j <= k + 1
      <3>1. TAKE j \in Marking
      <3>2. CASE j = 1
        BY <2>1, <3>2
      <3>3. CASE j # 1
        <4>1. j \in 1..n /\ j - 1 \in 1..(n - 1) /\ (j - 1) + 1 = j
          BY <1>9, <1>11, <3>3
        <4>2. j - 1 \in Marking'
          BY <1>10, <3>1, <4>1
        <4>3. j - 1 <= k
          BY <1>13, <4>2
        <4> QED
          BY <1>2, <2>1, <4>1, <4>3
      <3> QED
        BY <3>2, <3>3
    <2> QED
      BY <1>6, <2>1, <2>2 DEF Marked
  <1> QED
    BY <1>12, <1>13

LEMMA HandlePacketKeeps ==
  ASSUME IInv, HandlePacket
  PROVE  IInv'
  <1>1. Typed /\ Begins /\ Marked /\ ServerTyped /\ RoomOK /\ s2c \in Seq(Packet) /\ NeverStuck
    BY Parts DEF IInv
  <1>2. PICK a \in Picture : Ends(a)
    BY Parts
  <1>3. PICK h \in [0..Len(s2c) -> Picture] : Told(h, a)
    BY <1>2 DEF Ends
  <1>4. PICK p \in Packet : p = Head(s2c) /\ p = s2c[1] /\ s2c # <<>>
    BY <1>1, TailIs DEF HandlePacket
  <1>5. Handles(h, a, p)
    BY <1>3, <1>4 DEF HandlePacket, Handles, Receive
  <1>6. Received(h[0], p) /\ Tells' /\ Begins' /\ Marked'
    BY <1>1, <1>5, HandlesTell, HandlesBegin, HandlesMarked
  <1>7. ClientTyped' /\ NeverStuck'
    BY <1>1, <1>6 DEF Received
  <1>8. UNCHANGED <<room_state, seat, player_state, fixed, host_id, mode, unserved>>
    BY DEF HandlePacket, server
  <1>9. ServerTyped' /\ RoomOK'
    <2>1. Seated' = Seated /\ Occupied' = Occupied
      BY <1>8 DEF Seated, Occupied
    <2> QED
      BY <1>1, <1>8, <2>1 DEF ServerTyped, RoomOK
  <1>10. ChannelsTyped'
    BY <1>1, TailIs DEF HandlePacket, Typed, ChannelsTyped
  <1> QED
    BY <1>6, <1>7, <1>9, <1>10 DEF IInv, Typed

----------------------------------------------------------------------------
(* The buttons of the client. *)

LEMMA ButtonKeeps ==
  ASSUME IInv, UNCHANGED <<server, s2c, screen, host_index, crashed, unserved>>,
         players' \in [Seats -> Session], players' = players \/ SeatsKeep,
         \A i \in Seats : players'[i].fixed = players[i].fixed /\ players'[i].state = players[i].state,
         popups' \subseteq {"error", "winner"}, reactable' \in BOOLEAN, reactable' \/ popups' # {} \/ UNCHANGED <<popups, reactable>>,
         c2s' \in Seq(Request), Len(c2s') <= MaxRequests, AsksReady => AsksReady', AsksReady' \/ players' = players
  PROVE  IInv'
  <1>1. ServerTyped /\ RoomOK /\ ClientTyped /\ Begins /\ Marked /\ NeverStuck /\ s2c \in Seq(Packet) /\ ~crashed
    BY Parts DEF IInv
  <1>2. UNCHANGED <<room_state, seat, player_state, fixed, host_id, mode, unserved>>
    BY DEF server
  <1>3. Seated' = Seated /\ Occupied' = Occupied /\ (MeReady' <=> MeReady)
    BY <1>2 DEF Seated, Occupied, MeReady
  <1>4. ServerTyped' /\ RoomOK'
    BY <1>1, <1>2, <1>3 DEF ServerTyped, RoomOK
  <1>5. ClientTyped' /\ ChannelsTyped'
    BY <1>1 DEF ClientTyped, ChannelsTyped
  <1>6. NeverStuck'
    BY <1>1 DEF NeverStuck
  <1>7. Begins'
    BY <1>1, <1>3 DEF Begins
  <1>8. Marked'
    <2>1. Marking' = Marking
      BY DEF Marking, Marks
    <2> QED
      BY <1>1, <1>2, <1>3, <2>1 DEF Marked
  <1>9. Tells'
    <2>1. PICK a \in Picture : Ends(a)
      BY Parts
    <2>2. PICK h \in [0..Len(s2c) -> Picture] : Told(h, a)
      BY <2>1 DEF Ends
    <2>3. PICK b \in Picture : b = h[0]
      <3>1. Len(s2c) \in Nat
        BY <1>1
      <3> QED
        BY <3>1
    <2>4. Shows(b)
      BY <2>2, <2>3 DEF Told
    <2>5. Shows(b)'
      <3>1. CASE players' = players
        BY <2>4, <3>1 DEF Shows, BoardShown
      <3>2. CASE SeatsKeep
        <4>1. b.room => \A i \in Seats : players[i].id # None =>
                 players'[i].fixed = b.pieces[players[i].id] /\ (players'[i].state = "PLAY" <=> players[i].id \in b.playing)
          BY <2>4 DEF Shows, BoardShown
        <4> QED
          BY <1>1, <2>4, <3>2, <4>1, ShowsSame
      <3> QED
        BY <3>1, <3>2
    <2>6. Shows(h[0])'
      BY <2>3, <2>5
    <2>7. Mirrors(a) => Mirrors(a)'
      BY <1>2, <1>3 DEF Mirrors
    <2>8. Tale(h, s2c)'
      BY <2>2 DEF Told, Tale
    <2>9. Told(h, a)'
      BY <1>2, <1>3, <2>2, <2>6, <2>7, <2>8 DEF Told
    <2>10. Ends(a)'
      BY <2>2, <2>9 DEF Ends
    <2> QED
      BY <1>1, <2>10 DEF Tells
  <1> QED
    BY <1>4, <1>5, <1>6, <1>7, <1>8, <1>9 DEF IInv, Typed

LEMMA Asked ==
  ASSUME IInv, NEW r \in Request, Ask(r)
  PROVE  c2s' \in Seq(Request) /\ Len(c2s') <= MaxRequests /\ (AsksReady => AsksReady') /\ (r.type = "READY" => AsksReady')
  <1>1. c2s \in Seq(Request) /\ c2s' = Append(c2s, r) /\ Len(c2s) < MaxRequests /\ MaxRequests \in Nat
    BY Parts, PeopleFacts DEF Ask
  <1>2. Len(c2s) \in Nat /\ c2s' \in Seq(Request) /\ Len(c2s') = Len(c2s) + 1 /\ DOMAIN c2s = 1..Len(c2s)
        /\ DOMAIN c2s' = 1..(Len(c2s) + 1) /\ c2s'[Len(c2s) + 1] = r /\ \A k \in 1..Len(c2s) : c2s'[k] = c2s[k]
    BY <1>1
  <1>3. AsksReady => AsksReady'
    <2>1. \A k \in 1..Len(c2s) : k \in 1..(Len(c2s) + 1)
      BY <1>2
    <2> QED
      BY <1>2, <2>1 DEF AsksReady
  <1>4. r.type = "READY" => AsksReady'
    <2>1. Len(c2s) + 1 \in 1..(Len(c2s) + 1)
      BY <1>2
    <2> QED
      BY <1>2, <2>1 DEF AsksReady
  <1> QED
    BY <1>1, <1>2, <1>3, <1>4

LEMMA ConfirmPopupKeeps ==
  ASSUME IInv, ConfirmPopup
  PROVE  IInv'
  <1>1. UNCHANGED <<server, s2c, c2s, screen, players, host_index, crashed, unserved>> /\ reactable' = TRUE
        /\ popups' \subseteq popups
    BY DEF ConfirmPopup
  <1>2. players \in [Seats -> Session] /\ popups \subseteq {"error", "winner"} /\ c2s \in Seq(Request) /\ Len(c2s) <= MaxRequests
    BY Parts DEF ClientTyped, Typed, ChannelsTyped
  <1>3. AsksReady' <=> AsksReady
    BY <1>1 DEF AsksReady
  <1> QED
    BY <1>1, <1>2, <1>3, ButtonKeeps

LEMMA PressReadyKeeps ==
  ASSUME IInv, PressReady
  PROVE  IInv'
  <1>1. PICK r \in Request : r = [type |-> "READY"]
    BY DEF Request
  <1>2. Ask(r) /\ r.type = "READY" /\ players[1].btn_ready # "none" /\ players' = [players EXCEPT ![1].btn_ready = "down"]
        /\ UNCHANGED <<server, s2c, screen, host_index, popups, reactable, crashed, unserved>>
    BY <1>1 DEF PressReady
  <1>3. players \in [Seats -> Session] /\ popups \subseteq {"error", "winner"} /\ reactable \in BOOLEAN /\ 1 \in Seats
    BY Parts, SeatFacts DEF ClientTyped
  <1> DEFINE f(s) == [s EXCEPT !.btn_ready = "down"]
  <1>4. \A s \in Session : /\ f(s) \in Session /\ f(s).id = s.id /\ f(s).is_host = s.is_host
                           /\ f(s).btn_start = s.btn_start /\ f(s).btn_kick = s.btn_kick /\ f(s).btn_ready = "down"
                           /\ f(s).fixed = s.fixed /\ f(s).state = s.state
    BY DEF Session
  <1>5. \A i \in Seats : players'[i] = IF i = 1 THEN f(players[1]) ELSE players[i]
    BY <1>2, <1>3
  <1>6. players' \in [Seats -> Session]
    <2>1. players' = [i \in Seats |-> IF i = 1 THEN f(players[1]) ELSE players[i]]
      BY <1>2, <1>3
    <2> HIDE DEF f
    <2> QED
      BY <1>3, <1>4, <2>1
  <1> HIDE DEF f
  <1>7. SeatsKeep
    BY <1>2, <1>3, <1>4, <1>5, <1>6 DEF SeatsKeep
  <1>8. \A i \in Seats : players'[i].fixed = players[i].fixed /\ players'[i].state = players[i].state
    BY <1>3, <1>4, <1>5
  <1>9. c2s' \in Seq(Request) /\ Len(c2s') <= MaxRequests /\ AsksReady'
    BY <1>2, Asked
  <1> QED
    BY <1>2, <1>3, <1>6, <1>7, <1>8, <1>9, ButtonKeeps

LEMMA AskKeeps ==
  ASSUME IInv, NEW r \in Request, Ask(r), UNCHANGED <<server, s2c, client, unserved>>
  PROVE  IInv'
  <1>1. UNCHANGED <<server, s2c, screen, players, host_index, popups, reactable, crashed, unserved>>
    BY DEF client
  <1>2. players \in [Seats -> Session] /\ popups \subseteq {"error", "winner"} /\ reactable \in BOOLEAN
    BY Parts DEF ClientTyped
  <1>3. c2s' \in Seq(Request) /\ Len(c2s') <= MaxRequests /\ (AsksReady => AsksReady')
    BY Asked
  <1> QED
    BY <1>1, <1>2, <1>3, ButtonKeeps

LEMMA PressKeeps ==
  ASSUME IInv, PressStart \/ PressKick \/ PressExit
  PROVE  IInv'
  <1>1. CASE PressStart
    <2>1. PICK r \in Request : r = [type |-> "START"]
      BY DEF Request
    <2> QED
      BY <1>1, <2>1, AskKeeps DEF PressStart
  <1>2. CASE PressExit
    <2>1. PICK r \in Request : r = [type |-> "REMOVE_PLAYER"]
      BY DEF Request
    <2> QED
      BY <1>2, <2>1, AskKeeps DEF PressExit
  <1>3. CASE PressKick
    <2>1. PICK i \in Seats : players[i].id # None /\ Ask([type |-> "KICK", id |-> players[i].id])
      BY <1>3 DEF PressKick
    <2>2. players[i] \in Session
      BY Parts DEF ClientTyped
    <2>3. players[i].id \in People
      BY <2>1, <2>2 DEF Session
    <2>4. PICK t \in People : t = players[i].id
      BY <2>3
    <2>5. PICK r \in Request : r = [type |-> "KICK", id |-> t]
      BY DEF Request
    <2> QED
      BY <1>3, <2>1, <2>4, <2>5, AskKeeps DEF PressKick
  <1> QED
    BY <1>1, <1>2, <1>3

----------------------------------------------------------------------------
(* The invariant holds, and what it says of the picture. *)

LEMMA IInvInit ==
  ASSUME Init
  PROVE  IInv
  <1>1. Seated = {} /\ Occupied = {}
    BY DEF Init, Seated, Occupied
  <1>2. Typed
    <2>1. 0 \in 0..MaxPieces /\ MaxRequests \in Nat
      BY PeopleFacts
    <2>2. ServerTyped
      BY <2>1 DEF Init, ServerTyped
    <2>3. s2c \in Seq(Packet) /\ c2s \in Seq(Request) /\ Len(c2s) = 0
      BY DEF Init
    <2>4. ChannelsTyped
      BY <2>1, <2>3 DEF ChannelsTyped
    <2>5. ClientTyped
      BY EmptySession DEF Init, ClientTyped
    <2> QED
      BY <2>2, <2>4, <2>5 DEF Typed
  <1>3. RoomOK /\ NeverStuck
    BY <1>1 DEF Init, RoomOK, NeverStuck
  <1>4. Tells
    <2>1. PICK a \in Picture : a = Lobby
      <3>1. NoPieces \in [People -> 0..(MaxPieces + 1)]
        BY PeopleFacts DEF NoPieces
      <3>2. Lobby \in Picture
        BY <3>1 DEF Lobby, Picture
      <3> QED
        BY <3>2
    <2>2. PICK h : h = [k \in 0..0 |-> a]
      OBVIOUS
    <2>3. Len(s2c) = 0 /\ h \in [0..0 -> Picture] /\ h[0] = a /\ ~crashed
      BY <2>1, <2>2 DEF Init
    <2>4. Tale(h, s2c)
      BY <2>3 DEF Tale
    <2>5. Shows(a)
      BY <2>1 DEF Shows, Lobby, Init
    <2>6. Told(h, a)
      BY <1>1, <2>3, <2>4, <2>5 DEF Told
    <2>7. Ends(a)
      BY <2>3, <2>6 DEF Ends
    <2> QED
      BY <2>1, <2>3, <2>7 DEF Tells
  <1>5. Begins /\ Marked
    <2>1. DOMAIN s2c = {}
      BY DEF Init
    <2> QED
      BY <1>1, <2>1 DEF Begins, Marked
  <1> QED
    BY <1>2, <1>3, <1>4, <1>5 DEF IInv

LEMMA StutterKeeps ==
  ASSUME IInv, UNCHANGED vars
  PROVE  IInv'
  <1>1. UNCHANGED <<server, s2c, unserved>> /\ UNCHANGED client /\ c2s' = c2s
    BY DEF vars
  <1>2. UNCHANGED <<server, s2c, screen, players, host_index, popups, reactable, crashed, unserved>>
    BY <1>1 DEF client
  <1>3. players \in [Seats -> Session] /\ popups \subseteq {"error", "winner"} /\ reactable \in BOOLEAN
        /\ c2s \in Seq(Request) /\ Len(c2s) <= MaxRequests
    BY Parts DEF ClientTyped, Typed, ChannelsTyped
  <1>4. AsksReady' <=> AsksReady
    BY <1>1 DEF AsksReady
  <1> QED
    BY <1>1, <1>2, <1>3, <1>4, ButtonKeeps

LEMMA IInvNext ==
  ASSUME IInv, [Next]_vars
  PROVE  IInv'
  <1>1. CASE UNCHANGED vars
    BY <1>1, StutterKeeps
  <1>2. CASE \E p \in People : CreateRoom(p)
    BY <1>2, CreateRoomKeeps
  <1>3. CASE \E p \in People : AddPlayer(p)
    <2>1. PICK p \in People : AddPlayer(p)
      BY <1>3
    <2>2. CASE p = Me
      BY <2>1, <2>2, JoinMeKeeps
    <2>3. CASE p # Me
      BY <2>1, <2>3, JoinOtherKeeps DEF People
    <2> QED
      BY <2>2, <2>3
  <1>4. CASE \E p \in Others : OtherLeaves(p) \/ OtherReady(p) \/ OtherStarts(p)
    <2>1. PICK p \in Others : OtherLeaves(p) \/ OtherReady(p) \/ OtherStarts(p)
      BY <1>4
    <2>2. Me \in People
      BY PeopleFacts
    <2> QED
      BY <2>1, <2>2, OthersKeep
  <1>5. CASE \E p \in Others, t \in People : OtherKicks(p, t)
    BY <1>5, OthersKeep
  <1>6. CASE EnterLobby
    BY <1>6, EnterLobbyKeeps
  <1>7. CASE ProcessGameTick
    BY <1>7, TickKeeps
  <1>8. CASE HandleRequest
    BY <1>8, HandleRequestKeeps
  <1>9. CASE HandlePacket
    BY <1>9, HandlePacketKeeps
  <1>10. CASE ConfirmPopup
    BY <1>10, ConfirmPopupKeeps
  <1>11. CASE PressReady
    BY <1>11, PressReadyKeeps
  <1>12. CASE PressStart \/ PressKick \/ PressExit
    BY <1>12, PressKeeps
  <1> QED
    BY <1>1, <1>2, <1>3, <1>4, <1>5, <1>6, <1>7, <1>8, <1>9, <1>10, <1>11, <1>12 DEF Next

LEMMA TypedIs ==
  ASSUME IInv
  PROVE  TypeOK
  <1>1. ServerTyped /\ ClientTyped /\ Len(c2s) <= MaxRequests
    BY Parts DEF IInv, Typed, ChannelsTyped
  <1>2. \A i \in Seats : /\ players[i].id \in People \cup {None} /\ players[i].fixed \in 0..(MaxPieces + 1)
                         /\ players[i].btn_ready \in {"none", "up", "down"}
                         /\ players[i].state \in {"EMPTY", "WAIT", "PLAY", "GAMEOVER"}
    <2>1. \A i \in Seats : players[i] \in Session
      BY <1>1 DEF ClientTyped
    <2> QED
      BY <2>1 DEF Session
  <1> QED
    BY <1>1, <1>2 DEF TypeOK, ServerTyped, ClientTyped

\* A client that has handled everything shows the picture of the room.
LEMMA SettledShows ==
  ASSUME IInv, Settled
  PROVE  \E a \in Picture : Shows(a) /\ Mirrors(a)
  <1>1. PICK a \in Picture : Ends(a)
    BY Parts
  <1>2. PICK h \in [0..Len(s2c) -> Picture] : Told(h, a)
    BY <1>1 DEF Ends
  <1>3. Len(s2c) = 0 /\ Me \in Seated
    BY DEF Settled
  <1>4. Shows(h[0]) /\ h[0] = a /\ Mirrors(a)
    BY <1>2, <1>3 DEF Told
  <1>5. PICK b \in Picture : b = h[0]
    BY <1>4
  <1> QED
    BY <1>4, <1>5

LEMMA SeatsAgree ==
  ASSUME IInv
  PROVE  SeatsMirror
  <1>1. SUFFICES ASSUME Settled
                 PROVE  /\ screen = "room" /\ {players[i].id : i \in Seats} \ {None} = Seated
                        /\ \A i, j \in Seats : players[i].id = players[j].id => i = j \/ players[i].id = None
    BY DEF SeatsMirror
  <1>2. PICK a \in Picture : Shows(a) /\ Mirrors(a)
    BY <1>1, SettledShows
  <1> QED
    BY <1>2 DEF Shows, Mirrors

LEMMA HostAgrees ==
  ASSUME IInv
  PROVE  HostMirror
  <1>1. SUFFICES ASSUME Settled
                 PROVE  /\ \A i \in Seats : players[i].is_host => players[i].id = host_id
                        /\ host_id = Me \/ \E i \in Seats : players[i].is_host
                        /\ players[1].is_host <=> players[1].btn_start
                        /\ \A i \in Seats \ {1} : players[i].id # None => (players[i].btn_kick <=> players[1].is_host)
    BY DEF HostMirror
  <1>2. PICK a \in Picture : Shows(a) /\ Mirrors(a)
    BY <1>1, SettledShows
  <1>3. RoomOK /\ ClientTyped /\ a.room /\ a.ids = Seated /\ (a.host = host_id \/ (a.host = None /\ host_id = Me))
    BY <1>2, Parts DEF Mirrors
  <1>4. \A i \in Seats : players[i].is_host <=> (players[i].id = a.host /\ a.host # None)
    BY <1>2, <1>3 DEF Shows
  <1>5. 1 \in Seats /\ players[1].id = Me /\ Me # None /\ \A q \in a.ids : \E i \in Seats : players[i].id = q
    BY <1>2, <1>3, OwnSeat
  <1>6. host_id \in Seated /\ host_id # None
    <2>1. Seated # {}
      BY <1>1 DEF Settled
    <2>2. Occupied # {}
      BY <2>1 DEF Seated, Occupied
    <2>3. room_state # "EMPTY"
      BY <1>3, <2>2 DEF RoomOK
    <2> QED
      BY <1>3, <2>3 DEF RoomOK, Seated
  <1>7. \A i \in Seats : players[i].is_host => players[i].id = host_id
    BY <1>3, <1>4
  <1>8. host_id = Me \/ \E i \in Seats : players[i].is_host
    <2>1. CASE host_id # Me
      <3>1. a.host = host_id /\ host_id \in a.ids
        BY <1>3, <1>6, <2>1
      <3> QED
        BY <1>4, <1>5, <1>6, <3>1
    <2> QED
      BY <2>1
  <1>9. players[1].is_host <=> a.host = Me
    BY <1>4, <1>5
  <1>10. players[1].btn_start <=> a.host = Me
    BY <1>2, <1>3 DEF Shows
  <1>11. \A i \in Seats \ {1} : players[i].id # None => (players[i].btn_kick <=> a.host = Me)
    BY <1>2, <1>3 DEF Shows
  <1> QED
    BY <1>7, <1>8, <1>9, <1>10, <1>11

LEMMA ReadyAgrees ==
  ASSUME IInv
  PROVE  ReadyMirror
  <1>1. SUFFICES ASSUME Settled, ~unserved, c2s = <<>>, room_state = "WAIT", host_id # Me
                 PROVE  players[1].btn_ready = "down" <=> player_state[SeatOf(Me)] = "READY"
    BY DEF ReadyMirror
  <1>2. DOMAIN s2c = {} /\ DOMAIN c2s = {} /\ Me \in Seated
    BY <1>1 DEF Settled
  <1>3. Marking = {} /\ ~AsksReady
    BY <1>2 DEF Marking, AsksReady
  <1>4. players[1].btn_ready = "down" <=> MeReady
    BY <1>1, <1>2, <1>3 DEF IInv, Marked
  <1>5. PICK i \in Seats : i = SeatOf(Me) /\ seat[i] = Me
    BY <1>2, SeatOfIs
  <1>6. MeReady <=> player_state[i] = "READY"
    BY <1>5, Parts, MeReadyIs
  <1> QED
    BY <1>4, <1>5, <1>6

LEMMA BoardsAgree ==
  ASSUME IInv
  PROVE  BoardsMirror
  <1>1. SUFFICES ASSUME Settled, room_state = "PLAY", ~unserved, NEW i \in Seats, players[i].id # None
                 PROVE  /\ players[i].fixed = fixed[SeatOf(players[i].id)]
                        /\ (players[i].state = "PLAY") <=> (player_state[SeatOf(players[i].id)] = "PLAY")
    BY DEF BoardsMirror
  <1>2. PICK a \in Picture : Shows(a) /\ Mirrors(a)
    BY <1>1, SettledShows
  <1>3. a.room /\ a.ids = Seated /\ ClientTyped
    BY <1>2, Parts DEF Mirrors
  <1>4. PICK q \in Seated : q = players[i].id
    BY <1>1, <1>2, <1>3, OwnSeat
  <1>5. PICK j \in Seats : j = SeatOf(q) /\ seat[j] = q /\ j \in Occupied
    BY SeatOfIs
  <1>6. a.pieces[seat[j]] = fixed[j] /\ (seat[j] \in a.playing <=> player_state[j] = "PLAY")
    BY <1>1, <1>2, <1>5 DEF Mirrors
  <1>7. players[i].fixed = a.pieces[players[i].id] /\ (players[i].state = "PLAY" <=> players[i].id \in a.playing)
    BY <1>1, <1>2, <1>3 DEF Shows, BoardShown
  <1>8. players[i].fixed = fixed[j] /\ (players[i].state = "PLAY" <=> player_state[j] = "PLAY")
    BY <1>4, <1>5, <1>6, <1>7
  <1> QED
    BY <1>4, <1>5, <1>8

THEOREM Inductive == Spec => []IInv
  <1>1. Init => IInv
    BY IInvInit
  <1>2. IInv /\ [Next]_vars => IInv'
    BY IInvNext
  <1> QED
    BY <1>1, <1>2, PTL DEF Spec

\* Whatever joins, removals, ready marks and games come in whatever order, a client of
\* multi_play_state.py that has handled its packets seats the players of the room, each
\* once, shows its host with the buttons of a host, and its own ready mark is the one
\* that MultiRoom.cpp counts.
THEOREM RoomIsMirrored == Spec => []RoomMirror
  <1>1. IInv => RoomMirror
    BY TypedIs, SeatsAgree, HostAgrees, ReadyAgrees DEF RoomMirror
  <1> QED
    BY <1>1, Inductive, PTL

\* handle_packet of the room screen never reads the session of an empty seat: the host
\* that S2C_UPDATE_HOST names has always been seated by an earlier packet, and a popup
\* that holds the events is one that the player can confirm.
THEOREM ClientStaysAlive == Spec => []ClientAlive
  <1>1. IInv => ClientAlive
    BY DEF IInv, Tells, ClientAlive, NoCrash
  <1> QED
    BY <1>1, Inductive, PTL

\* The boards and the players of a running game that the client shows are the room's:
\* MULTI_START, FIX, GAMEOVER and GAMEEND leave them equal for any number of players and
\* pieces, once they are all handled.
THEOREM BoardsAreMirrored == Spec => []BoardsMirror
  <1>1. IInv => BoardsMirror
    BY BoardsAgree
  <1> QED
    BY <1>1, Inductive, PTL
=============================================================================
