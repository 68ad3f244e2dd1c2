--------------------------- MODULE ClientIOProofs ---------------------------
(***************************************************************************)
(* What the client takes in: its keyboard (Controller) and its connection  *)
(* (PacketStream).  For every set of arrow keys, delays and frame lengths, *)
(* moves come from keys; for every traffic of the protocol, fragmentation  *)
(* and queue, packets reach the screens whole, once and in order.          *)
(***************************************************************************)
EXTENDS Controller, PacketStream, FiniteSetTheorems, SequenceTheorems, TLAPS

----------------------------------------------------------------------------
(* The keyboard. *)

\* The flags of a key that is up are cleared, unless its release was missed,
\* and a fresh key has its first move ahead.
KeysTracked ==
  /\ pressed \subseteq held \cup missed /\ first_move \subseteq held \cup missed
  /\ first_over \subseteq first_move
  /\ fresh \subseteq pressed \cap Keys /\ (fresh \ missed) \cap first_move = {}
  /\ ~playing => fresh = {}

\* Initially no flag is set.
LEMMA KeysTrackedInit == Init => KeysTracked
  BY DEF Init, KeysTracked, playing

\* Every step keeps the flags and the keyboard together.
LEMMA KeysTrackedStep ==
  ASSUME KeysTracked, [Next]_vars
  PROVE  KeysTracked'
  <1> USE DEF KeysTracked, playing
  <1>1. CASE GameStarts
    BY <1>1 DEF GameStarts, flags, seen
  <1>2. CASE GameEnds
    BY <1>2 DEF GameEnds, flags
  <1>3. ASSUME NEW k \in Keys, KeyDown(k)
        PROVE  KeysTracked'
    <2>1. CASE playing
      <3>1. k \in first_move => k \in missed
        BY <1>3, <2>1 DEF KeyDown
      <3> QED
        BY <1>3, <2>1, <3>1 DEF KeyDown
    <2>2. CASE ~playing
      BY <1>3, <2>2 DEF KeyDown
    <2> QED
      BY <2>1, <2>2
  <1>4. ASSUME NEW k \in Keys, KeyUp(k)
        PROVE  KeysTracked'
    <2>1. CASE playing
      BY <1>4, <2>1 DEF KeyUp
    <2>2. CASE ~playing
      BY <1>4, <2>2 DEF KeyUp, flags
    <2> QED
      BY <2>1, <2>2
  <1>5. ASSUME NEW dt \in Steps, Frame(dt)
        PROVE  KeysTracked'
    <2>1. {k \in Arrows : FirstDue(k, dt)} \subseteq pressed /\ {k \in Arrows : DelayOver(k, dt)} \subseteq pressed
      BY DEF FirstDue, DelayOver
    <2>2. {k \in Arrows : DelayOver(k, dt)} \subseteq first_move \cup {k \in Arrows : FirstDue(k, dt)}
      BY DEF FirstDue, DelayOver
    <2> QED
      BY <1>5, <2>1, <2>2 DEF Frame
  <1>6. CASE UNCHANGED vars
    BY <1>6 DEF vars, flags, seen
  <1> QED
    BY <1>1, <1>2, <1>3, <1>4, <1>5, <1>6 DEF Next, PressKey, ReleaseKey, NextFrame

\* No flag is set for a key that is up, unless the key went up between two games:
\* else the controller never moves a block by itself (TetrisController.handle_event).
THEOREM MovesComeFromKeys ==
  Spec => []PressedIsHeld
  <1>1. KeysTracked => PressedIsHeld
    BY DEF KeysTracked, PressedIsHeld
  <1>2. Init => KeysTracked
    BY KeysTrackedInit
  <1>3. KeysTracked /\ [Next]_vars => KeysTracked'
    BY KeysTrackedStep
  <1> QED
    BY <1>1, <1>2, <1>3, PTL DEF Spec

\* Every key that is down at the first frame after its press moves in that frame,
\* unless an earlier release was missed (TetrisController.send_move_handler).
THEOREM EveryPressMoves ==
  Spec => FreshKeyMoves
  <1>1. KeysTracked /\ [Next]_vars => [NextFrame => fresh \ missed \subseteq moves']_vars
    <2> SUFFICES ASSUME KeysTracked, NEW dt \in Steps, Frame(dt)
                 PROVE  fresh \ missed \subseteq moves'
      BY DEF NextFrame
    <2>1. ASSUME NEW k \in fresh \ missed PROVE k \in moves'
      <3>1. k \in pressed /\ k \in Keys /\ k \notin first_move /\ k \notin first_over
        BY <2>1 DEF KeysTracked
      <3>2. CASE k \in Arrows
        BY <3>1, <3>2 DEF Frame, FirstDue
      <3>3. CASE k \in {"ROTATE", "DROP"}
        BY <3>1, <3>3 DEF Frame
      <3> QED
        BY <3>1, <3>2, <3>3 DEF Keys
    <2> QED
      BY <2>1
  <1>2. Init => KeysTracked
    BY KeysTrackedInit
  <1>3. KeysTracked /\ [Next]_vars => KeysTracked'
    BY KeysTrackedStep
  <1> QED
    BY <1>1, <1>2, <1>3, PTL DEF Spec, FreshKeyMoves

\* The flags, the history of the keyboard and the timers, which never reach the
\* first delay, keep their types (TetrisController.update, send_move_handler).
THEOREM ControllerTypes ==
  Spec => []TypeOK
  <1> USE ControllerAssumption
  <1>1. Init => TypeOK
    BY DEF Init, TypeOK, Keys
  <1>2. TypeOK /\ [Next]_vars => TypeOK'
    <2> SUFFICES ASSUME TypeOK, [Next]_vars
                 PROVE  TypeOK'
      OBVIOUS
    <2>1. CASE GameStarts
      BY <2>1 DEF GameStarts, flags, seen, TypeOK
    <2>2. CASE GameEnds
      BY <2>2 DEF GameEnds, flags, TypeOK
    <2>3. ASSUME NEW k \in Keys, KeyDown(k)
          PROVE  TypeOK'
      BY <2>3 DEF KeyDown, TypeOK
    <2>4. ASSUME NEW k \in Keys, KeyUp(k)
          PROVE  TypeOK'
      <3>1. CASE playing
        <4>1. elapsed' \in [Arrows -> 0..(First - 1)]
          BY <2>4, <3>1 DEF KeyUp, TypeOK
        <4> QED
          BY <2>4, <3>1, <4>1 DEF KeyUp, TypeOK
      <3>2. CASE ~playing
        BY <2>4, <3>2 DEF KeyUp, flags, TypeOK
      <3> QED
        BY <3>1, <3>2
    <2>5. ASSUME NEW dt \in Steps, Frame(dt)
          PROVE  TypeOK'
      <3>1. elapsed' \in [Arrows -> 0..(First - 1)]
        <4>1. ASSUME NEW k \in Arrows
              PROVE  (IF DelayOver(k, dt) THEN 0 ELSE Timer(k, dt)) \in 0..(First - 1)
          BY <4>1 DEF TypeOK, DelayOver, Timer
        <4> QED
          BY <2>5, <4>1 DEF Frame
      <3>2. since' \in [Arrows -> 0..First] /\ repeats' \in [Arrows -> 0..2]
        BY <2>5 DEF Frame, TypeOK
      <3>3. /\ pressed' \subseteq Keys /\ moves' \subseteq Keys
            /\ first_move' \subseteq Arrows /\ first_over' \subseteq Arrows
        BY <2>5 DEF Frame, TypeOK, Keys
      <3> QED
        BY <2>5, <3>1, <3>2, <3>3 DEF Frame, TypeOK
    <2>6. CASE UNCHANGED vars
      BY <2>6 DEF vars, flags, seen, TypeOK
    <2> QED
      BY <2>1, <2>2, <2>3, <2>4, <2>5, <2>6 DEF Next, PressKey, ReleaseKey, NextFrame
  <1> QED
    BY <1>1, <1>2, PTL DEF Spec

----------------------------------------------------------------------------
(* The distance of repeats. *)

\* How an arrow's timer, and the moves since its press, go with the time since it was last sent.
\* The timer runs from the frame before the first move, so that it is at most one frame ahead.
TimerTracked(k) ==
  /\ k \notin first_move => elapsed[k] = 0
  /\ k \in pressed \ (first_move \cup missed) => repeats[k] = 0
  /\ k \in first_move \ (first_over \cup missed) => repeats[k] = 1 /\ elapsed[k] <= since[k] + LongStep
  /\ k \in first_over \ missed =>
       elapsed[k] <= since[k] /\ (repeats[k] = 2 \/ (repeats[k] = 1 /\ LongStep >= First))
TimersTracked == \A k \in Arrows : TimerTracked(k)

\* No frame is longer than LongStep, if there is a longest one.
LEMMA LongStepIsLongest ==
  ASSUME \E s \in Steps : \A t \in Steps : t <= s
  PROVE  LongStep \in Nat \ {0} /\ \A dt \in Steps : dt \in Nat \ {0} /\ dt <= LongStep
  <1>1. LongStep \in Steps /\ \A t \in Steps : t <= LongStep
    BY DEF LongStep
  <1> QED
    BY <1>1, ControllerAssumption

\* Initially no timer runs.
LEMMA TimersTrackedInit == Init => TimersTracked
  BY DEF Init, TimersTracked, TimerTracked

\* What a frame does to one arrow.
LEMMA FrameOf ==
  ASSUME TypeOK, NEW dt \in Steps, Frame(dt), NEW k \in Arrows
  PROVE  /\ k \in first_move' <=> k \in first_move \/ FirstDue(k, dt)
         /\ k \in first_over' <=> k \in first_over \/ DelayOver(k, dt)
         /\ elapsed'[k] = IF DelayOver(k, dt) THEN 0 ELSE Timer(k, dt)
         /\ pressed' \subseteq pressed /\ missed' = missed
         /\ k \in moves' <=> FirstDue(k, dt) \/ DelayOver(k, dt)
         /\ since'[k] = IF FirstDue(k, dt) \/ DelayOver(k, dt) THEN 0
                        ELSE IF since[k] + dt < First THEN since[k] + dt ELSE First
         /\ repeats'[k] = IF (FirstDue(k, dt) \/ DelayOver(k, dt)) /\ repeats[k] < 2 THEN repeats[k] + 1
                          ELSE repeats[k]
  <1>1. k \notin {"ROTATE", "DROP"}
    BY ControllerAssumption
  <1> QED
    BY <1>1 DEF Frame

\* A frame keeps one arrow's timer in step with the time since it was last sent,
LEMMA TimerFrame ==
  ASSUME \E s \in Steps : \A t \in Steps : t <= s,
         KeysTracked, TypeOK, TypeOK', TimersTracked, NEW dt \in Steps, Frame(dt), NEW k \in Arrows
  PROVE  TimerTracked(k)'
  <1>1. /\ elapsed[k] \in 0..(First - 1) /\ since[k] \in 0..First /\ repeats[k] \in 0..2 /\ elapsed'[k] \in 0..(First - 1)
        /\ First \in Nat \ {0} /\ dt \in Nat \ {0} /\ LongStep \in Nat \ {0} /\ dt <= LongStep
    BY LongStepIsLongest, ControllerAssumption DEF TypeOK
  <1>2. TimerTracked(k) /\ (k \in first_over => k \in first_move)
    BY DEF TimersTracked, KeysTracked
  <1>3. CASE FirstDue(k, dt)
    <2>1. k \in pressed /\ k \notin first_over /\ k \notin first_move /\ Timer(k, dt) = dt
      BY <1>1, <1>2, <1>3 DEF FirstDue, Timer, TimerTracked
    <2>2. CASE DelayOver(k, dt)
      BY <1>1, <1>2, <1>3, <2>1, <2>2, FrameOf DEF TimerTracked, DelayOver
    <2>3. CASE ~DelayOver(k, dt)
      BY <1>1, <1>2, <1>3, <2>1, <2>3, FrameOf DEF TimerTracked
    <2> QED
      BY <2>2, <2>3
  <1>4. CASE ~FirstDue(k, dt) /\ DelayOver(k, dt)
    <2>1. k \in pressed /\ k \in first_move
      BY <1>2, <1>4 DEF FirstDue, DelayOver
    <2> QED
      BY <1>1, <1>2, <1>4, <2>1, FrameOf DEF TimerTracked
  <1>5. CASE ~FirstDue(k, dt) /\ ~DelayOver(k, dt)
    <2>1. /\ k \in first_move' <=> k \in first_move
          /\ k \in first_over' <=> k \in first_over
          /\ elapsed'[k] = Timer(k, dt) /\ repeats'[k] = repeats[k] /\ pressed' \subseteq pressed /\ missed' = missed
          /\ since'[k] = IF since[k] + dt < First THEN since[k] + dt ELSE First
      BY <1>5, FrameOf
    <2>2. k \in pressed => k \in first_move
      BY <1>2, <1>5 DEF FirstDue
    <2>3. k \notin first_move => elapsed'[k] = 0
      BY <1>2, <2>1, <2>2 DEF Timer, TimerTracked
    <2>4. elapsed'[k] <= elapsed[k] + dt
      BY <1>1, <2>1 DEF Timer
    <2> QED
      BY <1>1, <1>2, <2>1, <2>2, <2>3, <2>4 DEF TimerTracked
  <1> QED
    BY <1>3, <1>4, <1>5

\* and every step those of all arrows.
LEMMA TimersTrackedStep ==
  ASSUME \E s \in Steps : \A t \in Steps : t <= s,
         KeysTracked, TypeOK, TypeOK', TimersTracked, [Next]_vars
  PROVE  TimersTracked'
  <1> SUFFICES ASSUME NEW k \in Arrows PROVE TimerTracked(k)'
    BY DEF TimersTracked
  <1>0. TimerTracked(k) /\ k \in Keys
    BY DEF TimersTracked, Keys
  <1>1. CASE GameStarts
    BY <1>0, <1>1 DEF GameStarts, flags, seen, TimerTracked
  <1>2. CASE GameEnds
    BY <1>0, <1>2 DEF GameEnds, flags, TimerTracked
  <1>3. ASSUME NEW d \in Keys, KeyDown(d) PROVE TimerTracked(k)'
    <2>1. /\ UNCHANGED <<first_move, first_over, elapsed, missed, since>>
          /\ repeats'[k] = IF k = d THEN 0 ELSE repeats[k]
          /\ k # d => (k \in pressed' <=> k \in pressed)
      BY <1>3 DEF KeyDown
    <2>2. CASE k = d
      <3>1. k \in first_move \/ k \in first_over => k \in missed
        BY <1>3, <2>2 DEF KeyDown, KeysTracked
      <3> QED
        BY <1>0, <2>1, <2>2, <3>1 DEF TimerTracked
    <2>3. CASE k # d
      BY <1>0, <2>1, <2>3 DEF TimerTracked
    <2> QED
      BY <2>2, <2>3
  <1>4. ASSUME NEW d \in Keys, KeyUp(d) PROVE TimerTracked(k)'
    <2>1. UNCHANGED <<since, repeats>>
      BY <1>4 DEF KeyUp
    <2>2. CASE playing
      <3>1. /\ pressed' = pressed \ {d} /\ first_move' = first_move \ {d} /\ first_over' = first_over \ {d}
            /\ missed' = missed \ {d} /\ elapsed'[k] = IF k = d THEN 0 ELSE elapsed[k]
        BY <1>4, <2>2 DEF KeyUp
      <3> QED
        BY <1>0, <2>1, <3>1 DEF TimerTracked
    <2>3. CASE ~playing
      <3>1. UNCHANGED <<pressed, first_move, first_over, elapsed>> /\ missed \subseteq missed'
        BY <1>4, <2>3 DEF KeyUp, flags
      <3> QED
        BY <1>0, <2>1, <3>1 DEF TimerTracked
    <2> QED
      BY <2>2, <2>3
  <1>5. ASSUME NEW dt \in Steps, Frame(dt) PROVE TimerTracked(k)'
    BY <1>5, TimerFrame
  <1>6. CASE UNCHANGED vars
    BY <1>0, <1>6 DEF vars, flags, seen, TimerTracked
  <1> QED
    BY <1>1, <1>2, <1>3, <1>4, <1>5, <1>6 DEF Next, PressKey, ReleaseKey, NextFrame

\* When frames have a longest length: an arrow that repeats keeps the first delay, to within two frames,
\* and then the shorter one, to within one, whatever drops, games and releases come between
\* (TetrisController.update: first_delay_ms, delay_ms).
THEOREM RepeatsKeepTheirDistance ==
  ASSUME \E s \in Steps : \A t \in Steps : t <= s
  PROVE  Spec => RepeatsSpaced
  <1>1. KeysTracked /\ TypeOK /\ TimersTracked /\ [Next]_vars
        => [NextFrame => \A k \in (Arrows \cap moves') \ missed :
                             \/ repeats[k] = 0
                             \/ repeats[k] = 1 /\ since[k] + LongStep + LongStep >= First
                             \/ repeats[k] = 2 /\ since[k] + LongStep >= Delay]_vars
    <2> SUFFICES ASSUME KeysTracked, TypeOK, TimersTracked, NEW dt \in Steps, Frame(dt),
                        NEW k \in Arrows, k \in moves', k \notin missed
                 PROVE  \/ repeats[k] = 0
                        \/ repeats[k] = 1 /\ since[k] + LongStep + LongStep >= First
                        \/ repeats[k] = 2 /\ since[k] + LongStep >= Delay
      BY DEF NextFrame
    <2>1. /\ elapsed[k] \in 0..(First - 1) /\ since[k] \in 0..First /\ repeats[k] \in 0..2
          /\ First \in Nat \ {0} /\ Delay \in 1..First /\ dt \in Nat \ {0} /\ LongStep \in Nat \ {0} /\ dt <= LongStep
      BY LongStepIsLongest, ControllerAssumption DEF TypeOK
    <2>2. TimerTracked(k) /\ (FirstDue(k, dt) \/ DelayOver(k, dt))
      BY FrameOf DEF TimersTracked
    <2>3. CASE FirstDue(k, dt)
      BY <2>2, <2>3 DEF FirstDue, TimerTracked
    <2>4. CASE DelayOver(k, dt) /\ k \in first_over
      <3>1. elapsed[k] + dt >= Delay
        BY <2>4 DEF DelayOver, Timer
      <3> QED
        BY <2>1, <2>2, <2>4, <3>1 DEF TimerTracked
    <2>5. CASE DelayOver(k, dt) /\ k \notin first_over /\ ~FirstDue(k, dt)
      <3>1. elapsed[k] + dt >= First /\ k \in first_move
        BY <2>5 DEF DelayOver, Timer, FirstDue
      <3> QED
        BY <2>1, <2>2, <2>5, <3>1 DEF TimerTracked
    <2> QED
      BY <2>2, <2>3, <2>4, <2>5
  <1>2. Init => KeysTracked /\ TimersTracked
    BY KeysTrackedInit, TimersTrackedInit
  <1>3. KeysTracked /\ [Next]_vars => KeysTracked'
    BY KeysTrackedStep
  <1>4. KeysTracked /\ TypeOK /\ TypeOK' /\ TimersTracked /\ [Next]_vars => TimersTracked'
    BY TimersTrackedStep
  <1> QED
    BY <1>1, <1>2, <1>3, <1>4, ControllerTypes, PTL DEF Spec, RepeatsSpaced

----------------------------------------------------------------------------
(* The two tables of packets. *)

\* A table declares no type number twice.
LEMMA TypesInTable ==
  /\ \A p, q \in Range(ClientLobby) : p.type = q.type => p = q
  /\ \A p, q \in Range(ClientRoom) : p.type = q.type => p = q
  /\ \A p, q \in Range(ClientGame) : p.type = q.type => p = q
  /\ \A p, q \in Range(ClientLists) : p.type = q.type => p = q
  /\ \A p, q \in Range(ClientSends) : p.type = q.type => p = q
  /\ \A p, q \in Range(ClientSendsMore) : p.type = q.type => p = q
  <1>1. \A p, q \in Range(ClientLobby) : p.type = q.type => p = q
    BY DEF Range, ClientLobby, Packet
  <1>2. \A p, q \in Range(ClientRoom) : p.type = q.type => p = q
    BY DEF Range, ClientRoom, Packet
  <1>3. \A p, q \in Range(ClientGame) : p.type = q.type => p = q
    BY DEF Range, ClientGame, Packet
  <1>4. \A p, q \in Range(ClientLists) : p.type = q.type => p = q
    BY DEF Range, ClientLists, Packet
  <1>5. \A p, q \in Range(ClientSends) : p.type = q.type => p = q
    BY DEF Range, ClientSends, Packet
  <1>6. \A p, q \in Range(ClientSendsMore) : p.type = q.type => p = q
    BY DEF Range, ClientSendsMore, Packet
  <1> QED
    BY <1>1, <1>2, <1>3, <1>4, <1>5, <1>6

\* The type numbers of each table.
LEMMA TableTypes ==
  /\ \A p \in Range(ClientLobby) : p.type \in {0, 1, 3, 7, 10, 12}
  /\ \A p \in Range(ClientRoom) : p.type \in {14, 16, 18, 20, 39, 22}
  /\ \A p \in Range(ClientGame) : p.type \in {24, 25, 33, 31, 35, 27, 29, 37, 41}
  /\ \A p \in Range(ClientLists) : p.type \in {43, 49, 100, 55, 56, 57, 59, 61, 63}
  /\ \A p \in Range(ClientSends) : p.type \in {2, 4, 8, 9, 11, 13, 50, 15, 17, 19, 21}
  /\ \A p \in Range(ClientSendsMore) : p.type \in {23, 45, 47, 51, 52, 53, 54, 58, 60, 62}
  <1>1. \A p \in Range(ClientLobby) : p.type \in {0, 1, 3, 7, 10, 12}
    BY DEF Range, ClientLobby, Packet
  <1>2. \A p \in Range(ClientRoom) : p.type \in {14, 16, 18, 20, 39, 22}
    BY DEF Range, ClientRoom, Packet
  <1>3. \A p \in Range(ClientGame) : p.type \in {24, 25, 33, 31, 35, 27, 29, 37, 41}
    BY DEF Range, ClientGame, Packet
  <1>4. \A p \in Range(ClientLists) : p.type \in {43, 49, 100, 55, 56, 57, 59, 61, 63}
    BY DEF Range, ClientLists, Packet
  <1>5. \A p \in Range(ClientSends) : p.type \in {2, 4, 8, 9, 11, 13, 50, 15, 17, 19, 21}
    BY DEF Range, ClientSends, Packet
  <1>6. \A p \in Range(ClientSendsMore) : p.type \in {23, 45, 47, 51, 52, 53, 54, 58, 60, 62}
    BY DEF Range, ClientSendsMore, Packet
  <1> QED
    BY <1>1, <1>2, <1>3, <1>4, <1>5, <1>6

\* No two packets of the registry have the same type number.
LEMMA TypeTellsPacket == \A p, q \in Registry : p.type = q.type => p = q
  <1>1. \A p \in Registry : \/ p \in Range(ClientLobby) \/ p \in Range(ClientRoom)
                            \/ p \in Range(ClientGame) \/ p \in Range(ClientLists)
                            \/ p \in Range(ClientSends) \/ p \in Range(ClientSendsMore)
    BY DEF Registry
  <1>2. SUFFICES ASSUME NEW p \in Registry, NEW q \in Registry, p.type = q.type
                 PROVE  p = q
    OBVIOUS
  <1>3. CASE p \in Range(ClientLobby)
    BY <1>1, <1>2, <1>3, TypesInTable, TableTypes
  <1>4. CASE p \in Range(ClientRoom)
    BY <1>1, <1>2, <1>4, TypesInTable, TableTypes
  <1>5. CASE p \in Range(ClientGame)
    BY <1>1, <1>2, <1>5, TypesInTable, TableTypes
  <1>6. CASE p \in Range(ClientLists)
    BY <1>1, <1>2, <1>6, TypesInTable, TableTypes
  <1>7. CASE p \in Range(ClientSends)
    BY <1>1, <1>2, <1>7, TypesInTable, TableTypes
  <1>8. CASE p \in Range(ClientSendsMore)
    BY <1>1, <1>2, <1>8, TypesInTable, TableTypes
  <1> QED
    BY <1>1, <1>3, <1>4, <1>5, <1>6, <1>7, <1>8

\* Every packet the game sends is in the client's registry, field by field.
LEMMA ServerIsRegistered == ServerPackets \subseteq Registry
  <1>1. Range(ServerLobby) \subseteq Registry
    BY DEF Range, Registry, ServerLobby, ClientLobby, ClientGame, ClientLists
  <1>2. Range(ServerRoom) \subseteq Registry
    BY DEF Range, Registry, ServerRoom, ClientLobby, ClientRoom, ClientLists
  <1>3. Range(ServerGame) \subseteq Registry
    BY DEF Range, Registry, ServerGame, ClientGame
  <1> QED
    BY <1>1, <1>2, <1>3 DEF ServerPackets

\* What a server may send.
Sendable == ServerPackets \cup Range(ServerTest)

\* A packet is a type and a sequence of kinds.
LEMMA PacketForm ==
  /\ \A p \in Sendable : p = Packet(p.type, p.body)
  /\ \A p \in Sendable : DOMAIN p.body = 1..Len(p.body) /\ Len(p.body) \in Nat
  <1>1. \A p \in Range(ServerLobby) : p = Packet(p.type, p.body)
    BY DEF Range, ServerLobby, Packet
  <1>2. \A p \in Range(ServerLobby) : DOMAIN p.body = 1..Len(p.body) /\ Len(p.body) \in Nat
    BY DEF Range, ServerLobby, Packet
  <1>3. \A p \in Range(ServerRoom) : p = Packet(p.type, p.body)
    BY DEF Range, ServerRoom, Packet
  <1>4. \A p \in Range(ServerRoom) : DOMAIN p.body = 1..Len(p.body) /\ Len(p.body) \in Nat
    BY DEF Range, ServerRoom, Packet
  <1>5. \A p \in Range(ServerGame) : p = Packet(p.type, p.body)
    BY DEF Range, ServerGame, Packet
  <1>6. \A p \in Range(ServerGame) : DOMAIN p.body = 1..Len(p.body) /\ Len(p.body) \in Nat
    BY DEF Range, ServerGame, Packet
  <1>7. \A p \in Range(ServerTest) : p = Packet(p.type, p.body)
    BY DEF Range, ServerTest, Packet
  <1>8. \A p \in Range(ServerTest) : DOMAIN p.body = 1..Len(p.body) /\ Len(p.body) \in Nat
    BY DEF Range, ServerTest, Packet
  <1> QED
    BY <1>1, <1>2, <1>3, <1>4, <1>5, <1>6, <1>7, <1>8 DEF Sendable, ServerPackets

\* Only the load generator's packet is not registered.
LEMMA TestIsForeign == \A p \in Range(ServerTest) : ~Registered(p.type)
  <1>1. \A p \in Range(ServerTest) : p.type = 5
    BY DEF Range, ServerTest, Packet
  <1>2. \A q \in Registry : q.type # 5
    <2>1. \A p \in Registry : \/ p \in Range(ClientLobby) \/ p \in Range(ClientRoom)
                              \/ p \in Range(ClientGame) \/ p \in Range(ClientLists)
                              \/ p \in Range(ClientSends) \/ p \in Range(ClientSendsMore)
      BY DEF Registry
    <2> QED
      BY <2>1, TableTypes
  <1> QED
    BY <1>1, <1>2 DEF Registered

\* The size of a packet is a number, at least that of its header.
LEMMA SizeIsNatural ==
  ASSUME NEW body, DOMAIN body = 1..Len(body), Len(body) \in Nat
  PROVE  SizeOf(body) \in Nat /\ SizeOf(body) >= HeaderSize
  <1>1. IsFiniteSet(DOMAIN body)
    BY FS_Interval
  <1>2. \A kind : {k \in DOMAIN body : body[k] = kind} \subseteq DOMAIN body
    OBVIOUS
  <1>3. ASSUME NEW kind \in {"i", "b", "?", "Q", "s"}
        PROVE  WidthOf(kind, body) \in Nat
    <2>1. Cardinality({k \in DOMAIN body : body[k] = kind}) \in Nat
      BY <1>1, <1>2, FS_Subset, FS_CardinalityType
    <2>2. Width(kind) \in Nat
      BY DEF Width
    <2>3. \A m, n \in Nat : m * n \in Nat
      OBVIOUS
    <2> QED
      BY <2>1, <2>2, <2>3 DEF WidthOf
  <1> QED
    BY <1>3 DEF SizeOf, HeaderSize

\* bytes_to_struct of a packet of the game gives that packet.
LEMMA ServerDecodes == \A p \in ServerPackets : Registered(p.type) /\ Decodes(p) /\ Filled(p) = p
  <1> SUFFICES ASSUME NEW p \in ServerPackets
               PROVE  Registered(p.type) /\ Decodes(p) /\ Filled(p) = p
    OBVIOUS
  <1>1. p \in Registry
    BY ServerIsRegistered
  <1>2. Registered(p.type) /\ StructType(p.type) = p
    BY <1>1, TypeTellsPacket DEF Registered, StructType
  <1>3. p = Packet(p.type, p.body)
    BY PacketForm DEF Sendable
  <1> QED
    BY <1>2, <1>3 DEF Decodes, Filled

\* The struct a request is cast to is the one it was packed with.
LEMMA CastOfRequest == \A p \in BuilderPackets : (CHOOSE q \in ServerCasts : q.type = p.type) = p
  <1>1. Range(ClientSends) \subseteq ServerCasts
    BY DEF Range, ClientSends, ServerCasts
  <1>2. Range(ClientSendsMore) \subseteq ServerCasts
    BY DEF Range, ClientSendsMore, ServerCasts
  <1>3. \A p, q \in ServerCasts : p.type = q.type => p = q
    BY DEF ServerCasts, Packet
  <1> QED
    BY <1>1, <1>2, <1>3 DEF BuilderPackets

----------------------------------------------------------------------------
(* The connection. *)

\* The packets that are past the buffer, and the bytes they took.
Passed == Len(handled) + Len(queue)
Cut == arrived - (Len(recv_buffer) - offset)

Length(p) == SizeOf(p.body)

\* Packet i + 1 of the stream is the bytes after e[i], up to e[i + 1].
Laid(e) ==
  /\ e[0] = 0 /\ e[Len(sent)] = Len(stream)
  /\ \A i \in 0..(Len(sent) - 1) : e[i + 1] = e[i] + Length(sent[i + 1])
  /\ \A i \in 0..(Len(sent) - 1) : \A k \in 1..Length(sent[i + 1]) : stream[e[i] + k] = <<i + 1, k>>
  /\ \A i, j \in 0..Len(sent) : i < j => e[i] < e[j]

\* The buffer begins where a packet does.
Aligned == \E e \in [0..Len(sent) -> Nat] : Laid(e) /\ e[Passed] = Cut

WireTyped ==
  /\ StreamTyped
  /\ stream \in Seq(Nat \X Nat) /\ recv_buffer \in Seq(Nat \X Nat)
  /\ queue \in Seq(Down) /\ handled \in Seq(Down)

\* What the buffer holds, and what was made of it.
BufferHolds == \A k \in 1..(Len(recv_buffer) - offset) : recv_buffer[offset + k] = stream[Cut + k]

InOrder ==
  /\ Passed <= Len(sent)
  /\ \A i \in 1..Len(handled) : handled[i] = sent[i]
  /\ \A i \in 1..Len(queue) : queue[i] = sent[Len(handled) + i]

\* Where the thread is: it puts the packet that stands in the buffer.
AtWork ==
  /\ link = "none" => thread = "none"
  /\ thread \in {"none", "recv"} => offset = 0
  /\ thread = "put" => /\ Passed < Len(sent) /\ data = sent[Passed + 1]
                       /\ Len(recv_buffer) - offset >= Length(data)

StreamInv == WireTyped /\ Aligned /\ BufferHolds /\ InOrder /\ AtWork /\ ThreadLives /\ RequestUnderstood

\* What the traffic lets the server send is what it has.
LEMMA DownSendable == Down \subseteq Sendable
  <1> SUFFICES ASSUME NEW t \in Traffic, NEW p \in Range(t[1]) PROVE p \in Sendable
    BY DEF Down
  <1>1. t[1] \in Seq(Sendable)
    BY StreamAssumption DEF Sendable
  <1>2. PICK i \in DOMAIN t[1] : p = t[1][i]
    BY DEF Range
  <1> QED
    BY <1>1, <1>2

\* Every packet has at least a header.
LEMMA LengthIs == \A p \in Down : Length(p) \in Nat /\ Length(p) >= 3
  BY DownSendable, PacketForm, SizeIsNatural DEF Length, HeaderSize

\* The numbers the steps compute with.
LEMMA Numbers ==
  ASSUME StreamInv
  PROVE  /\ Len(sent) \in Nat /\ Len(stream) \in Nat /\ Len(recv_buffer) \in Nat /\ Len(queue) \in Nat
         /\ Len(handled) \in Nat /\ offset \in Nat /\ arrived \in Nat /\ Passed \in Nat /\ Cut \in Nat
         /\ offset <= Len(recv_buffer) /\ arrived <= Len(stream) /\ Passed \in 0..Len(sent)
         /\ Cut <= arrived /\ Len(recv_buffer) - offset = arrived - Cut
  <1>1. /\ sent \in Seq(Down) /\ stream \in Seq(Nat \X Nat) /\ recv_buffer \in Seq(Nat \X Nat)
        /\ queue \in Seq(Down) /\ handled \in Seq(Down)
    BY DEF StreamInv, WireTyped, StreamTyped
  <1>2. /\ Len(sent) \in Nat /\ Len(stream) \in Nat /\ Len(recv_buffer) \in Nat /\ Len(queue) \in Nat
        /\ Len(handled) \in Nat
    BY <1>1
  <1>3. arrived \in 0..Len(stream) /\ offset \in 0..Len(recv_buffer)
    BY DEF StreamInv, WireTyped, StreamTyped
  <1>4. Passed \in Nat /\ Passed <= Len(sent)
    BY <1>2 DEF Passed, StreamInv, InOrder
  <1>5. Cut \in Nat
    BY <1>4, <1>2 DEF StreamInv, Aligned
  <1> QED
    BY <1>2, <1>3, <1>4, <1>5 DEF Cut

\* A header in the buffer is that of the next packet.
LEMMA NextHeader ==
  ASSUME StreamInv, Len(recv_buffer) - offset >= 3
  PROVE  /\ Passed < Len(sent) /\ sent[Passed + 1] \in Down
         /\ recv_buffer[offset + 1][1] = Passed + 1
         /\ ReadSize(offset) = Length(sent[Passed + 1])
  <1>1. Passed \in 0..Len(sent) /\ Len(sent) \in Nat /\ Cut \in Nat /\ offset \in Nat
    BY Numbers
  <1>2. PICK e \in [0..Len(sent) -> Nat] : Laid(e) /\ e[Passed] = Cut
    BY DEF StreamInv, Aligned
  <1>3. Cut < Len(stream) /\ e[Len(sent)] = Len(stream)
    BY <1>2, Numbers DEF Laid
  <1>4. Passed # Len(sent)
    BY <1>2, <1>3, <1>1
  <1>5. Passed < Len(sent) /\ Passed \in 0..(Len(sent) - 1) /\ Passed + 1 \in 1..Len(sent)
    BY <1>1, <1>4
  <1>6. sent[Passed + 1] \in Down
    BY <1>5 DEF StreamInv, WireTyped, StreamTyped
  <1>7. 1 \in 1..Length(sent[Passed + 1]) /\ 2 \in 1..Length(sent[Passed + 1])
    BY <1>6, LengthIs
  <1>8. \A k \in 1..Length(sent[Passed + 1]) : stream[Cut + k] = <<Passed + 1, k>>
    BY <1>2, <1>5 DEF Laid
  <1>9. 1 \in 1..(Len(recv_buffer) - offset) /\ 2 \in 1..(Len(recv_buffer) - offset)
    BY Numbers
  <1>10. recv_buffer[offset + 1] = stream[Cut + 1] /\ recv_buffer[offset + 2] = stream[Cut + 2]
    BY <1>9 DEF StreamInv, BufferHolds
  <1>11. recv_buffer[offset + 1] = <<Passed + 1, 1>> /\ recv_buffer[offset + 2] = <<Passed + 1, 2>>
    BY <1>7, <1>8, <1>10
  <1> QED
    BY <1>5, <1>6, <1>11 DEF ReadSize, Length

\* Before the connection nothing has been sent.
LEMMA StreamInvInit == StreamInit => StreamInv
  <1> SUFFICES ASSUME StreamInit PROVE StreamInv
    OBVIOUS
  <1>0. /\ link = "none" /\ running = FALSE /\ sock_open = FALSE /\ thread = "none" /\ changing = FALSE
        /\ sent = << >> /\ stream = << >> /\ recv_buffer = << >> /\ queue = << >> /\ handled = << >>
        /\ arrived = 0 /\ offset = 0 /\ request.read = request.wrote
    BY DEF StreamInit
  <1>1. Len(<< >>) = 0 /\ \A S : << >> \in Seq(S)
    BY EmptySeq
  <1>2. WireTyped
    <2>1. stream \in Seq(Nat \X Nat) /\ recv_buffer \in Seq(Nat \X Nat)
      BY <1>0, <1>1, Zenon
    <2>2. sent \in Seq(Down) /\ queue \in Seq(Down) /\ handled \in Seq(Down)
      BY <1>0, <1>1, Zenon
    <2>3. arrived \in 0..Len(stream) /\ offset \in 0..Len(recv_buffer) /\ Len(queue) <= MaxQueue
      BY <1>0, <1>1, StreamAssumption
    <2>4. /\ link \in {"none", "up", "fin", "reset"} /\ running \in BOOLEAN /\ sock_open \in BOOLEAN
          /\ thread \in {"none", "recv", "cut", "put", "ended"} /\ changing \in BOOLEAN
      BY <1>0
    <2> QED
      BY <2>1, <2>2, <2>3, <2>4, Zenon DEF WireTyped, StreamTyped
  <1>3. Passed = 0 /\ Cut = 0
    <2>1. Len(handled) = 0 /\ Len(queue) = 0 /\ Len(recv_buffer) = 0
      BY <1>0, <1>1, Zenon
    <2>2. arrived = 0 /\ offset = 0
      BY <1>0, Zenon
    <2> QED
      BY <2>1, <2>2 DEF Passed, Cut
  <1>4. Aligned
    <2> DEFINE e == [i \in 0..0 |-> 0]
    <2>1. e \in [0..Len(sent) -> Nat] /\ e[0] = 0
      BY <1>0, <1>1
    <2>2. Laid(e)
      BY <1>0, <1>1, <2>1 DEF Laid
    <2> HIDE DEF e
    <2> QED
      BY <1>3, <2>1, <2>2 DEF Aligned
  <1>5. BufferHolds /\ InOrder /\ AtWork /\ ThreadLives /\ RequestUnderstood
    BY <1>0, <1>1, <1>3 DEF BufferHolds, InOrder, AtWork, ThreadLives, RequestUnderstood
  <1> QED
    BY <1>2, <1>4, <1>5 DEF StreamInv

\* A step that leaves the wire and the boundary alone keeps the buffer aligned.
LEMMA AlignedKept ==
  ASSUME Aligned, sent' = sent, stream' = stream, Passed' = Passed, Cut' = Cut
  PROVE  Aligned'
  BY DEF Aligned, Laid

\* So it is with the bytes of the buffer,
LEMMA BufferKept ==
  ASSUME BufferHolds, stream' = stream, recv_buffer' = recv_buffer, offset' = offset, Cut' = Cut
  PROVE  BufferHolds'
  BY DEF BufferHolds

\* and with the order of the packets.
LEMMA OrderKept ==
  ASSUME InOrder, UNCHANGED <<sent, queue, handled>>
  PROVE  InOrder'
  BY DEF InOrder, Passed

\* Steps of the connection, the screen and the requests: the wire, the buffer and the
\* queue stay.
LEMMA ApartStep ==
  ASSUME StreamInv, UNCHANGED <<sent, stream, arrived, recv_buffer, offset, queue, handled>>,
         StreamTyped', AtWork', ThreadLives', RequestUnderstood'
  PROVE  StreamInv'
  <1>1. Passed' = Passed /\ Cut' = Cut
    BY DEF Passed, Cut
  <1>2. WireTyped'
    BY DEF StreamInv, WireTyped
  <1> QED
    BY <1>1, <1>2, AlignedKept, BufferKept, OrderKept DEF StreamInv

\* A connection begins with an empty buffer.
LEMMA ConnectStep == ASSUME StreamInv, Connect PROVE StreamInv'
  <1>1. StreamTyped' /\ AtWork' /\ ThreadLives' /\ RequestUnderstood'
    BY DEF StreamInv, WireTyped, StreamTyped, AtWork, ThreadLives, RequestUnderstood, Connect, buffer
  <1> QED
    BY <1>1, ApartStep DEF Connect, buffer

\* The peer may go at any time.
LEMMA ServerClosesStep == ASSUME StreamInv, ServerCloses PROVE StreamInv'
  <1>1. StreamTyped' /\ AtWork' /\ ThreadLives' /\ RequestUnderstood'
    BY DEF StreamInv, WireTyped, StreamTyped, AtWork, ThreadLives, RequestUnderstood, ServerCloses, buffer, Passed
  <1> QED
    BY <1>1, ApartStep DEF ServerCloses, buffer

\* The thread ends when the connection did.
LEMMA RecvEndsStep == ASSUME StreamInv, RecvEnds PROVE StreamInv'
  <1>1. StreamTyped' /\ AtWork' /\ ThreadLives' /\ RequestUnderstood'
    BY DEF StreamInv, WireTyped, StreamTyped, AtWork, ThreadLives, RequestUnderstood, RecvEnds, buffer, Passed
  <1> QED
    BY <1>1, ApartStep DEF RecvEnds, buffer

\* A change of screen touches nothing of the connection.
LEMMA ChangeScreenStep == ASSUME StreamInv, ChangeScreen PROVE StreamInv'
  <1>1. StreamTyped' /\ AtWork' /\ ThreadLives' /\ RequestUnderstood'
    BY DEF StreamInv, WireTyped, StreamTyped, AtWork, ThreadLives, RequestUnderstood, Foreign, ChangeScreen, buffer, socket, Passed
  <1> QED
    BY <1>1, ApartStep DEF ChangeScreen, buffer, socket

\* The server reads what the builder wrote.
LEMMA SendPacketStep == ASSUME StreamInv, SendPacket PROVE StreamInv'
  <1>1. Up \subseteq BuilderPackets
    BY StreamAssumption DEF Up
  <1>2. RequestUnderstood'
    BY <1>1, CastOfRequest DEF SendPacket, RequestUnderstood
  <1>3. StreamTyped' /\ AtWork' /\ ThreadLives'
    BY DEF StreamInv, WireTyped, StreamTyped, AtWork, ThreadLives, Foreign, SendPacket, buffer, socket, Passed
  <1> QED
    BY <1>2, <1>3, ApartStep DEF SendPacket, buffer, socket

\* Nothing happens.
LEMMA StutterStep == ASSUME StreamInv, UNCHANGED streamVars PROVE StreamInv'
  <1>1. StreamTyped' /\ AtWork' /\ ThreadLives' /\ RequestUnderstood'
    BY DEF StreamInv, WireTyped, StreamTyped, AtWork, ThreadLives, RequestUnderstood, Foreign, streamVars, buffer, socket, Passed
  <1> QED
    BY <1>1, ApartStep DEF streamVars, buffer, socket

\* The packet that is cut is the next one that was sent, field by field.
LEMMA CutPacketStep == ASSUME StreamInv, CutPacket PROVE StreamInv'
  <1> DEFINE p == sent[Passed + 1]
  <1>1. Len(recv_buffer) - offset >= 3
    BY DEF CutPacket, HasPacket, HasHeader, HeaderSize
  <1>2. /\ Passed < Len(sent) /\ p \in Down /\ recv_buffer[offset + 1][1] = Passed + 1
        /\ ReadSize(offset) = Length(p)
    BY <1>1, NextHeader
  <1>3. p \in ServerPackets
    BY <1>2, DownSendable, TestIsForeign DEF CutPacket, Decodes, Sendable
  <1>4. data' = p /\ Len(recv_buffer) - offset >= Length(p)
    BY <1>2, <1>3, ServerDecodes DEF CutPacket, HasPacket
  <1>5. AtWork'
    BY <1>2, <1>4 DEF StreamInv, AtWork, Passed, CutPacket, socket
  <1>6. StreamTyped' /\ ThreadLives' /\ RequestUnderstood'
    BY DEF StreamInv, WireTyped, StreamTyped, ThreadLives, RequestUnderstood, CutPacket, socket
  <1> QED
    BY <1>5, <1>6, ApartStep DEF CutPacket, socket

\* Only the load generator's packet fails to decode.
LEMMA CutFailsStep == ASSUME StreamInv, CutFails PROVE StreamInv'
  <1> DEFINE p == sent[Passed + 1]
  <1>1. Len(recv_buffer) - offset >= 3
    BY DEF CutFails, HasPacket, HasHeader, HeaderSize
  <1>2. /\ Passed < Len(sent) /\ p \in Down /\ recv_buffer[offset + 1][1] = Passed + 1
        /\ ReadSize(offset) = Length(p)
    BY <1>1, NextHeader
  <1>3. ~Decodes(p)
    BY <1>2, LengthIs DEF CutFails, HeaderSize
  <1>4. p \in Range(ServerTest)
    BY <1>2, <1>3, DownSendable, ServerDecodes DEF Sendable
  <1>5. Passed + 1 \in 1..Len(sent)
    BY <1>2, Numbers
  <1>6. Foreign(Len(sent))
    BY <1>4, <1>5, TestIsForeign DEF Foreign
  <1>7. ThreadLives'
    BY <1>6 DEF ThreadLives, Foreign, CutFails
  <1>8. StreamTyped' /\ AtWork' /\ RequestUnderstood'
    BY DEF StreamInv, WireTyped, StreamTyped, AtWork, RequestUnderstood, CutFails, buffer
  <1> QED
    BY <1>7, <1>8, ApartStep DEF CutFails, buffer

\* A part of the wire or of the buffer, given its bounds.
IsPart(part, q, a, b) ==
  /\ part \in Seq(Nat \X Nat) /\ Len(part) = b - a
  /\ \A k \in 1..(b - a) : part[k] = q[a + k]

\* SubSeq gives such a part.
LEMMA PartOf ==
  ASSUME NEW q \in Seq(Nat \X Nat), NEW a \in Nat, NEW b \in Nat, a <= b, b <= Len(q)
  PROVE  IsPart(SubSeq(q, a + 1, b), q, a, b)
  <1> DEFINE part == SubSeq(q, a + 1, b)
  <1>1. \A i \in (a + 1)..b : q[i] \in Nat \X Nat
    OBVIOUS
  <1>2. /\ part \in Seq(Nat \X Nat) /\ Len(part) = (IF a + 1 <= b THEN b - (a + 1) + 1 ELSE 0)
        /\ \A i \in 1..(b - (a + 1) + 1) : part[i] = q[(a + 1) + i - 1]
    BY <1>1, SubSeqProperties
  <1> HIDE DEF part
  <1>3. b - (a + 1) + 1 = b - a /\ (IF a + 1 <= b THEN b - (a + 1) + 1 ELSE 0) = b - a
    OBVIOUS
  <1>4. \A i \in 1..(b - a) : (a + 1) + i - 1 = a + i
    OBVIOUS
  <1>5. Len(part) = b - a /\ \A i \in 1..(b - a) : part[i] = q[a + i]
    BY <1>2, <1>3, <1>4
  <1> QED
    BY <1>2, <1>5 DEF part, IsPart

\* The server sends: the stream grows by the packet's bytes, the rest stays.
LEMMA ServerSendStep == ASSUME StreamInv, ServerSend PROVE StreamInv'
  <1>1. PICK p \in Down : /\ sent' = Append(sent, p)
                          /\ stream' = stream \o [k \in 1..Length(p) |-> <<Len(sent) + 1, k>>]
    BY DEF ServerSend, Length
  <1> DEFINE more == [k \in 1..Length(p) |-> <<Len(sent) + 1, k>>]
  <1>0. PICK n \in Nat : n = Len(sent)
    BY Numbers
  <1>2. Length(p) \in Nat /\ Length(p) >= 3
    BY LengthIs
  <1>3. sent \in Seq(Down) /\ stream \in Seq(Nat \X Nat) /\ Len(stream) \in Nat
    BY Numbers DEF StreamInv, WireTyped, StreamTyped
  <1>4. more \in Seq(Nat \X Nat) /\ Len(more) = Length(p) /\ \A k \in 1..Length(p) : more[k] = <<n + 1, k>>
    <2>1. more = [k \in 1..Length(p) |-> <<n + 1, k>>]
      BY <1>0
    <2> HIDE DEF more
    <2>2. more \in [1..Length(p) -> Nat \X Nat]
      BY <1>2, <2>1
    <2>3. more \in Seq(Nat \X Nat) /\ Len(more) = Length(p)
      BY <1>2, <2>2
    <2> QED
      BY <2>1, <2>3
  <1> HIDE DEF more
  <1>5. /\ sent' \in Seq(Down) /\ Len(sent') = n + 1 /\ sent'[n + 1] = p
        /\ \A i \in 1..n : sent'[i] = sent[i]
    BY <1>0, <1>1, <1>3, AppendProperties
  <1>6. /\ stream' \in Seq(Nat \X Nat) /\ Len(stream') = Len(stream) + Length(p)
        /\ \A k \in 1..Len(stream) : stream'[k] = stream[k]
        /\ \A k \in 1..Length(p) : stream'[Len(stream) + k] = <<n + 1, k>>
    <2>1. stream' = stream \o more
      BY <1>1 DEF more
    <2>2. /\ stream' \in Seq(Nat \X Nat) /\ Len(stream') = Len(stream) + Length(p)
          /\ \A k \in 1..(Len(stream) + Length(p)) :
               stream'[k] = IF k <= Len(stream) THEN stream[k] ELSE more[k - Len(stream)]
      <3>1. /\ stream \o more \in Seq(Nat \X Nat) /\ Len(stream \o more) = Len(stream) + Len(more)
            /\ \A k \in 1..(Len(stream) + Len(more)) :
                 (stream \o more)[k] = IF k <= Len(stream) THEN stream[k] ELSE more[k - Len(stream)]
        BY <1>3, <1>4, ConcatProperties, Zenon
      <3>2. Len(more) = Length(p)
        BY <1>4
      <3> QED
        BY <2>1, <3>1, <3>2, Zenon
    <2>3. \A k \in 1..Len(stream) : stream'[k] = stream[k]
      <3> SUFFICES ASSUME NEW k \in 1..Len(stream) PROVE stream'[k] = stream[k]
        OBVIOUS
      <3>1. k \in 1..(Len(stream) + Length(p)) /\ k <= Len(stream)
        BY <1>2, <1>3
      <3> QED
        BY <2>2, <3>1
    <2>4. ASSUME NEW k \in 1..Length(p) PROVE stream'[Len(stream) + k] = <<n + 1, k>>
      <3>1. /\ Len(stream) + k \in 1..(Len(stream) + Length(p)) /\ ~(Len(stream) + k <= Len(stream))
            /\ (Len(stream) + k) - Len(stream) = k
        BY <1>2, <1>3
      <3>2. stream'[Len(stream) + k] = more[k]
        BY <2>2, <3>1
      <3> QED
        BY <1>4, <3>2
    <2> QED
      BY <2>2, <2>3, <2>4
  <1>7. Passed' = Passed /\ Cut' = Cut
    BY DEF ServerSend, Passed, Cut, buffer
  <1>8. Aligned'
    <2>1. PICK e \in [0..n -> Nat] : Laid(e) /\ e[Passed] = Cut
      BY <1>0 DEF StreamInv, Aligned
    <2>2. PICK f \in [0..(n + 1) -> Nat] : f[n + 1] = Len(stream) + Length(p) /\ \A i \in 0..n : f[i] = e[i]
      <3> DEFINE f == [i \in 0..(n + 1) |-> IF i = n + 1 THEN Len(stream) + Length(p) ELSE e[i]]
      <3>1. /\ f \in [0..(n + 1) -> Nat] /\ f[n + 1] = Len(stream) + Length(p)
            /\ \A i \in 0..n : f[i] = e[i]
        BY <1>2, <1>3
      <3> HIDE DEF f
      <3> QED
        BY <3>1
    <2>3. /\ e[0] = 0 /\ e[n] = Len(stream)
          /\ \A i \in 0..(n - 1) : e[i + 1] = e[i] + Length(sent[i + 1])
          /\ \A i \in 0..(n - 1) : \A k \in 1..Length(sent[i + 1]) : stream[e[i] + k] = <<i + 1, k>>
          /\ \A i, j \in 0..n : i < j => e[i] < e[j]
      BY <1>0, <2>1 DEF Laid
    <2>4. f[0] = 0 /\ f[n] = Len(stream)
      BY <1>3, <2>2, <2>3
    <2>5. \A i \in 0..n : f[i + 1] = f[i] + Length(sent'[i + 1])
      <3> SUFFICES ASSUME NEW i \in 0..n PROVE f[i + 1] = f[i] + Length(sent'[i + 1])
        OBVIOUS
      <3>1. CASE i = n
        BY <3>1, <1>5, <2>2, <2>4
      <3>2. CASE i # n
        <4>1. i \in 0..(n - 1) /\ i + 1 \in 0..n /\ i + 1 \in 1..n
          BY <3>2, <1>3
        <4>2. f[i + 1] = e[i + 1] /\ f[i] = e[i] /\ sent'[i + 1] = sent[i + 1]
          BY <4>1, <1>5, <2>2
        <4> QED
          BY <4>1, <4>2, <2>3
      <3> QED
        BY <3>1, <3>2
    <2>6. \A i \in 0..n : \A k \in 1..Length(sent'[i + 1]) : stream'[f[i] + k] = <<i + 1, k>>
      <3> SUFFICES ASSUME NEW i \in 0..n, NEW k \in 1..Length(sent'[i + 1])
                   PROVE  stream'[f[i] + k] = <<i + 1, k>>
        OBVIOUS
      <3>1. CASE i = n
        BY <3>1, <1>5, <1>6, <2>2, <2>4
      <3>2. CASE i # n
        <4>0. i \in 0..(n - 1) /\ i + 1 \in 0..n /\ i + 1 \in 1..n
          BY <3>2
        <4>1. sent'[i + 1] = sent[i + 1] /\ sent[i + 1] \in Down
          BY <4>0, <1>0, <1>3, <1>5
        <4>2. Length(sent[i + 1]) \in Nat /\ k \in 1..Length(sent[i + 1])
          BY <4>1, LengthIs
        <4>3. stream[e[i] + k] = <<i + 1, k>>
          BY <4>0, <4>2, <2>3
        <4>4. e[i + 1] = e[i] + Length(sent[i + 1]) /\ e[i] \in Nat /\ e[i + 1] \in Nat
          BY <4>0, <2>1, <2>3
        <4>5. e[i + 1] <= e[n]
          <5>1. CASE i + 1 = n
            BY <5>1, <4>4
          <5>2. CASE i + 1 # n
            <6>1. i + 1 < n /\ n \in 0..n
              BY <5>2, <4>0
            <6>2. e[i + 1] < e[n] /\ e[n] \in Nat
              BY <6>1, <4>0, <2>1, <2>3
            <6> QED
              BY <6>2, <4>4
          <5> QED
            BY <5>1, <5>2
        <4>6. e[i] + k \in 1..Len(stream)
          <5>1. \A a, b, l, m \in Nat : b = a + l /\ b <= m /\ k \in 1..l => a + k \in 1..m
            OBVIOUS
          <5>2. e[i + 1] <= Len(stream)
            BY <4>5, <2>3
          <5> QED
            BY <4>2, <4>4, <5>1, <5>2, <1>3
        <4> QED
          BY <4>0, <4>3, <4>6, <1>6, <2>2
      <3> QED
        BY <3>1, <3>2
    <2>7. \A i, j \in 0..(n + 1) : i < j => f[i] < f[j]
      <3> SUFFICES ASSUME NEW i \in 0..(n + 1), NEW j \in 0..(n + 1), i < j PROVE f[i] < f[j]
        OBVIOUS
      <3>1. i \in 0..n /\ f[i] = e[i] /\ e[i] \in Nat
        BY <2>1, <2>2
      <3>2. CASE j = n + 1
        <4>1. e[i] <= e[n]
          <5>1. CASE i = n
            BY <5>1, <3>1
          <5>2. CASE i # n
            <6>1. n \in 0..n /\ i < n
              BY <5>2, <3>1, <1>3
            <6>2. e[i] < e[n] /\ e[n] \in Nat
              BY <6>1, <3>1, <2>1, <2>3
            <6> QED
              BY <6>2, <3>1
          <5> QED
            BY <5>1, <5>2
        <4> QED
          BY <3>1, <3>2, <4>1, <1>2, <1>3, <2>2, <2>3
      <3>3. CASE j # n + 1
        <4>1. j \in 0..n
          BY <3>3, <1>3
        <4> QED
          BY <4>1, <3>1, <2>2, <2>3
      <3> QED
        BY <3>2, <3>3
    <2>8. Laid(f)' /\ f[Passed'] = Cut'
      <3>1. Passed \in 0..n
        BY <1>0, Numbers
      <3>2. f[n + 1] = Len(stream')
        BY <1>6, <2>2
      <3> QED
        <4>1. Len(sent') = n + 1 /\ (n + 1) - 1 = n
          BY <1>3, <1>5
        <4>2. Laid(f)'
          BY <4>1, <2>4, <2>5, <2>6, <2>7, <3>2 DEF Laid
        <4>3. f[Passed] = Cut
          BY <2>1, <2>2, <3>1
        <4> QED
          BY <4>2, <4>3, <1>7
    <2> QED
      BY <1>5, <2>2, <2>8 DEF Aligned
  <1>9. BufferHolds'
    <2>1. \A k \in 1..(Len(recv_buffer) - offset) : Cut + k \in 1..Len(stream)
      BY Numbers
    <2> QED
      BY <1>6, <1>7, <2>1 DEF StreamInv, BufferHolds, ServerSend, buffer
  <1>10. InOrder'
    <2>1. Passed <= n /\ Len(handled) \in Nat /\ Len(queue) \in Nat /\ Passed = Len(handled) + Len(queue)
      BY <1>0, Numbers DEF Passed
    <2>2. \A i \in 1..Len(handled) : i \in 1..n
      BY <1>3, <2>1
    <2>3. \A i \in 1..Len(queue) : Len(handled) + i \in 1..n
      BY <1>3, <2>1
    <2>4. handled' = handled /\ queue' = queue
      BY DEF ServerSend
    <2>5. Passed' <= Len(sent')
      BY <1>3, <1>5, <1>7, <2>1
    <2> QED
      BY <1>5, <2>2, <2>3, <2>4, <2>5 DEF StreamInv, InOrder
  <1>11. AtWork'
    <2>1. Passed \in 0..n
      BY <1>0, Numbers
    <2>2. thread = "put" => Passed + 1 \in 1..n
      BY <1>0, <1>3, <2>1 DEF StreamInv, AtWork
    <2>3. UNCHANGED <<link, thread, offset, data, recv_buffer>>
      BY DEF ServerSend, socket, buffer
    <2> QED
      BY <1>3, <1>5, <1>7, <2>1, <2>2, <2>3 DEF StreamInv, AtWork
  <1>12. ThreadLives'
    <2>1. \A i \in 1..n : ~Registered(sent[i].type) /\ sent[i] \in Range(ServerTest)
             => i \in 1..Len(sent') /\ ~Registered(sent'[i].type) /\ sent'[i] \in Range(ServerTest)
      BY <1>3, <1>5
    <2>2. Foreign(Len(sent)) => Foreign(Len(sent))'
      BY <1>0, <2>1 DEF Foreign
    <2> QED
      BY <2>2 DEF StreamInv, ThreadLives, ServerSend, socket
  <1>13. RequestUnderstood'
    BY DEF StreamInv, RequestUnderstood, ServerSend
  <1>14. WireTyped'
    <2>1. arrived' \in 0..Len(stream')
      <3>1. arrived' = arrived
        BY DEF ServerSend
      <3>2. arrived \in Nat /\ arrived <= Len(stream) /\ Len(stream') \in Nat /\ Len(stream) <= Len(stream')
        BY <1>2, <1>3, <1>6, Numbers
      <3> QED
        BY <1>3, <3>1, <3>2
    <2> QED
      BY <1>5, <1>6, <2>1 DEF StreamInv, WireTyped, StreamTyped, ServerSend, socket, buffer
  <1> QED
    BY <1>8, <1>9, <1>10, <1>11, <1>12, <1>13, <1>14 DEF StreamInv

\* A fragment is merged: the buffer grows by the bytes that follow on the wire.
LEMMA RecvStep == ASSUME StreamInv, Recv PROVE StreamInv'
  <1>1. PICK n \in Nat : /\ n \in 1..(Len(stream) - arrived) /\ arrived' = arrived + n
                         /\ recv_buffer' = recv_buffer \o SubSeq(stream, arrived + 1, arrived + n)
    <2>1. \E n \in Chunks \cup {Len(stream) - arrived, BUF_SIZE} :
             /\ n \in 1..(Len(stream) - arrived) /\ arrived' = arrived + n
             /\ recv_buffer' = recv_buffer \o SubSeq(stream, arrived + 1, arrived + n)
      BY DEF Recv, Merged
    <2>2. \A n \in 1..(Len(stream) - arrived) : n \in Nat
      BY Numbers
    <2> QED
      BY <2>1, <2>2, Zenon
  <1> DEFINE fragment == SubSeq(stream, arrived + 1, arrived + n)
  <1>2. /\ stream \in Seq(Nat \X Nat) /\ recv_buffer \in Seq(Nat \X Nat)
        /\ arrived \in Nat /\ Len(stream) \in Nat /\ Len(recv_buffer) \in Nat /\ arrived <= Len(stream)
    BY Numbers DEF StreamInv, WireTyped
  <1>3. offset = 0 /\ offset' = 0 /\ thread' = "cut" /\ link # "none"
    BY DEF StreamInv, AtWork, Recv
  <1>4. /\ fragment \in Seq(Nat \X Nat) /\ Len(fragment) = n
        /\ \A k \in 1..n : fragment[k] = stream[arrived + k]
    <2>1. arrived + n \in Nat /\ arrived <= arrived + n /\ arrived + n <= Len(stream) /\ (arrived + n) - arrived = n
      BY <1>1, <1>2
    <2>2. IsPart(fragment, stream, arrived, arrived + n)
      BY <1>2, <2>1, PartOf
    <2> HIDE DEF fragment
    <2> QED
      BY <2>1, <2>2 DEF IsPart
  <1> HIDE DEF fragment
  <1>5. /\ recv_buffer' \in Seq(Nat \X Nat) /\ Len(recv_buffer') = Len(recv_buffer) + n
        /\ \A k \in 1..(Len(recv_buffer) + n) :
             recv_buffer'[k] = IF k <= Len(recv_buffer) THEN recv_buffer[k] ELSE fragment[k - Len(recv_buffer)]
    <2>1. recv_buffer' = recv_buffer \o fragment
      BY <1>1 DEF fragment
    <2>2. /\ recv_buffer \o fragment \in Seq(Nat \X Nat)
          /\ Len(recv_buffer \o fragment) = Len(recv_buffer) + Len(fragment)
          /\ \A k \in 1..(Len(recv_buffer) + Len(fragment)) :
               (recv_buffer \o fragment)[k] =
                  IF k <= Len(recv_buffer) THEN recv_buffer[k] ELSE fragment[k - Len(recv_buffer)]
      BY <1>2, <1>4, ConcatProperties, Zenon
    <2>3. Len(fragment) = n
      BY <1>4
    <2> QED
      BY <2>1, <2>2, <2>3, Zenon
  <1>6. Passed' = Passed /\ Cut' = Cut /\ Cut = arrived - Len(recv_buffer) /\ Cut \in Nat
    <2>1. Passed' = Passed
      BY DEF Passed, Recv
    <2>2. Cut = arrived - (Len(recv_buffer) - offset) /\ Cut \in Nat
      BY Numbers DEF Cut
    <2>3. Cut' = arrived' - (Len(recv_buffer') - offset')
      BY DEF Cut
    <2> QED
      BY <1>1, <1>2, <1>3, <1>5, <2>1, <2>2, <2>3
  <1>7. BufferHolds'
    <2>1. SUFFICES ASSUME NEW k \in 1..(Len(recv_buffer) + n)
                   PROVE  recv_buffer'[k] = stream[Cut + k]
      <3>1. Len(recv_buffer') - offset' = Len(recv_buffer) + n /\ \A k \in 1..(Len(recv_buffer) + n) : offset' + k = k
        BY <1>2, <1>3, <1>5
      <3>2. stream' = stream /\ Cut' = Cut
        BY <1>6 DEF Recv
      <3> QED
        BY <3>1, <3>2 DEF BufferHolds
    <2>2. CASE k <= Len(recv_buffer)
      <3>1. k \in 1..(Len(recv_buffer) - offset) /\ offset + k = k
        BY <2>2, <1>2, <1>3
      <3>2. recv_buffer[k] = stream[Cut + k]
        BY <3>1 DEF StreamInv, BufferHolds
      <3> QED
        BY <2>2, <3>2, <1>5
    <2>3. CASE ~(k <= Len(recv_buffer))
      <3>1. k - Len(recv_buffer) \in 1..n /\ arrived + (k - Len(recv_buffer)) = Cut + k
        BY <2>3, <1>2, <1>6
      <3>2. fragment[k - Len(recv_buffer)] = stream[Cut + k]
        BY <3>1, <1>4
      <3> QED
        BY <2>3, <3>2, <1>5
    <2> QED
      BY <2>2, <2>3
  <1>8. Aligned' /\ InOrder'
    BY <1>6, AlignedKept, OrderKept DEF StreamInv, Recv
  <1>9. AtWork' /\ ThreadLives' /\ RequestUnderstood'
    BY <1>3 DEF StreamInv, AtWork, ThreadLives, RequestUnderstood, Recv, socket
  <1>10. WireTyped'
    <2>1. arrived' \in 0..Len(stream') /\ offset' \in 0..Len(recv_buffer')
      BY <1>1, <1>2, <1>3, <1>5 DEF Recv
    <2> QED
      BY <1>3, <1>5, <2>1 DEF StreamInv, WireTyped, StreamTyped, Recv, socket
  <1> QED
    BY <1>7, <1>8, <1>9, <1>10 DEF StreamInv

\* What was cut is deleted from the buffer.
LEMMA EndProcessStep == ASSUME StreamInv, EndProcess PROVE StreamInv'
  <1> DEFINE rest == SubSeq(recv_buffer, offset + 1, Len(recv_buffer))
  <1>1. PICK n \in Nat : n = Len(recv_buffer) - offset
    BY Numbers
  <1>2. /\ recv_buffer \in Seq(Nat \X Nat) /\ offset \in Nat /\ Len(recv_buffer) \in Nat /\ offset <= Len(recv_buffer)
    BY Numbers DEF StreamInv, WireTyped
  <1>3. /\ rest \in Seq(Nat \X Nat) /\ Len(rest) = n
        /\ \A k \in 1..n : rest[k] = recv_buffer[offset + k]
    <2>1. IsPart(rest, recv_buffer, offset, Len(recv_buffer))
      BY <1>2, PartOf
    <2> HIDE DEF rest
    <2> QED
      BY <1>1, <2>1 DEF IsPart
  <1> HIDE DEF rest
  <1>4. recv_buffer' = rest /\ offset' = 0 /\ arrived' = arrived /\ thread' = "recv"
    BY DEF EndProcess, rest
  <1>5. Passed' = Passed /\ Cut' = Cut
    BY <1>1, <1>2, <1>3, <1>4, Numbers DEF Passed, Cut, EndProcess
  <1>6. BufferHolds'
    <2> SUFFICES ASSUME NEW k \in 1..n PROVE rest[k] = stream[Cut + k]
      <3>1. Len(recv_buffer') - offset' = n /\ \A k \in 1..n : offset' + k = k
        BY <1>3, <1>4
      <3>2. stream' = stream /\ Cut' = Cut /\ recv_buffer' = rest
        BY <1>4, <1>5 DEF EndProcess
      <3> QED
        BY <3>1, <3>2 DEF BufferHolds
    <2> QED
      BY <1>1, <1>3 DEF StreamInv, BufferHolds
  <1>7. Aligned' /\ InOrder'
    BY <1>5, AlignedKept, OrderKept DEF StreamInv, EndProcess
  <1>8. AtWork' /\ ThreadLives' /\ RequestUnderstood'
    BY <1>4 DEF StreamInv, AtWork, ThreadLives, RequestUnderstood, EndProcess, socket
  <1>9. WireTyped'
    BY <1>3, <1>4 DEF StreamInv, WireTyped, StreamTyped, EndProcess, socket
  <1> QED
    BY <1>6, <1>7, <1>8, <1>9 DEF StreamInv

\* The packet joins the queue, and the boundary moves behind it.
LEMMA PutStep == ASSUME StreamInv, Put PROVE StreamInv'
  <1>1. /\ data = sent[Passed + 1] /\ Len(recv_buffer) - offset >= Length(data)
        /\ Passed < Len(sent) /\ Passed \in Nat /\ Len(sent) \in Nat
    BY Numbers DEF StreamInv, AtWork, Put
  <1>2. Passed + 1 \in 1..Len(sent) /\ Passed \in 0..(Len(sent) - 1)
    BY <1>1
  <1>3. data \in Down /\ Length(data) \in Nat /\ Length(data) >= 3
    BY <1>1, <1>2, LengthIs DEF StreamInv, WireTyped, StreamTyped
  <1>4. offset' = offset + Length(data)
    BY <1>1, <1>3, NextHeader, Numbers DEF Put
  <1>5. queue \in Seq(Down) /\ Len(queue) \in Nat /\ Len(handled) \in Nat /\ handled' = handled
    BY Numbers DEF StreamInv, WireTyped, Put
  <1>6. /\ queue' \in Seq(Down) /\ Len(queue') = Len(queue) + 1 /\ queue'[Len(queue) + 1] = data
        /\ \A i \in 1..Len(queue) : queue'[i] = queue[i]
    BY <1>3, <1>5, AppendProperties DEF Put
  <1>7. Passed' = Passed + 1
    BY <1>5, <1>6 DEF Passed
  <1>8. Cut' = Cut + Length(data) /\ recv_buffer' = recv_buffer /\ stream' = stream /\ sent' = sent /\ arrived' = arrived
    <2>1. recv_buffer' = recv_buffer /\ stream' = stream /\ sent' = sent /\ arrived' = arrived
      BY DEF Put
    <2>2. Cut = arrived - (Len(recv_buffer) - offset) /\ Cut' = arrived' - (Len(recv_buffer') - offset')
      BY DEF Cut
    <2>3. arrived \in Nat /\ Len(recv_buffer) \in Nat /\ offset \in Nat
      BY Numbers
    <2> QED
      BY <1>3, <1>4, <2>1, <2>2, <2>3
  <1>9. Aligned'
    <2>1. PICK e \in [0..Len(sent) -> Nat] : Laid(e) /\ e[Passed] = Cut
      BY DEF StreamInv, Aligned
    <2>2. e[Passed + 1] = Cut + Length(data)
      BY <1>1, <1>2, <2>1 DEF Laid
    <2>3. Laid(e)'
      BY <1>8, <2>1 DEF Laid
    <2> QED
      BY <1>7, <1>8, <2>2, <2>3 DEF Aligned
  <1>10. BufferHolds'
    <2> SUFFICES ASSUME NEW k \in 1..(Len(recv_buffer) - (offset + Length(data)))
                 PROVE  recv_buffer[(offset + Length(data)) + k] = stream[(Cut + Length(data)) + k]
      BY <1>4, <1>8 DEF BufferHolds
    <2>1. /\ Length(data) + k \in 1..(Len(recv_buffer) - offset)
          /\ offset + (Length(data) + k) = (offset + Length(data)) + k
          /\ Cut + (Length(data) + k) = (Cut + Length(data)) + k
      <3>1. Len(recv_buffer) \in Nat /\ offset \in Nat /\ Cut \in Nat
        BY Numbers
      <3>2. \A a, b, c, d \in Nat : \A j \in 1..(a - (b + c)) :
               c + j \in 1..(a - b) /\ b + (c + j) = (b + c) + j /\ d + (c + j) = (d + c) + j
        OBVIOUS
      <3> QED
        BY <1>3, <3>1, <3>2
    <2>2. recv_buffer[offset + (Length(data) + k)] = stream[Cut + (Length(data) + k)]
      BY <2>1 DEF StreamInv, BufferHolds
    <2> QED
      BY <2>1, <2>2
  <1>11. InOrder'
    <2>1. ASSUME NEW i \in 1..(Len(queue) + 1) PROVE queue'[i] = sent[Len(handled) + i]
      <3>1. CASE i = Len(queue) + 1
        BY <3>1, <1>1, <1>5, <1>6 DEF Passed
      <3>2. CASE i # Len(queue) + 1
        <4>1. i \in 1..Len(queue)
          BY <3>2, <1>5
        <4> QED
          BY <4>1, <1>6 DEF StreamInv, InOrder
      <3> QED
        BY <3>1, <3>2
    <2> QED
      BY <1>1, <1>5, <1>6, <1>7, <1>8, <2>1 DEF StreamInv, InOrder
  <1>12. AtWork' /\ ThreadLives' /\ RequestUnderstood'
    BY DEF StreamInv, AtWork, ThreadLives, RequestUnderstood, Put, socket
  <1>13. WireTyped'
    <2>1. offset' \in 0..Len(recv_buffer') /\ Len(queue') <= MaxQueue
      <3>1. Len(recv_buffer) \in Nat /\ offset \in Nat /\ MaxQueue \in Nat
        BY Numbers, StreamAssumption
      <3>2. offset' \in 0..Len(recv_buffer')
        BY <1>1, <1>3, <1>4, <1>8, <3>1
      <3>3. Len(queue) < MaxQueue
        BY DEF Put
      <3> QED
        BY <1>5, <1>6, <3>1, <3>2, <3>3
    <2> QED
      BY <1>6, <1>8, <2>1 DEF StreamInv, WireTyped, StreamTyped, Put, socket
  <1> QED
    BY <1>9, <1>10, <1>11, <1>12, <1>13 DEF StreamInv

\* A packet leaves the queue for the screen.
LEMMA DrainPacketStep ==
  ASSUME StreamInv, DrainPacket
  PROVE  StreamInv' /\ Len(handled) < Len(sent) /\ handled' = Append(handled, sent[Len(handled) + 1])
  <1>1. /\ queue \in Seq(Down) /\ handled \in Seq(Down) /\ queue # << >>
        /\ queue' = Tail(queue) /\ handled' = Append(handled, Head(queue))
    BY DEF StreamInv, WireTyped, DrainPacket
  <1>2. /\ Head(queue) = queue[1] /\ queue[1] \in Down /\ Len(queue) \in Nat /\ Len(queue) >= 1
        /\ queue' \in Seq(Down) /\ Len(queue') = Len(queue) - 1
        /\ \A i \in 1..(Len(queue) - 1) : queue'[i] = queue[i + 1]
    BY <1>1, EmptySeq, HeadTailProperties
  <1>3. /\ handled' \in Seq(Down) /\ Len(handled') = Len(handled) + 1 /\ Len(handled) \in Nat
        /\ handled'[Len(handled) + 1] = queue[1] /\ \A i \in 1..Len(handled) : handled'[i] = handled[i]
    BY <1>1, <1>2, AppendProperties
  <1>4. Passed' = Passed /\ Passed = Len(handled) + Len(queue) /\ Cut' = Cut
    BY <1>2, <1>3 DEF Passed, Cut, DrainPacket, buffer
  <1>5. queue[1] = sent[Len(handled) + 1] /\ Len(handled) < Len(sent)
    BY <1>2, <1>3, <1>4, Numbers DEF StreamInv, InOrder
  <1>6. InOrder'
    <2>1. \A i \in 1..(Len(handled) + 1) : handled'[i] = sent[i]
      <3> SUFFICES ASSUME NEW i \in 1..(Len(handled) + 1) PROVE handled'[i] = sent[i]
        OBVIOUS
      <3>1. i \in 1..Len(handled) \/ i = Len(handled) + 1
        BY <1>3
      <3> QED
        BY <3>1, <1>3, <1>5 DEF StreamInv, InOrder
    <2>2. \A i \in 1..(Len(queue) - 1) : queue'[i] = sent[(Len(handled) + 1) + i]
      <3> SUFFICES ASSUME NEW i \in 1..(Len(queue) - 1) PROVE queue'[i] = sent[(Len(handled) + 1) + i]
        OBVIOUS
      <3>1. i + 1 \in 1..Len(queue) /\ Len(handled) + (i + 1) = (Len(handled) + 1) + i
        BY <1>2, <1>3
      <3> QED
        BY <3>1, <1>2 DEF StreamInv, InOrder
    <2>3. sent' = sent /\ Passed <= Len(sent)
      BY DEF DrainPacket, StreamInv, InOrder
    <2> QED
      BY <1>2, <1>3, <1>4, <2>1, <2>2, <2>3 DEF InOrder
  <1>7. Aligned' /\ BufferHolds'
    BY <1>4, AlignedKept, BufferKept DEF StreamInv, DrainPacket, buffer
  <1>8. AtWork' /\ ThreadLives' /\ RequestUnderstood'
    BY <1>4 DEF StreamInv, AtWork, ThreadLives, Foreign, RequestUnderstood, DrainPacket, socket, buffer
  <1>9. WireTyped'
    <2>1. Len(queue') <= MaxQueue
      BY <1>2, StreamAssumption DEF StreamInv, WireTyped, StreamTyped
    <2> QED
      BY <1>2, <1>3, <2>1 DEF StreamInv, WireTyped, StreamTyped, DrainPacket, socket, buffer
  <1> QED
    BY <1>1, <1>2, <1>5, <1>6, <1>7, <1>8, <1>9 DEF StreamInv

\* Every step keeps the invariant of the connection.
LEMMA StreamInvNext == StreamInv /\ [StreamNext]_streamVars => StreamInv'
  BY ConnectStep, ServerSendStep, ServerClosesStep, RecvStep, RecvEndsStep, EndProcessStep, CutPacketStep,
     CutFailsStep, PutStep, DrainPacketStep, ChangeScreenStep, SendPacketStep, StutterStep
  DEF StreamNext, Finished

\* The invariant holds of every behaviour of the connection: the buffer begins at a packet
\* whatever recv returned (merge_packet, process_packet).
THEOREM StreamInvariant == StreamSpec => []StreamInv
  BY StreamInvInit, StreamInvNext, PTL DEF StreamSpec

\* The parts of the invariant about the buffer are its alignment.
LEMMA InvAligned == StreamInv => BufferAligned
  <1> SUFFICES ASSUME StreamInv PROVE BufferAligned
    OBVIOUS
  <1>1. /\ stream \in Seq(Nat \X Nat) /\ recv_buffer \in Seq(Nat \X Nat)
    BY DEF StreamInv, WireTyped
  <1>2. SubSeq(recv_buffer, offset + 1, Len(recv_buffer)) = SubSeq(stream, Cut + 1, arrived)
    <2>1. PICK n \in Nat : n = Len(recv_buffer) - offset /\ n = arrived - Cut
      BY Numbers
    <2>2. /\ offset \in Nat /\ Len(recv_buffer) \in Nat /\ n = Len(recv_buffer) - offset /\ offset <= Len(recv_buffer)
          /\ Cut \in Nat /\ arrived \in Nat /\ n = arrived - Cut /\ Cut <= arrived /\ arrived <= Len(stream)
      BY <2>1, Numbers
    <2> DEFINE x == SubSeq(recv_buffer, offset + 1, Len(recv_buffer))
               y == SubSeq(stream, Cut + 1, arrived)
    <2>3. IsPart(x, recv_buffer, offset, Len(recv_buffer))
      BY <1>1, <2>2, PartOf
    <2>4. IsPart(y, stream, Cut, arrived)
      BY <1>1, <2>2, PartOf
    <2> HIDE DEF x, y
    <2>5. \A k \in 1..n : recv_buffer[offset + k] = stream[Cut + k]
      BY <2>1 DEF StreamInv, BufferHolds
    <2>6. x \in Seq(Nat \X Nat) /\ y \in Seq(Nat \X Nat) /\ Len(x) = n /\ Len(y) = n /\ \A k \in 1..n : x[k] = y[k]
      BY <2>2, <2>3, <2>4, <2>5 DEF IsPart
    <2>7. x = y
      BY <2>6, SeqEqual
    <2> QED
      BY <2>7 DEF x, y
  <1>3. IF Cut = Len(stream) THEN Passed = Len(sent) ELSE stream[Cut + 1] = <<Passed + 1, 1>>
    <2>1. PICK e \in [0..Len(sent) -> Nat] : Laid(e) /\ e[Passed] = Cut
      BY DEF StreamInv, Aligned
    <2>2. Passed \in 0..Len(sent) /\ Len(sent) \in Nat
      BY Numbers
    <2>3. CASE Passed = Len(sent)
      BY <2>1, <2>3 DEF Laid
    <2>4. CASE Passed # Len(sent)
      <3>1. Passed < Len(sent) /\ Passed \in 0..(Len(sent) - 1) /\ Passed + 1 \in 1..Len(sent) /\ Len(sent) \in 0..Len(sent)
        BY <2>2, <2>4
      <3>2. e[Passed] < e[Len(sent)]
        BY <2>1, <2>2, <3>1 DEF Laid
      <3>3. Cut # Len(stream)
        BY <2>1, <2>2, <3>2 DEF Laid
      <3>4. 1 \in 1..Length(sent[Passed + 1])
        BY <3>1, LengthIs DEF StreamInv, WireTyped, StreamTyped
      <3>5. stream[Cut + 1] = <<Passed + 1, 1>>
        BY <2>1, <3>1, <3>4 DEF Laid
      <3> QED
        BY <3>3, <3>5
    <2> QED
      BY <2>3, <2>4
  <1> QED
    BY <1>2, <1>3 DEF BufferAligned, Cut, Passed

\* For any sequence of the protocol's packets, any fragments and any length of the queue:
\* sizes are read at packet boundaries only, the receive thread lives as long as the
\* connection, and the server reads requests as they were built (process_packet, recv_loop,
\* send_packet).
THEOREM ConnectionIsSound == StreamSpec => []StreamSound
  <1>1. StreamInv => StreamSound
    BY InvAligned DEF StreamInv, StreamSound, WireTyped
  <1> QED
    BY <1>1, StreamInvariant, PTL

\* For any such traffic a screen is given what the server sent, packet by packet and field
\* by field: nothing is lost, doubled or reordered (drain_packets).
THEOREM PacketsAreFifo == StreamSpec => Implements
  <1>1. StreamInit => Fifo!Init
    BY DEF StreamInit, Fifo!Init
  <1>2. StreamInv /\ [StreamNext]_streamVars => [Fifo!Next]_Fifo!vars
    <2> SUFFICES ASSUME StreamInv, [StreamNext]_streamVars
                 PROVE  Fifo!Next \/ UNCHANGED <<sent, handled>>
      BY DEF Fifo!vars
    <2>1. CASE ServerSend
      BY <2>1 DEF ServerSend, Fifo!Next, Fifo!Send
    <2>2. CASE DrainPacket
      BY <2>2, DrainPacketStep DEF DrainPacket, Fifo!Next, Fifo!Handle
    <2>3. CASE Connect \/ ServerCloses \/ Recv \/ RecvEnds \/ EndProcess
      BY <2>3 DEF Connect, ServerCloses, Recv, RecvEnds, EndProcess
    <2>4. CASE CutPacket \/ CutFails \/ Put \/ ChangeScreen \/ SendPacket
      BY <2>4 DEF CutPacket, CutFails, Put, ChangeScreen, SendPacket
    <2>5. CASE UNCHANGED streamVars
      BY <2>5 DEF streamVars
    <2> QED
      BY <2>1, <2>2, <2>3, <2>4, <2>5 DEF StreamNext, Finished
  <1> QED
    BY <1>1, <1>2, StreamInvariant, PTL DEF StreamSpec, Implements, Fifo!Spec
=============================================================================
