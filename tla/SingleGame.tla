----------------------------- MODULE SingleGame -----------------------------
(***************************************************************************)
(* One game of a single-player room, on both sides of the connection: the *)
(* server's board and tick (Server/Game/Tetris.cpp, SingleRoom.cpp) and   *)
(* the copy that the client rebuilds from the S2C packets (tetris_board,  *)
(* tetris_session, single_play_state).                                    *)
(*                                                                         *)
(* Left out: score, combo and their animation, sounds, drawing.  The      *)
(* timers of TetrisTimers decide only which pending inputs and whether a  *)
(* garbage line take part in a tick: both are free choices here, except   *)
(* for what a FIX does to the DOWN timer in its own tick.  The 7-bag is a *)
(* free choice of the next piece.                                         *)
(***************************************************************************)
EXTENDS Integers, Sequences, FiniteSets, FiniteSetsExt

CONSTANTS
  Cols,         \* BOARD_WIDTH / BOARD_COLS
  Visible,      \* BOARD_HEIGHT / VALID_ROWS
  Hidden,       \* HIDDEN_HEIGHT / HIDDEN_ROWS
  SpawnX,       \* spawn_pos_.x; spawn_pos_.y is 0
  Bags,         \* bound: the piece types of one game are a member of Bags
  MaxGarbage,   \* bound: garbage lines in one tick
  MaxInputs,    \* bound: different inputs in one tick
  MaxRequests,  \* bound: START and GIVE_UP requests under way
  HoleCols,     \* columns in which garbage holes appear
  Patient       \* the player presses START only while the button is drawn

\* A piece fits into a spawn place of four columns; five hidden rows leave one free
\* above every piece that rests on a visible row.
ASSUME GameAssumption ==
  /\ {Cols, Visible, Hidden} \subseteq Nat \ {0} /\ Hidden >= 5
  /\ SpawnX \in Nat /\ SpawnX + 4 <= Cols
  /\ HoleCols \subseteq 0..(Cols - 1)
  /\ \A b \in Bags : b \subseteq {"I", "J", "L", "O", "S", "T", "Z"}
  /\ {MaxGarbage, MaxInputs, MaxRequests} \subseteq Nat /\ Patient \in BOOLEAN

VARIABLES
  room_state,   \* server: "WAIT" or "PLAY"
  board_,       \* server: the filled columns of every row
  current_,     \* server: the falling piece
  next_,        \* server: the piece after it in the spawn list
  bag,          \* server: the piece types that this game deals
  c2s,          \* requests on their way to the room
  s2c,          \* packets the client has not handled yet
  state,        \* client: TSessionState
  grid,         \* client: every cell None, a colour or G(rey)
  current_tetromino,
  next_tetromino_shape,
  anim_target_line,
  crashed       \* an IndexError left the main loop

server == <<room_state, board_, current_, next_, bag>>
Pieces == UNION Bags
copy == <<grid, current_tetromino, next_tetromino_shape>>
client == <<state, copy, anim_target_line, crashed>>
vars == <<server, c2s, s2c, client>>

Rows == Hidden + Visible
RowSet == 0..(Rows - 1)
ColSet == 0..(Cols - 1)
NoPiece == [type |-> "none", x |-> 0, y |-> 0, rot |-> 0]
Spawned(type) == [type |-> type, x |-> SpawnX, y |-> 0, rot |-> 0]

----------------------------------------------------------------------------
(* The two tables of shapes: cells <<x, y>> of every rotation. *)

\* server
TETROMINOS ==
  [I |-> << {<<0,1>>,<<1,1>>,<<2,1>>,<<3,1>>}, {<<2,0>>,<<2,1>>,<<2,2>>,<<2,3>>} >>,
   J |-> << {<<0,0>>,<<0,1>>,<<1,1>>,<<2,1>>}, {<<1,0>>,<<2,0>>,<<1,1>>,<<1,2>>},
            {<<0,1>>,<<1,1>>,<<2,1>>,<<2,2>>}, {<<1,0>>,<<1,1>>,<<0,2>>,<<1,2>>} >>,
   L |-> << {<<2,0>>,<<0,1>>,<<1,1>>,<<2,1>>}, {<<1,0>>,<<1,1>>,<<1,2>>,<<2,2>>},
            {<<0,1>>,<<1,1>>,<<2,1>>,<<0,2>>}, {<<0,0>>,<<1,0>>,<<1,1>>,<<1,2>>} >>,
   O |-> << {<<1,0>>,<<2,0>>,<<1,1>>,<<2,1>>} >>,
   S |-> << {<<1,1>>,<<2,1>>,<<0,2>>,<<1,2>>}, {<<1,0>>,<<1,1>>,<<2,1>>,<<2,2>>} >>,
   T |-> << {<<1,0>>,<<0,1>>,<<1,1>>,<<2,1>>}, {<<1,0>>,<<1,1>>,<<2,1>>,<<1,2>>},
            {<<0,1>>,<<1,1>>,<<2,1>>,<<1,2>>}, {<<1,0>>,<<0,1>>,<<1,1>>,<<1,2>>} >>,
   Z |-> << {<<0,1>>,<<1,1>>,<<1,2>>,<<2,2>>}, {<<2,0>>,<<1,1>>,<<2,1>>,<<1,2>>} >>]

\* client
SHAPES ==
  [I |-> << {<<0,1>>,<<1,1>>,<<2,1>>,<<3,1>>}, {<<2,0>>,<<2,1>>,<<2,2>>,<<2,3>>} >>,
   J |-> << {<<0,0>>,<<0,1>>,<<1,1>>,<<2,1>>}, {<<1,0>>,<<2,0>>,<<1,1>>,<<1,2>>},
            {<<0,1>>,<<1,1>>,<<2,1>>,<<2,2>>}, {<<1,0>>,<<1,1>>,<<0,2>>,<<1,2>>} >>,
   L |-> << {<<2,0>>,<<0,1>>,<<1,1>>,<<2,1>>}, {<<1,0>>,<<1,1>>,<<1,2>>,<<2,2>>},
            {<<0,1>>,<<1,1>>,<<2,1>>,<<0,2>>}, {<<0,0>>,<<1,0>>,<<1,1>>,<<1,2>>} >>,
   O |-> << {<<1,0>>,<<2,0>>,<<1,1>>,<<2,1>>} >>,
   S |-> << {<<1,1>>,<<2,1>>,<<0,2>>,<<1,2>>}, {<<1,0>>,<<1,1>>,<<2,1>>,<<2,2>>} >>,
   T |-> << {<<1,0>>,<<0,1>>,<<1,1>>,<<2,1>>}, {<<1,0>>,<<1,1>>,<<2,1>>,<<1,2>>},
            {<<0,1>>,<<1,1>>,<<2,1>>,<<1,2>>}, {<<1,0>>,<<0,1>>,<<1,1>>,<<1,2>>} >>,
   Z |-> << {<<0,1>>,<<1,1>>,<<1,2>>,<<2,2>>}, {<<2,0>>,<<1,1>>,<<2,1>>,<<1,2>>} >>]

\* The absolute cells of piece p.
CellsOf(table, p) == {<<p.x + c[1], p.y + c[2]>> : c \in table[p.type][p.rot + 1]}
Rotated(table, p) == [p EXCEPT !.rot = (p.rot + 1) % Len(table[p.type])]

----------------------------------------------------------------------------
(* The server's tick.  t is the Tetris object in the middle of a tick: its *)
(* board, its piece and the send tasks so far.                             *)

IsValidPosition(board, p) ==
  \A c \in CellsOf(TETROMINOS, p) : c[1] \in ColSet /\ c[2] \in RowSet /\ c[1] \notin board[c[2]]

Shifted(p, m) == CASE m = "RIGHT" -> [p EXCEPT !.x = @ + 1]
                   [] m = "LEFT" -> [p EXCEPT !.x = @ - 1]
                   [] m = "DOWN" -> [p EXCEPT !.y = @ + 1]
                   [] m = "UP" -> [p EXCEPT !.y = @ - 1]

\* Where the loop of DROP stops.
Landed(board, p) ==
  [p EXCEPT !.y = Max({p.y} \cup {y \in p.y..Rows :
                    \A z \in p.y..y : IsValidPosition(board, [p EXCEPT !.y = z])})]

FixTetromino(board, p) ==
  [r \in RowSet |-> board[r] \cup {c[1] : c \in {d \in CellsOf(TETROMINOS, p) : d[2] = r}}]

\* A row removed, an empty one put on top: std::rotate(begin, y, y + 1).
RowRemoved(board, y) ==
  [r \in RowSet |-> IF r = 0 THEN {} ELSE IF r <= y THEN board[r - 1] ELSE board[r]]

LineCleared(t, y) ==
  IF t.board[y] = ColSet
  THEN [t EXCEPT !.board = RowRemoved(@, y), !.tasks = Append(@, [type |-> "CLEAR_LINE", y |-> y])]
  ELSE t

\* The visible rows from the top.
ClearLine(t) ==
  LET after[n \in 0..Visible] == IF n = 0 THEN t ELSE LineCleared(after[n - 1], Hidden + n - 1)
  IN  after[Visible]

Overflown(board) == \E r \in 0..(Hidden - 1) : board[r] # {}

CheckGameOver(t) ==
  IF Overflown(t.board) THEN [t EXCEPT !.tasks = Append(@, [type |-> "GAME_OVER"])] ELSE t

Fixed(t) == \E i \in DOMAIN t.tasks : t.tasks[i].type = "FIX"

FixAt(t, p) ==
  CheckGameOver(ClearLine([t EXCEPT !.current = p, !.board = FixTetromino(@, p),
                                    !.tasks = Append(@, [type |-> "FIX", x |-> p.x, y |-> p.y])]))

Step(t, m, p) ==
  IF IsValidPosition(t.board, p)
  THEN [t EXCEPT !.current = p, !.tasks = Append(@, [type |-> "MOVE", move |-> m])]
  ELSE t

\* A DOWN that is blocked fixes the piece.
MovedDown(t) ==
  LET p == Shifted(t.current, "DOWN")
  IN  IF IsValidPosition(t.board, p) THEN Step(t, "DOWN", p) ELSE FixAt(t, t.current)

ProcessMoveInput(t, m) ==
  CASE m \in {"LEFT", "RIGHT"} -> Step(t, m, Shifted(t.current, m))
    [] m = "ROTATE" -> Step(t, m, Rotated(TETROMINOS, t.current))
    [] m = "DOWN" -> MovedDown(t)
    [] m = "DROP" -> FixAt(t, Landed(t.board, t.current))

\* A FIX restarts the DOWN timer, so that a DOWN of the same tick is refused.
ProcessTick(t, inputs) ==
  LET Input(s, m) == IF m \in inputs /\ ~(m = "DOWN" /\ Fixed(s)) THEN ProcessMoveInput(s, m) ELSE s
  IN  Input(Input(Input(Input(Input(t, "DROP"), "DOWN"), "ROTATE"), "LEFT"), "RIGHT")

LineAdded(board, hole) ==
  [r \in RowSet |-> IF r = Rows - 1 THEN ColSet \ {hole} ELSE board[r + 1]]

\* Mutant: the piece stays where it is.
LiftedNever(t) == t

\* A piece the line runs into is lifted by one row.
Lifted(t) ==
  IF IsValidPosition(t.board, t.current) THEN t
  ELSE [t EXCEPT !.current = Shifted(@, "UP"), !.tasks = Append(@, [type |-> "MOVE", move |-> "UP"])]

GarbageAdded(t, hole) ==
  LET a == [t EXCEPT !.board = LineAdded(@, hole), !.tasks = Append(@, [type |-> "ADD_LINE", x |-> hole])]
  IN  IF t.over THEN t
      ELSE IF Overflown(a.board) THEN [CheckGameOver(a) EXCEPT !.over = TRUE] ELSE Lifted(a)

\* holes: one hole for every pending garbage line; the loop ends at a game over.
AddGarbageLines(t, holes) ==
  LET after[n \in 0..Len(holes)] == IF n = 0 THEN t ELSE GarbageAdded(after[n - 1], holes[n])
  IN  after[Len(holes)]

\* AddSpawnTasks, after the last CheckGameOver of the tick.
AddSpawnTasks(t, next) ==
  IF Fixed(t)
  THEN [t EXCEPT !.current = Spawned(next_),
                 !.tasks = Append(@, [type |-> "SPAWN", shape |-> next_, next |-> next])]
  ELSE t

GameTick(inputs, holes, next) ==
  LET t0 == [board |-> board_, current |-> current_, tasks |-> <<>>, over |-> FALSE]
      t1 == CheckGameOver(AddGarbageLines(ProcessTick(t0, inputs), holes))
  IN  IF Overflown(t1.board) THEN [t1 EXCEPT !.over = TRUE] ELSE AddSpawnTasks(t1, next)

EmptyBoard == [r \in RowSet |-> {}]

----------------------------------------------------------------------------
(* Actions of the server's room. *)

\* ClearGame: the room waits again and the board is empty.
ClearGame == room_state' = "WAIT" /\ board_' = EmptyBoard /\ current_' = NoPiece /\ next_' = "none" /\ bag' = {}

\* One tick of a game.  Bound: the server is at most one tick ahead of the client.
ProcessGameTick ==
  /\ room_state = "PLAY" /\ s2c = <<>>
  /\ \E inputs \in {s \in SUBSET {"LEFT", "RIGHT", "ROTATE", "DOWN", "DROP"} : Cardinality(s) <= MaxInputs},
        holes \in UNION {[1..n -> HoleCols] : n \in 0..MaxGarbage}, next \in bag :
       LET t == GameTick(inputs, holes, next)
       IN  /\ s2c' = t.tasks
           /\ IF t.over THEN ClearGame
              ELSE /\ board_' = t.board /\ current_' = t.current
                   /\ next_' = IF Fixed(t) THEN next ELSE next_
                   /\ UNCHANGED <<room_state, bag>>
  /\ UNCHANGED <<c2s, client>>

\* StartGame: refused while a game runs.
StartGame ==
  /\ c2s # <<>> /\ Head(c2s) = "START"
  /\ c2s' = Tail(c2s)
  /\ IF room_state = "PLAY" THEN UNCHANGED <<server, s2c>>
     ELSE \E b \in Bags : \E first, next \in b :
            /\ bag' = b /\ room_state' = "PLAY" /\ board_' = EmptyBoard
            /\ current_' = Spawned(first) /\ next_' = next
            /\ s2c' = s2c \o << [type |-> "SINGLE_START"],
                                [type |-> "SPAWN", shape |-> first, next |-> next] >>
  /\ UNCHANGED client

GiveUp ==
  /\ c2s # <<>> /\ Head(c2s) = "GIVE_UP"
  /\ c2s' = Tail(c2s)
  /\ IF room_state = "PLAY" THEN ClearGame /\ s2c' = Append(s2c, [type |-> "GAME_OVER"])
     ELSE UNCHANGED <<server, s2c>>
  /\ UNCHANGED client

----------------------------------------------------------------------------
(* The client. *)

EmptyGrid == [r \in RowSet |-> [c \in ColSet |-> "None"]]
EmptyRow == [c \in ColSet |-> "None"]

\* TetrisBoard.reset, with TetrisSession.reset: the board is empty and waits.
Reset ==
  /\ state' = "WAIT"
  /\ grid' = EmptyGrid /\ current_tetromino' = NoPiece /\ next_tetromino_shape' = "none"
  /\ anim_target_line' = Rows - 1

HandleMove(p, m) == IF m = "ROTATE" THEN Rotated(SHAPES, p) ELSE Shifted(p, m)

\* Mutant: the piece is fixed where the client has it.
FixOwnPlace(p, x, y) == p

\* fix: the piece takes the packet's place before it is written to the grid.
FixPlace(p, x, y) == [p EXCEPT !.x = x, !.y = y]

FixCells(g, p) == [r \in RowSet |-> [c \in ColSet |-> IF <<c, r>> \in CellsOf(SHAPES, p) THEN "Colour" ELSE g[r][c]]]
ClearLines(g, y) == [r \in RowSet |-> IF r = 0 THEN EmptyRow ELSE IF r <= y THEN g[r - 1] ELSE g[r]]
AddLine(g, hole) ==
  [r \in RowSet |-> IF r = Rows - 1 THEN [c \in ColSet |-> IF c = hole THEN "None" ELSE "G"] ELSE g[r + 1]]

\* The test of the loop below: the cells are on the board and free.
CanMove(g, p) ==
  \A c \in CellsOf(SHAPES, p) : c[1] \in ColSet /\ c[2] \in RowSet /\ g[c[2]][c[1]] = "None"

\* make_landing_tetromino: the row above the first one the piece cannot move to.
MakeLanding(g, p) ==
  [p EXCEPT !.y = Max({p.y} \cup {y \in p.y..Rows : \A z \in (p.y + 1)..y : CanMove(g, [p EXCEPT !.y = z])})]

\* TetrisSession.handle_packet; a move or a fix without a piece is ignored.
BoardPacket(p) ==
  /\ CASE p.type = "MOVE" ->
            /\ current_tetromino' = IF current_tetromino = NoPiece THEN NoPiece
                                    ELSE HandleMove(current_tetromino, p.move)
            /\ UNCHANGED <<grid, next_tetromino_shape>>
       [] p.type = "SPAWN" ->
            /\ current_tetromino' = Spawned(p.shape)
            /\ next_tetromino_shape' = p.next
            /\ UNCHANGED grid
       [] p.type = "FIX" ->
            /\ grid' = IF current_tetromino = NoPiece THEN grid
                       ELSE FixCells(grid, FixPlace(current_tetromino, p.x, p.y))
            /\ current_tetromino' = NoPiece
            /\ UNCHANGED next_tetromino_shape
       [] p.type = "CLEAR_LINE" ->
            grid' = ClearLines(grid, p.y) /\ UNCHANGED <<current_tetromino, next_tetromino_shape>>
       [] p.type = "ADD_LINE" ->
            grid' = AddLine(grid, p.x) /\ UNCHANGED <<current_tetromino, next_tetromino_shape>>
  /\ UNCHANGED <<state, anim_target_line>>

\* find_anim_start_line: the lowest row with a coloured cell, or the top row.
AnimStartLine == Max({0} \cup {r \in RowSet : \E c \in ColSet : grid[r][c] = "Colour"})

ProcessGameover == state' = "GAMEOVER_ANIMATING" /\ anim_target_line' = AnimStartLine

\* SinglePlayState.handle_packet: START changes the state and leaves the board alone.
HandlePacket ==
  /\ s2c # <<>> /\ ~crashed
  /\ s2c' = Tail(s2c)
  /\ LET p == Head(s2c)
     IN  CASE p.type = "SINGLE_START" -> state' = "PLAY" /\ UNCHANGED <<copy, anim_target_line>>
           [] p.type = "GAME_OVER" -> ProcessGameover /\ UNCHANGED copy
           [] OTHER -> BoardPacket(p)
  /\ UNCHANGED <<server, c2s, crashed>>

\* Mutant: the animation does not go on to the next row.
AnimateGameoverStill ==
  /\ state = "GAMEOVER_ANIMATING" /\ ~crashed
  /\ IF grid[anim_target_line] = EmptyRow THEN Reset
     ELSE /\ grid' = [grid EXCEPT ![anim_target_line] = [c \in ColSet |-> IF @[c] = "None" THEN "None" ELSE "G"]]
          /\ UNCHANGED <<state, current_tetromino, next_tetromino_shape, anim_target_line>>
  /\ UNCHANGED <<server, c2s, s2c, crashed>>

\* animate_gameover, once every 100 ms: a negative line counts from the end of
\* the list, and one below -Rows is an IndexError.
AnimateGameover ==
  /\ state = "GAMEOVER_ANIMATING" /\ ~crashed
  /\ IF anim_target_line < -Rows
     THEN crashed' = TRUE /\ UNCHANGED <<state, copy, anim_target_line>>
     ELSE LET line == IF anim_target_line < 0 THEN Rows + anim_target_line ELSE anim_target_line
          IN  /\ IF grid[line] = EmptyRow THEN Reset
                 ELSE /\ grid' = [grid EXCEPT ![line] = [c \in ColSet |-> IF @[c] = "None" THEN "None" ELSE "G"]]
                      /\ anim_target_line' = anim_target_line - 1
                      /\ UNCHANGED <<state, current_tetromino, next_tetromino_shape>>
              /\ UNCHANGED crashed
  /\ UNCHANGED <<server, c2s, s2c>>

\* The start button reacts whenever no game is shown; it is drawn in WAIT only.
PressStart ==
  /\ state # "PLAY" /\ ~crashed /\ Len(c2s) < MaxRequests
  /\ Patient => state = "WAIT" /\ c2s = <<>> /\ s2c = <<>>
  /\ c2s' = Append(c2s, "START")
  /\ UNCHANGED <<server, s2c, client>>

PressGiveUp ==
  /\ state = "PLAY" /\ ~crashed /\ Len(c2s) < MaxRequests
  /\ c2s' = Append(c2s, "GIVE_UP")
  /\ UNCHANGED <<server, s2c, client>>

----------------------------------------------------------------------------
Init ==
  /\ room_state = "WAIT" /\ board_ = EmptyBoard /\ current_ = NoPiece /\ next_ = "none" /\ bag = {}
  /\ c2s = <<>> /\ s2c = <<>>
  /\ state = "WAIT" /\ grid = EmptyGrid
  /\ current_tetromino = NoPiece /\ next_tetromino_shape = "none"
  /\ anim_target_line = Rows - 1 /\ crashed = FALSE

Next == \/ ProcessGameTick \/ StartGame \/ GiveUp
        \/ HandlePacket \/ AnimateGameover \/ PressStart \/ PressGiveUp

Spec == Init /\ [][Next]_vars

\* The main loop drains packets and advances the animation; the room drains its tasks.
FairSpec == Spec /\ WF_vars(HandlePacket) /\ WF_vars(AnimateGameover) /\ WF_vars(StartGame \/ GiveUp)

----------------------------------------------------------------------------
(* Properties. *)

Piece == {NoPiece} \cup [type : Pieces, x : -Cols..Cols, y : -1..Rows, rot : 0..3]

\* Every variable of the room and of the client's copy has the type the code gives it.
TypeOK ==
  /\ room_state \in {"WAIT", "PLAY"} /\ board_ \in [RowSet -> SUBSET ColSet]
  /\ current_ \in Piece /\ next_ \in bag \cup {"none"} /\ bag \in Bags \cup {{}}
  /\ c2s \in Seq({"START", "GIVE_UP"}) /\ Len(c2s) <= MaxRequests
  /\ state \in {"WAIT", "PLAY", "GAMEOVER_ANIMATING"}
  /\ grid \in [RowSet -> [ColSet -> {"None", "Colour", "G"}]]
  /\ current_tetromino \in Piece /\ next_tetromino_shape \in Pieces \cup {"none"}
  /\ anim_target_line \in (-Rows - 1)..(Rows - 1) /\ crashed \in BOOLEAN

InGame == room_state = "PLAY" /\ s2c = <<>> /\ ~crashed

\* Once the packets of a tick are handled, the client's grid, its falling piece
\* and its preview are the server's, although the client never sees the board:
\* inputs that go on after a FIX, garbage lines and lifted pieces included.
Mirror ==
  InGame => /\ state = "PLAY"
            /\ \A r \in RowSet : {c \in ColSet : grid[r][c] # "None"} = board_[r]
            /\ current_tetromino = current_
            /\ next_tetromino_shape = next_

\* Between two ticks the falling piece lies on free cells of the board: a piece
\* that a garbage line ran into is lifted clear of it and never off the top.
PieceIsFree == room_state = "PLAY" => IsValidPosition(board_, current_)

\* No row of a running game is full, and none of the hidden rows is occupied
\* (CheckGameOver after every fix and every garbage line).
RowsSettled ==
  room_state = "PLAY" => ~Overflown(board_) /\ \A r \in RowSet : board_[r] # ColSet

\* The ghost the client draws lies where the server's DROP would fix the piece.
LandingAgrees ==
  (InGame /\ current_tetromino # NoPiece) =>
    MakeLanding(grid, current_tetromino).y = Landed(board_, current_).y

\* A client that waits for a game and has no packet left shows an empty board,
\* whatever arrived during the animation of the game over before.
WaitsOnEmptyBoard == (state = "WAIT" /\ s2c = <<>>) => (grid = EmptyGrid /\ current_tetromino = NoPiece)

\* The client's copy is the server's board: in a game the grid, the piece, the
\* preview and the ghost agree with it, and between games the board is empty, as
\* the server's is (handle_packet, make_landing_tetromino, reset).
CopyAgrees == TypeOK /\ Mirror /\ LandingAgrees /\ WaitsOnEmptyBoard

\* The server's board is sound between two ticks, whatever inputs went on after a
\* FIX and whatever garbage came: the piece is on free cells, full rows are gone
\* and an overflow has ended the game (Tetris::ProcessTick, AddGarbageLines).
BoardSound == PieceIsFree /\ RowsSettled

\* A game over that reached the client ends in an empty board that waits.  The
\* animation looks for an empty row, and beyond the top from the lowest row on;
\* only a board without any makes the index leave the list.
AnimationEnds ==
  (state = "GAMEOVER_ANIMATING") ~>
    \/ state = "WAIT" /\ grid = EmptyGrid
    \/ crashed /\ \A r \in RowSet : grid[r] # EmptyRow

=============================================================================
