----------------------------- MODULE Controller -----------------------------
(***************************************************************************)
(* The keyboard of a game: game/tetris_controller.py and the part of       *)
(* game/tetris_session.py that feeds it.  Key events change flags, frames  *)
(* turn flags into C2S_MOVE packets: an arrow key moves at once, again     *)
(* after first_delay_ms and then every delay_ms; rotate and drop are sent  *)
(* once per press.  Time is counted in units of delay_ms / Delay.          *)
(***************************************************************************)
EXTENDS Naturals

CONSTANTS
  Arrows,     \* the arrow keys that repeat: LEFT, RIGHT, DOWN
  First,      \* first_delay_ms
  Delay,      \* delay_ms
  Steps       \* the lengths of a frame

ASSUME ControllerAssumption ==
  /\ Arrows \subseteq {"LEFT", "RIGHT", "DOWN"}
  /\ First \in Nat \ {0} /\ Delay \in 1..First
  /\ Steps \subseteq Nat \ {0} /\ Steps # {}

Keys == Arrows \cup {"ROTATE", "DROP"}
LongStep == CHOOSE s \in Steps : \A t \in Steps : t <= s

VARIABLES
  state,       \* TetrisSession.state: "PLAY", or "WAIT" for every other one
  pressed,     \* the keys whose ..._pressed flag is set
  first_move,  \* the arrows whose ..._first_move flag is set
  first_over,
  elapsed,     \* ..._elapsed_time
  moves,       \* the moves sent in the last frame
  held,        \* the keys that are down on the keyboard
  fresh,       \* of these, the ones that went down in the game since the last frame
  missed,      \* the keys whose flags were set when they went up outside a game
  since,       \* time since an arrow was last sent, up to First
  repeats      \* an arrow's moves since its key went down, up to 2

flags == <<pressed, first_move, first_over, elapsed>>
seen == <<moves, held, fresh, missed, since, repeats>>
vars == <<state, flags, seen>>

playing == state = "PLAY"

Init ==
  /\ state = "WAIT"
  /\ pressed = {} /\ first_move = {} /\ first_over = {} /\ elapsed = [k \in Arrows |-> 0]
  /\ moves = {} /\ held = {} /\ fresh = {} /\ missed = {}
  /\ since = [k \in Arrows |-> First] /\ repeats = [k \in Arrows |-> 0]

\* A game begins or ends by a packet; neither touches the controller.
GameStarts ==
  /\ ~playing
  /\ state' = "PLAY"
  /\ UNCHANGED <<flags, seen>>

GameEnds ==
  /\ playing
  /\ state' = "WAIT" /\ fresh' = {}
  /\ UNCHANGED <<flags, moves, held, missed, since, repeats>>

\* KEYDOWN; outside a game the controller gets no events.
KeyDown(k) ==
  /\ k \notin held /\ held' = held \cup {k}
  /\ IF playing THEN pressed' = pressed \cup {k} /\ fresh' = fresh \cup {k}
     ELSE UNCHANGED <<pressed, fresh>>
  /\ repeats' = [a \in Arrows |-> IF a = k THEN 0 ELSE repeats[a]]
  /\ UNCHANGED <<state, first_move, first_over, elapsed, moves, missed, since>>

\* Mutant: the flags of the delays are kept.
KeyUpKept(k) ==
  /\ k \in held /\ held' = held \ {k} /\ fresh' = fresh \ {k}
  /\ pressed' = IF playing THEN pressed \ {k} ELSE pressed
  /\ UNCHANGED <<state, first_move, first_over, elapsed, moves, missed, since, repeats>>

\* Mutant: the pressed flag is kept.
KeyUpDeaf(k) ==
  /\ k \in held /\ held' = held \ {k} /\ fresh' = fresh \ {k}
  /\ first_move' = first_move \ {k} /\ first_over' = first_over \ {k}
  /\ elapsed' = [a \in Arrows |-> IF a = k THEN 0 ELSE elapsed[a]]
  /\ UNCHANGED <<state, pressed, moves, missed, since, repeats>>

\* KEYUP: an arrow forgets its delays too.
KeyUp(k) ==
  /\ k \in held /\ held' = held \ {k} /\ fresh' = fresh \ {k}
  /\ IF playing
     THEN /\ pressed' = pressed \ {k}
          /\ first_move' = first_move \ {k} /\ first_over' = first_over \ {k}
          /\ elapsed' = [a \in Arrows |-> IF a = k THEN 0 ELSE elapsed[a]]
          /\ missed' = missed \ {k}
     ELSE UNCHANGED flags /\ missed' = missed \cup ({k} \cap (pressed \cup first_move))
  /\ UNCHANGED <<state, moves, since, repeats>>

\* Mutant: no time passes after the first delay.
TimerStopped(k, dt) == elapsed[k] + IF k \in pressed \ first_over THEN dt ELSE 0

\* update of one frame: the timers, then send_move_handler.
Timer(k, dt) == elapsed[k] + IF k \in pressed THEN dt ELSE 0
\* Mutant: the first move is sent in every frame.
FirstDueEarly(k, dt) == k \in pressed /\ k \notin first_over
FirstDue(k, dt) == k \in pressed /\ k \notin first_over /\ k \notin first_move
\* The first delay, or a later one, is over.
DelayOver(k, dt) ==
  k \in pressed /\ Timer(k, dt) >= (IF k \in first_over THEN Delay ELSE First)

Frame(dt) ==
  LET due == {k \in Arrows : FirstDue(k, dt) \/ DelayOver(k, dt)}
      over == {k \in Arrows : DelayOver(k, dt)}
  IN  /\ playing
      /\ moves' = due \cup (pressed \cap {"ROTATE", "DROP"})
      /\ first_move' = first_move \cup {k \in Arrows : FirstDue(k, dt)}
      /\ first_over' = first_over \cup over
      /\ elapsed' = [k \in Arrows |-> IF k \in over THEN 0 ELSE Timer(k, dt)]
      /\ pressed' = IF "DROP" \in pressed THEN {} ELSE pressed \ {"ROTATE"}
      /\ fresh' = {}
      /\ since' = [k \in Arrows |-> IF k \in due THEN 0
                                    ELSE IF since[k] + dt < First THEN since[k] + dt ELSE First]
      /\ repeats' = [k \in Arrows |-> IF k \in due /\ repeats[k] < 2 THEN repeats[k] + 1 ELSE repeats[k]]
      /\ UNCHANGED <<state, held, missed>>

NextFrame == \E dt \in Steps : Frame(dt)
PressKey == \E k \in Keys : KeyDown(k)
ReleaseKey == \E k \in Keys : KeyUp(k)

Next == GameStarts \/ GameEnds \/ PressKey \/ ReleaseKey \/ NextFrame
Spec == Init /\ [][Next]_vars

\* The main loop runs at 60 frames a second; the player owes it nothing.
FairSpec == Spec /\ WF_vars(NextFrame)

----------------------------------------------------------------------------
(* Properties. *)

\* The flags are sets of keys and the timers stay below the first delay.
TypeOK ==
  /\ state \in {"PLAY", "WAIT"}
  /\ pressed \subseteq Keys /\ first_move \subseteq Arrows /\ first_over \subseteq Arrows
  /\ elapsed \in [Arrows -> 0..(First - 1)] /\ moves \subseteq Keys
  /\ held \subseteq Keys /\ fresh \subseteq Keys /\ missed \subseteq Keys
  /\ since \in [Arrows -> 0..First] /\ repeats \in [Arrows -> 0..2]

\* "키 입력 → C2S_MOVE" (tetris_controller.py): a move stems from the keyboard.
\* A flag is set only for a key that is down, so that a frame sends nothing the
\* player does not ask for; the exception are keys that went up between two
\* games, of which the controller is not told.
PressedIsHeld == pressed \subseteq held \cup missed

\* A key that goes down in a game, and is still down at the frame, moves in that
\* frame, whatever drops, releases, repeats and games came before.
FreshKeyMoves == [][NextFrame => fresh \ missed \subseteq moves']_vars

\* The repeats of an arrow keep their distance: the first one comes First after
\* the press, less the frame of the press, later ones Delay after each other.
RepeatsSpaced ==
  [][NextFrame => \A k \in (Arrows \cap moves') \ missed :
        \/ repeats[k] = 0
        \/ repeats[k] = 1 /\ since[k] + LongStep + LongStep >= First
        \/ repeats[k] = 2 /\ since[k] + LongStep >= Delay]_vars

\* An arrow that stays down moves again and again until it is released, a drop
\* silences it or the game ends.
HeldKeyRepeats ==
  \A k \in Arrows : (playing /\ k \in pressed) ~> (k \in moves \/ k \notin pressed \/ ~playing)
=============================================================================
