---------------------------- MODULE ScrollWindow ----------------------------
(***************************************************************************)
(* The scrolling windows of the client: ui/scroll_window_base.py and its   *)
(* subclasses chat_window.py, room_list.py and user_list.py.  A window     *)
(* keeps the number of its rows, the thumb of its scroll bar and the range *)
(* of rows it shows; rows arrive from the network while the user drags the *)
(* thumb or turns the wheel.                                               *)
(*                                                                         *)
(* Lengths are exact fractions of a pixel, in units of 1/Unit, and y is    *)
(* measured from the top of the track; the rounding of floating point      *)
(* numbers is left out, the truncations of int() are kept.                 *)
(***************************************************************************)
EXTENDS Integers, FiniteSetsExt

CONSTANTS
  Kinds,        \* of "chat", "rooms" and "users", the subclasses
  ShowLines,    \* VISIBLE_LINES, or window_h // line_height
  LineHeight,
  MaxItems,     \* MAX_MESSAGE_LINES of the chat; a bound for the lists
  Unit,
  Points        \* the heights at which the mouse is, in pixels

TrackHeight == ShowLines * LineHeight
Height == TrackHeight * Unit        \* bg_scroll_h
MinHeight == LineHeight * Unit      \* min_h

\* Two rows or more, of three pixels or more: the thumb is then shorter than its
\* track as soon as a row is hidden.
ASSUME ScrollAssumption ==
  /\ Kinds \subseteq {"chat", "rooms", "users"} /\ Points \subseteq Int /\ MaxItems \in Nat
  /\ ShowLines \in Nat \ {0, 1} /\ LineHeight \in Nat \ {0, 1, 2} /\ Unit \in Nat \ {0}
  /\ \A n \in 1..MaxItems : Unit % (2 * n) = 0

VARIABLES
  win,       \* the fields of the window, and which of the Kinds it is
  dragging   \* can_drag

windowVars == <<win, dragging>>

----------------------------------------------------------------------------
(* The methods of the base class, on the record of the window's fields. *)

Truncated(u) == (u \div Unit) * Unit

set_scroll_info(w) ==
  [w EXCEPT !.line = Max({0, w.items - ShowLines}),
            !.px = IF w.items > 0 THEN (Height - MinHeight) \div w.items ELSE 0]

\* The thumb gets its length and is pushed back into the track.
set_scroll_len(w) ==
  LET h == IF w.line = 0 THEN Height ELSE Max({MinHeight, Height - Truncated(w.px * w.line)})
  IN [w EXCEPT !.h = h, !.y = Max({0, Min({w.y, Height - h})})]

\* The first row that belongs to a position of the thumb.
StartAt(w) ==
  IF w.line = 0 \/ w.h >= Height THEN 0 ELSE Min({w.line, (w.y * w.line) \div (Height - w.h)})

set_show_start_index(w) == [w EXCEPT !.start = StartAt(w)]

scroll_to_bottom(w) == [w EXCEPT !.start = w.line, !.y = Height - w.h]

\* update_show_rooms, update_show_user_infos and the middle of draw.
update_show(w) ==
  IF w.line > 0 THEN [w EXCEPT !.end = Min({w.start + ShowLines, w.items})]
  ELSE [w EXCEPT !.start = 0, !.end = w.items]

\* The lists look at their range after every event, the chat when it is drawn.
Refreshed(w) == IF w.kind = "chat" THEN w ELSE update_show(w)

----------------------------------------------------------------------------
(* Events of the mouse. *)

WindowInit ==
  /\ \E k \in Kinds : win = [kind |-> k, items |-> 0, line |-> 0, px |-> 0, h |-> Height, y |-> 0, prev |-> 0,
                              scroll |-> FALSE, start |-> 0, end |-> 0]
  /\ dragging = FALSE

OnThumb(w, p) == p \in (w.y \div Unit)..((w.y \div Unit) + (w.h \div Unit) - 1)

\* A click on the track beside the thumb puts the middle of the thumb there.
MouseDown(where, p) ==
  LET onBar == where = "bar" /\ p \in 0..(TrackHeight - 1)
      inWindow == where = "window" /\ p \in 0..(TrackHeight - 1)
      to == Max({0, Min({p * Unit - win.h \div 2, Height - win.h})})
      w == IF onBar /\ ~OnThumb(win, p) THEN [win EXCEPT !.y = to] ELSE win
  IN /\ dragging' = onBar
     /\ win' = Refreshed(set_show_start_index(
          [w EXCEPT !.prev = IF onBar THEN p ELSE @, !.scroll = onBar \/ inWindow]))

\* The thumb follows the mouse and stops at both ends of the track.
Dragged(w, p) ==
  IF p <= 0 THEN [w EXCEPT !.y = 0, !.prev = 0]
  ELSE IF p >= TrackHeight THEN [w EXCEPT !.y = Height - w.h, !.prev = TrackHeight]
  ELSE [w EXCEPT !.y = Max({0, Min({@ + (p - w.prev) * Unit, Height - w.h})}), !.prev = p]

MouseMotion(p) ==
  /\ win' = Refreshed(set_show_start_index(IF dragging THEN Dragged(win, p) ELSE win))
  /\ UNCHANGED dragging

MouseUp ==
  /\ dragging' = FALSE /\ win' = Refreshed(win)

\* One notch moves the thumb by the length of one row, up to the end.
MouseWheel(down) ==
  /\ win.scroll
  /\ win' = Refreshed(set_show_start_index(
       [win EXCEPT !.y = IF down THEN Min({@ + win.px, Height - win.h}) ELSE Max({0, @ - win.px})]))
  /\ UNCHANGED dragging

----------------------------------------------------------------------------
(* Rows. *)

Measured(w) == set_scroll_len(set_scroll_info(w))

\* Mutant: the first row is not set again.
add_new_messageStill(n) ==
  /\ win.kind = "chat"
  /\ win' = Measured([win EXCEPT !.items = Min({@ + n, MaxItems})])
  /\ UNCHANGED dragging

\* A message of the chat breaks into n rows; the oldest rows are dropped.
add_new_message(n) ==
  LET w == Measured([win EXCEPT !.items = Min({@ + n, MaxItems})])
  IN /\ win.kind = "chat"
     /\ win' = IF dragging THEN set_show_start_index(w) ELSE scroll_to_bottom(w)
     /\ UNCHANGED dragging

\* add_room, and add_user of a user who is not in the list.
add_row ==
  /\ win.kind \in {"rooms", "users"} /\ win.items < MaxItems
  /\ win' = update_show(Measured([win EXCEPT !.items = @ + 1]))
  /\ UNCHANGED dragging

\* Mutant: the first row is not set again.
delete_userStale(n) ==
  /\ win.kind = "users" /\ n <= win.items
  /\ win' = update_show(Measured([win EXCEPT !.items = @ - n]))
  /\ UNCHANGED dragging

\* n is 0 when the user was not in the list.
delete_user(n) ==
  /\ win.kind = "users" /\ n <= win.items
  /\ win' = update_show(set_show_start_index(Measured([win EXCEPT !.items = @ - n])))
  /\ UNCHANGED dragging

\* The drag of a thumb goes on when the list is emptied.
clear ==
  /\ win' = set_scroll_info([win EXCEPT !.items = 0, !.start = 0, !.end = 0, !.y = 0, !.h = Height])
  /\ UNCHANGED dragging

draw == win' = update_show(win) /\ UNCHANGED dragging

WindowNext ==
  \/ \E p \in Points : (\E where \in {"bar", "window", "outside"} : MouseDown(where, p)) \/ MouseMotion(p)
  \/ MouseUp \/ \E down \in BOOLEAN : MouseWheel(down)
  \/ \E n \in 1..2 : add_new_message(n)
  \/ add_row \/ \E n \in 0..1 : delete_user(n)
  \/ clear \/ draw

WindowSpec == WindowInit /\ [][WindowNext]_windowVars

----------------------------------------------------------------------------
(* Properties. *)

\* The thumb stays within its track, with a length of at least a line, and the
\* other fields have the values of their kinds.
WindowTyped ==
  /\ win.kind \in Kinds /\ win.items \in 0..MaxItems /\ win.line \in 0..MaxItems /\ win.px \in 0..Height
  /\ win.h \in MinHeight..Height /\ win.y \in 0..(Height - win.h)
  /\ win.start \in 0..MaxItems /\ win.end \in 0..MaxItems

\* Every window that can be scrolled shows a full page: whatever rows came, went
\* or were dropped under a drag, no row that is drawn lies beyond the end.
FullPage == win.line > 0 => win.start + ShowLines <= win.items

\* The range the lists were last given lies within the rows that exist, so that
\* a click on a row that is shown picks a room or a user of the list.
ShownExists == win.kind # "chat" => win.end <= win.items /\ win.start <= win.end

\* Thumb, first row and last row are recomputed together: the thumb is in its
\* track and the rows that are shown are a full page of rows that exist, whatever
\* the network adds or removes under a drag.
PageShown == WindowTyped /\ FullPage /\ ShownExists

\* The chat shows the page its thumb points to, so that neither a motion of the
\* mouse nor the next wheel notch makes it jump.
StartFollowsThumb == win.kind = "chat" => win.start = StartAt(win)
=============================================================================
